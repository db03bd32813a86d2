------------------------- MODULE CrossingAttachProofs -------------------------
(***************************************************************************)
(* An attach for any clients, schemas and entries, and for any changes of   *)
(* its source: the inductive invariant Inv of CrossingAttach and the safety *)
(* properties that it carries.                                              *)
(***************************************************************************)
EXTENDS CrossingAttach, TLAPS

LEMMA SnapshotIs ==
  ASSUME NEW x \in Snapshots
  PROVE  x # None /\ x.by \in Clients \cup {None} /\ x.n \in Nat /\ x.exists \in BOOLEAN
  BY NoneAssumption DEF Snapshots

LEMMA SnapshotMade ==
  ASSUME NEW b \in Clients \cup {None}, NEW m \in Nat, NEW x \in BOOLEAN
  PROVE  [by |-> b, n |-> m, exists |-> x] \in Snapshots
  BY DEF Snapshots

LEMMA CachedIs ==
  ASSUME NEW x \in Cached
  PROVE  x # None /\ x.addr \in Entries /\ x.snapshot \in Snapshots /\ x.owner \in Owners
  BY NoneAssumption DEF Cached

LEMMA OverlayIs ==
  ASSUME NEW o \in Overlays
  PROVE  /\ o # None /\ o.tables \in Snapshots \cup {None} /\ o.cache \in Cached \cup {None}
         /\ o.retired \in SUBSET Entries
  BY NoneAssumption DEF Overlays

LEMMA OverlayExcept ==
  ASSUME NEW o \in Overlays
  PROVE  /\ \A r : [o EXCEPT !.retired = r] = [tables |-> o.tables, cache |-> o.cache, retired |-> r]
         /\ \A t : [o EXCEPT !.tables = t] = [tables |-> t, cache |-> o.cache, retired |-> o.retired]
  BY DEF Overlays

LEMMA OverlayMade ==
  ASSUME NEW t \in Snapshots \cup {None}, NEW k \in Cached \cup {None}, NEW r \in SUBSET Entries
  PROVE  [tables |-> t, cache |-> k, retired |-> r] \in Overlays
  BY DEF Overlays

LEMMA ListingIs ==
  ASSUME NEW l \in Listings
  PROVE  l.tables \in Snapshots \cup {None} /\ l.schema \in Snapshots \cup {None}
  BY DEF Listings

LEMMA ListingExcept ==
  ASSUME NEW l \in Listings, NEW x \in Snapshots
  PROVE  /\ [l EXCEPT !.tables = x] \in Listings /\ [l EXCEPT !.tables = x].tables = x
         /\ [l EXCEPT !.schema = x] \in Listings /\ [l EXCEPT !.schema = x].tables = l.tables
  BY DEF Listings

LEMMA UnlistedIs == Unlisted \in Listings /\ Unlisted.tables = None
  BY DEF Unlisted, Listings

LEMMA ResultMade ==
  ASSUME NEW x \in Snapshots, NEW m \in Nat, NEW b \in BOOLEAN
  PROVE  /\ [snapshot |-> x, floor |-> m, own |-> b] \in Results
         /\ [snapshot |-> x, floor |-> m, own |-> b] # None
  BY NoneAssumption DEF Results

LEMMA ResultIs ==
  ASSUME NEW x \in Results
  PROVE  x # None /\ x.snapshot \in Snapshots /\ x.floor \in Nat /\ x.own \in BOOLEAN
  BY NoneAssumption DEF Results

LEMMA PointedIs == \A e : e \in Pointed <=> \E c \in Clients : e \in held[c]
  BY DEF Pointed

LEMMA AddrIs == \A k, e : e \in Addr(k) <=> (k # None /\ e = k.addr)
  BY DEF Addr

\* What the attach owns of overlay[c][s].
LEMMA OwnedIs ==
  \A e : e \in Owned <=>
      \/ \E s \in Schemas : e \in Addr(cache[s]) \/ e \in retired[s]
      \/ \E c \in Clients, s \in Schemas :
            overlay[c][s] # None /\ (e \in Addr(overlay[c][s].cache) \/ e \in overlay[c][s].retired)
  <1> DEFINE Kept == {Addr(cache[s]) \cup retired[s] : s \in Schemas}
             OfOverlay(c, s) == IF overlay[c][s] = None THEN {}
                                ELSE Addr(overlay[c][s].cache) \cup overlay[c][s].retired
             Own == {OfOverlay(c, s) : c \in Clients, s \in Schemas}
  <1>1. \A e : e \in UNION Kept <=> \E s \in Schemas : e \in Addr(cache[s]) \/ e \in retired[s]
    OBVIOUS
  <1>2. \A e, c, s : e \in OfOverlay(c, s) <=>
            overlay[c][s] # None /\ (e \in Addr(overlay[c][s].cache) \/ e \in overlay[c][s].retired)
    OBVIOUS
  <1>3. Owned = (UNION Kept) \cup (UNION Own)
    BY DEF Owned
  <1> HIDE DEF Kept, OfOverlay
  <1>4. \A e : e \in UNION Own <=> \E c \in Clients, s \in Schemas : e \in OfOverlay(c, s)
    OBVIOUS
  <1>5. \A e : e \in UNION Own <=> \E c \in Clients, s \in Schemas :
            overlay[c][s] # None /\ (e \in Addr(overlay[c][s].cache) \/ e \in overlay[c][s].retired)
    BY <1>2, <1>4
  <1> HIDE DEF Own
  <1> QED
    BY <1>1, <1>3, <1>5

\* A new entry is at an address nobody points to and nothing owns.
LEMMA NewEntryIs ==
  ASSUME TypeOK, HasRoom, NEW c \in Clients, NEW x \in Snapshots
  PROVE  /\ NewEntry(c, x) \in Cached
         /\ NewEntry(c, x).snapshot = x
         /\ NewEntry(c, x).owner = owner[c]
         /\ NewEntry(c, x).addr \notin Owned \cup Pointed
  <1> DEFINE a == CHOOSE e \in Entries : e \notin Owned \cup Pointed
  <1>1. a \in Entries /\ a \notin Owned \cup Pointed
    BY DEF HasRoom
  <1>2. owner[c] \in Owners
    BY DEF TypeOK
  <1>3. NewEntry(c, x) = [addr |-> a, snapshot |-> x, owner |-> owner[c]]
    BY DEF NewEntry
  <1> HIDE DEF a
  <1> QED
    BY <1>1, <1>2, <1>3 DEF Cached

LEMMA RetiredOfIs ==
  ASSUME NEW k \in Cached \cup {None}
  PROVE  RetiredOf(k) \in SUBSET Entries /\ \A e \in Pointed : e \in Addr(k) => e \in RetiredOf(k)
  <1>1. Addr(k) \subseteq Entries
    BY CachedIs, AddrIs
  <1> QED
    BY <1>1 DEF RetiredOf, Retired

LEMMA AbandonedIs ==
  ASSUME NEW o \in Overlays
  PROVE  /\ Abandoned(o) \in SUBSET Entries
         /\ \A e \in Pointed : e \in Addr(o.cache) \/ e \in o.retired => e \in Abandoned(o)
  <1>1. o.retired \in SUBSET Entries /\ o.cache \in Cached \cup {None}
    BY OverlayIs
  <1>2. Addr(o.cache) \subseteq Entries
    BY <1>1, CachedIs, AddrIs
  <1> QED
    BY <1>1, <1>2 DEF Abandoned, Retired

LEMMA NewOverlayIs ==
  ASSUME NEW o \in Overlays \cup {None}
  PROVE  /\ NewOverlay(o) \in Overlays /\ NewOverlay(o) # None
         /\ NewOverlay(o).tables = None /\ NewOverlay(o).cache = None
         /\ o # None => NewOverlay(o).retired = Abandoned(o)
  <1>1. PICK r \in SUBSET Entries :
           NewOverlay(o) = [tables |-> None, cache |-> None, retired |-> r] /\ (o # None => r = Abandoned(o))
    <2>1. CASE o = None
      BY <2>1 DEF NewOverlay
    <2>2. CASE o # None
      <3>1. Abandoned(o) \in SUBSET Entries
        BY <2>2, AbandonedIs
      <3> QED
        BY <2>2, <3>1 DEF NewOverlay
    <2> QED
      BY <2>1, <2>2
  <1>2. [tables |-> None, cache |-> None, retired |-> r] \in Overlays
    BY OverlayMade
  <1> QED
    BY <1>1, <1>2, OverlayIs

\* The result of c's lookup when it returns on the strength of snapshot x.
Answer(c, x) == [snapshot |-> x, floor |-> floor[c], own |-> ~pinning[c]]

LEMMA AnswerIs ==
  ASSUME TypeOK, NEW c \in Clients, NEW x \in Snapshots
  PROVE  /\ Answer(c, x) \in Results /\ Answer(c, x) # None
         /\ Answer(c, x).snapshot = x /\ Answer(c, x).floor = floor[c]
         /\ Answer(c, x).own <=> ~pinning[c]
  <1>1. floor[c] \in Nat /\ (~pinning[c]) \in BOOLEAN
    BY DEF TypeOK
  <1> QED
    BY <1>1, ResultMade DEF Answer

\* c's call goes on at q, with what it knows of the lookup and the DDL under way.
GoesOnAt(c, q, p, v, m) ==
    /\ pc' = [pc EXCEPT ![c] = q]
    /\ pinning' = [pinning EXCEPT ![c] = p]
    /\ verb' = [verb EXCEPT ![c] = v]
    /\ floor' = [floor EXCEPT ![c] = m]

LEMMA GoesOnType ==
  ASSUME TypeOK, NEW c \in Clients, NEW q \in PCs, NEW p \in BOOLEAN, NEW v \in Verbs \cup {None},
         NEW m \in Nat, GoesOnAt(c, q, p, v, m)
  PROVE  /\ pc' \in [Clients -> PCs] /\ pinning' \in [Clients -> BOOLEAN]
         /\ verb' \in [Clients -> Verbs \cup {None}] /\ floor' \in [Clients -> Nat]
  BY DEF TypeOK, GoesOnAt

LEMMA ContinueIs ==
  ASSUME TypeOK, NEW c \in Clients, NEW where, Continue(c, where)
  PROVE  /\ held' = held /\ result' = result
         /\ GoesOnAt(c, where, pinning[c], verb[c], floor[c])
         /\ pinning[c] \in BOOLEAN /\ verb[c] \in Verbs \cup {None} /\ floor[c] \in Nat
  BY DEF TypeOK, Continue, GoesOnAt

\* What a lookup that returns does to the lookup's state.
LEMMA ReturnIs ==
  ASSUME TypeOK, NEW c \in Clients, NEW addresses \in SUBSET Entries, NEW x \in Snapshots,
         Return(c, addresses, x)
  PROVE  /\ held' = [held EXCEPT ![c] = @ \cup addresses]
         /\ result' = [result EXCEPT ![c] = Answer(c, x)]
         /\ \E q \in PCs, p \in BOOLEAN, v \in Verbs \cup {None}, m \in Nat :
               /\ GoesOnAt(c, q, p, v, m) /\ q \in {"idle", "tables", "ddl"}
               /\ q = "tables" => m = promised[at[c]]
  <1> "idle" \in PCs /\ "tables" \in PCs /\ "ddl" \in PCs
    BY DEF PCs
  <1>1. held' = [held EXCEPT ![c] = @ \cup addresses] /\ result' = [result EXCEPT ![c] = Answer(c, x)]
    BY DEF Return, Answer
  <1>2. /\ pinning[c] \in BOOLEAN /\ verb[c] \in Verbs \cup {None}
        /\ floor[c] \in Nat /\ promised[at[c]] \in Nat
    BY DEF TypeOK
  <1>3. CASE verb[c] = None \/ (verb[c] = "drop" /\ ~pinning[c] /\ ~x.exists)
    <2>1. GoesOnAt(c, "idle", pinning[c], None, floor[c])
      BY <1>3 DEF Return, AfterLookup, TypeOK, GoesOnAt
    <2> QED
      BY <1>1, <1>2, <2>1
  <1>4. CASE verb[c] # None /\ ~pinning[c] /\ (verb[c] = "drop" => x.exists)
    <2>1. GoesOnAt(c, "tables", TRUE, verb[c], promised[at[c]])
      BY <1>4 DEF Return, AfterLookup, BeginLookup, TypeOK, GoesOnAt
    <2> QED
      BY <1>1, <1>2, <2>1
  <1>5. CASE verb[c] # None /\ pinning[c]
    <2>1. GoesOnAt(c, "ddl", pinning[c], verb[c], floor[c])
      BY <1>5 DEF Return, AfterLookup, TypeOK, GoesOnAt
    <2> QED
      BY <1>1, <1>2, <2>1
  <1> QED
    BY <1>3, <1>4, <1>5 DEF Return, AfterLookup

\* The listings as a step that applies the refreshes leaves them.
LEMMA RefreshedIs ==
  ASSUME TypeOK
  PROVE  /\ RefreshedListings \in [Schemas -> Listings]
         /\ \A s \in Schemas : RefreshedListings[s].tables # None =>
               s \notin Queued /\ RefreshedListings[s].tables = served[s].tables
  BY UnlistedIs DEF RefreshedListings, TypeOK

\* The same of the state after a step.
LEMMA PointedIsThen == \A e : e \in Pointed' <=> \E c \in Clients : e \in held'[c]
  BY DEF Pointed

LEMMA OwnedIsThen ==
  \A e : e \in Owned' <=>
      \/ \E s \in Schemas : e \in Addr(cache'[s]) \/ e \in retired'[s]
      \/ \E c \in Clients, s \in Schemas :
            overlay'[c][s] # None /\ (e \in Addr(overlay'[c][s].cache) \/ e \in overlay'[c][s].retired)
  <1>1. (\A e : e \in Owned <=>
            \/ \E s \in Schemas : e \in Addr(cache[s]) \/ e \in retired[s]
            \/ \E c \in Clients, s \in Schemas :
                  overlay[c][s] # None /\ (e \in Addr(overlay[c][s].cache) \/ e \in overlay[c][s].retired))'
    BY OwnedIs, PTL
  <1> QED
    BY <1>1 DEF Addr

LEMMA PointersFrame ==
  ASSUME PointersStayGood, held' = held, cache' = cache, retired' = retired, overlay' = overlay
  PROVE  PointersStayGood'
  <1>1. Pointed' = Pointed /\ Owned' = Owned
    BY DEF Pointed, Owned, Addr
  <1> QED
    BY <1>1 DEF PointersStayGood

\* What is remembered of a schema is going to be forgotten after a step that keeps
\* the promises, when it keeps so what was going to be.
LEMMA PromisesFrame ==
  ASSUME Inv, promised' = promised, owed' = owed, altered' = altered,
         \A s \in Schemas, m \in Nat : m <= committed[s].n /\ Forgotten(s, m) => Forgotten(s, m)'
  PROVE  PromisesKept'
  <1> USE DEF Inv, TypeOK
  <1>1. ASSUME NEW s \in Schemas PROVE Forgotten(s, promised[s])'
    <2>1. PICK m \in Nat : m = promised[s]
      OBVIOUS
    <2>2. Forgotten(s, m)'
      BY <2>1 DEF PromisesKept, CountsBounded
    <2> QED
      BY <2>1, <2>2 DEF Forgotten
  <1>2. ASSUME NEW s \in Schemas, NEW c \in Clients, owed'[c][s] # 0, s \notin altered'[c]
        PROVE  Forgotten(s, owed[c][s])'
    <2>1. PICK m \in Nat : m = owed[c][s]
      OBVIOUS
    <2>2. Forgotten(s, m)'
      BY <1>2, <2>1 DEF PromisesKept, CountsBounded
    <2> QED
      BY <2>1, <2>2 DEF Forgotten
  <1> QED
    BY <1>1, <1>2 DEF PromisesKept

\* A step that applies the queued refreshes keeps the promises: with schemas_lock
\* free nobody is about to store a listing.
LEMMA ApplyKeepsPromises ==
  ASSUME Inv, schemas_lock = None, ApplyRefreshes, served' = RefreshedListings,
         UNCHANGED <<cache, fetched, promised, owed, altered>>,
         \A d \in Clients : pc'[d] \in {"listed", "described"} => pc'[d] = pc[d] /\ at'[d] = at[d]
  PROVE  PromisesKept'
  <1> USE DEF Inv, TypeOK
  <1>1. \A d \in Clients : pc[d] # "listed"
    BY AttachAssumption DEF LocksHeld
  <1>2. ASSUME NEW s \in Schemas, NEW m \in Nat, Forgotten(s, m) PROVE Forgotten(s, m)'
    <2>1. served'[s].tables # None => s \notin Queued /\ served'[s].tables = served[s].tables
      BY RefreshedIs
    <2>2. stale'[s] <=> stale[s] \/ s \in Queued
      BY DEF ApplyRefreshes
    <2>3. ASSUME NEW d \in Clients, at'[d] = s, pc'[d] = "described", fetched'[d].n < m
          PROVE  stale'[s]
      BY <1>2, <2>2, <2>3 DEF Forgotten
    <2>4. \A d \in Clients : pc'[d] # "listed"
      BY <1>1
    <2> QED
      BY <1>2, <2>1, <2>2, <2>3, <2>4 DEF Forgotten
  <1> QED
    BY <1>2, PromisesFrame

\* What a lookup may count on was promised, and what was promised is committed.
LEMMA FloorBounded ==
  ASSUME Inv, NEW c \in Clients, pc[c] \in SharedLookup
  PROVE  /\ floor[c] \in Nat /\ promised[at[c]] \in Nat /\ committed[at[c]].n \in Nat
         /\ floor[c] <= promised[at[c]] /\ promised[at[c]] <= committed[at[c]].n
  <1>1. /\ at[c] \in Schemas /\ floor[c] \in Nat /\ promised[at[c]] \in Nat
        /\ committed[at[c]] \in Snapshots
    BY DEF Inv, TypeOK
  <1>2. floor[c] <= promised[at[c]]
    BY DEF Inv, CountsBounded
  <1>3. promised[at[c]] <= committed[at[c]].n
    BY <1>1 DEF Inv, CountsBounded
  <1> QED
    BY <1>1, <1>2, <1>3, SnapshotIs

\* The same when it returns nothing.
LEMMA ReturnsNothing ==
  ASSUME TypeOK, NEW c \in Clients, NEW x \in Snapshots, Return(c, {}, x)
  PROVE  /\ held' = held /\ result' = [result EXCEPT ![c] = Answer(c, x)]
         /\ \E q \in PCs, p \in BOOLEAN, v \in Verbs \cup {None}, m \in Nat :
               /\ GoesOnAt(c, q, p, v, m) /\ q \in {"idle", "tables", "ddl"}
               /\ q = "tables" => m = promised[at[c]]
  <1>1. [held EXCEPT ![c] = @ \cup {}] = held
    BY DEF TypeOK
  <1>2. {} \in SUBSET Entries
    OBVIOUS
  <1> QED
    BY <1>1, <1>2, ReturnIs

\* A lookup among the shared caches is Pin's or of a schema its session left alone.
LEMMA NothingOwn ==
  ASSUME Inv, NEW c \in Clients, ~SeesOwn(c), pc[c] \notin Releasing, ~pinning[c]
  PROVE  private[c][at[c]] = None
  <1>1. at[c] \in Schemas
    BY DEF Inv, TypeOK
  <1>2. OverlayOwn(c, at[c])
    BY <1>1 DEF Inv, OverlaysOwn
  <1> QED
    BY <1>2 DEF OverlayOwn, SeesOwn

-----------------------------------------------------------------------------
LEMMA StartLookupInv ==
  ASSUME Inv, NEW c \in Clients, StartLookup(c)
  PROVE  Inv'
  <1> USE DEF Inv, TypeOK, StartLookup, BeginLookup, sourceVars, listingVars, cacheVars, slotVars, locks, clientVars, history
  <1>1. TypeOK'
    BY DEF PCs
  <1>2. LocksHeld'
    BY DEF LocksHeld
  <1>3. RepliesCommitted'
    BY DEF RepliesCommitted
  <1>4. OverlaysOwn'
    BY DEF OverlaysOwn, OverlayOwn, Releasing
  <1>5. ResultsOwn'
    BY DEF ResultsOwn, Releasing, SharedLookup, SeesOwn
  <1>6. CountsBounded'
    BY DEF CountsBounded, SharedLookup
  <1>7. PromisesKept'
    BY DEF PromisesKept, Forgotten, Queued
  <1>8. FloorKept'
    BY DEF FloorKept
  <1>9. OthersIsolated'
    BY DEF OthersIsolated
  <1>10. PointersStayGood'
    BY PointersFrame
  <1>11. FreshLookups'
    BY DEF FreshLookups
  <1> QED
    BY <1>1, <1>2, <1>3, <1>4, <1>5, <1>6, <1>7, <1>8, <1>9, <1>10, <1>11

LEMMA LookupOwnInv ==
  ASSUME Inv, NEW c \in Clients, LookupOwn(c)
  PROVE  Inv'
  <1> USE DEF Inv, TypeOK
  <1>1. /\ pc[c] = "tables" /\ ~pinning[c] /\ at[c] \in Schemas
        /\ OverlayOwn(c, at[c]) /\ overlay[c][at[c]] # None
    BY DEF LookupOwn, SeesOwn, OverlaysOwn
  <1>2. PICK o \in Overlays : o = overlay[c][at[c]]
    BY <1>1
  <1>3. PICK x \in Snapshots : /\ x = private[c][at[c]] /\ x # None /\ x.by = c
                               /\ o.tables # None => o.tables = x
                               /\ o.cache # None => o.cache.snapshot = x
    BY <1>1, <1>2, SnapshotIs DEF OverlayOwn
  <1>4. /\ o.tables \in Snapshots \cup {None} /\ o.cache \in Cached \cup {None}
        /\ o.retired \in SUBSET Entries
    BY OverlayIs
  <1>5. /\ UNCHANGED <<committed, private, changes, refresh_all, refresh_schemas, served>>
        /\ UNCHANGED <<cache, stale, retired, altered, schemas_lock, state_lock>>
        /\ UNCHANGED <<at, owner, fetched, promised, owed>>
    BY DEF LookupOwn, sourceVars, listingVars, cacheVars, locks
  \* The overlay keeps the listing and an entry, and what it gives up is retired.
  <1>6. \E n \in Overlays, addresses \in SUBSET Entries :
           /\ overlay' = [overlay EXCEPT ![c][at[c]] = n]
           /\ Return(c, addresses, x)
           /\ n.tables = x
           /\ n.cache # None => n.cache.snapshot = x
           /\ addresses \subseteq Addr(n.cache)
           /\ \A e \in Pointed : e \in Addr(o.cache) \/ e \in o.retired
                                    => e \in Addr(n.cache) \/ e \in n.retired
    <2>1. CASE ~x.exists
      <3>1. /\ overlay' = [overlay EXCEPT ![c][at[c]].tables = x] /\ Return(c, {}, x)
        BY <1>2, <1>3, <2>1 DEF LookupOwn
      <3>2. PICK n : n = [tables |-> x, cache |-> o.cache, retired |-> o.retired]
        OBVIOUS
      <3>3. n \in Overlays
        BY <1>4, <3>2, OverlayMade
      <3>4. overlay' = [overlay EXCEPT ![c][at[c]] = n]
        BY <1>2, <3>1, <3>2, OverlayExcept
      <3>5. n.tables = x /\ n.cache = o.cache /\ n.retired = o.retired
        BY <3>2
      <3>6. {} \in SUBSET Entries /\ {} \subseteq Addr(n.cache)
        OBVIOUS
      <3> QED
        BY <1>3, <3>1, <3>3, <3>4, <3>5, <3>6
    <2>2. CASE x.exists /\ o.cache # None /\ o.cache.owner = owner[c]
      <3>1. /\ overlay' = [overlay EXCEPT ![c][at[c]] =
                  [tables |-> x, cache |-> o.cache, retired |-> o.retired \cup {}]]
            /\ Return(c, {o.cache.addr}, o.cache.snapshot)
        BY <1>2, <1>3, <2>2 DEF LookupOwn
      <3>2. PICK n : n = [tables |-> x, cache |-> o.cache, retired |-> o.retired \cup {}]
        OBVIOUS
      <3>3. n \in Overlays
        BY <1>4, <3>2, OverlayMade
      <3>4. n.tables = x /\ n.cache = o.cache /\ n.retired = o.retired
        BY <3>2
      <3>5. {o.cache.addr} \in SUBSET Entries /\ {o.cache.addr} \subseteq Addr(n.cache)
        BY <1>4, <2>2, <3>4, CachedIs, AddrIs
      <3>6. o.cache.snapshot = x
        BY <1>3, <2>2
      <3> QED
        BY <3>1, <3>2, <3>3, <3>4, <3>5, <3>6
    <2>3. CASE x.exists /\ ~(o.cache # None /\ o.cache.owner = owner[c])
      <3>1. /\ overlay' = [overlay EXCEPT ![c][at[c]] =
                  [tables |-> x, cache |-> NewEntry(c, x), retired |-> o.retired \cup RetiredOf(o.cache)]]
            /\ HasRoom /\ Return(c, {NewEntry(c, x).addr}, NewEntry(c, x).snapshot)
        BY <1>2, <1>3, <2>3 DEF LookupOwn
      <3>2. PICK k \in Cached : k = NewEntry(c, x) /\ k.snapshot = x
        BY <3>1, NewEntryIs
      <3>3. PICK n : n = [tables |-> x, cache |-> k, retired |-> o.retired \cup RetiredOf(o.cache)]
        OBVIOUS
      <3>4. o.retired \cup RetiredOf(o.cache) \in SUBSET Entries
        BY <1>4, RetiredOfIs
      <3>5. n \in Overlays
        BY <3>3, <3>4, OverlayMade
      <3>6. n.tables = x /\ n.cache = k /\ n.retired = o.retired \cup RetiredOf(o.cache)
        BY <3>3
      <3>7. {k.addr} \in SUBSET Entries /\ {k.addr} \subseteq Addr(n.cache)
        BY <3>6, CachedIs, AddrIs
      <3>8. \A e \in Pointed : e \in Addr(o.cache) \/ e \in o.retired => e \in n.retired
        BY <1>4, <3>6, RetiredOfIs
      <3> QED
        BY <3>1, <3>2, <3>3, <3>5, <3>6, <3>7, <3>8
    <2> QED
      BY <2>1, <2>2, <2>3
  <1>7. PICK n \in Overlays, addresses \in SUBSET Entries :
           /\ overlay' = [overlay EXCEPT ![c][at[c]] = n]
           /\ Return(c, addresses, x)
           /\ n.tables = x
           /\ n.cache # None => n.cache.snapshot = x
           /\ addresses \subseteq Addr(n.cache)
           /\ \A e \in Pointed : e \in Addr(o.cache) \/ e \in o.retired
                                    => e \in Addr(n.cache) \/ e \in n.retired
    BY <1>6
  <1>8. held' = [held EXCEPT ![c] = @ \cup addresses] /\ result' = [result EXCEPT ![c] = Answer(c, x)]
    BY <1>7, ReturnIs
  <1>9. PICK q \in PCs, p \in BOOLEAN, v \in Verbs \cup {None}, m \in Nat :
           /\ GoesOnAt(c, q, p, v, m) /\ q \in {"idle", "tables", "ddl"}
           /\ q = "tables" => m = promised[at[c]]
    BY <1>7, ReturnIs
  <1>10. /\ Answer(c, x) \in Results /\ Answer(c, x) # None
         /\ Answer(c, x).snapshot = x /\ Answer(c, x).floor = floor[c]
    BY AnswerIs
  <1>11. /\ overlay'[c][at[c]] = n /\ n # None
         /\ \A d \in Clients, s \in Schemas : (d # c \/ s # at[c]) => overlay'[d][s] = overlay[d][s]
    BY <1>1, <1>7, OverlayIs
  <1>12. TypeOK'
    <2>1. /\ pc' \in [Clients -> PCs] /\ pinning' \in [Clients -> BOOLEAN]
          /\ verb' \in [Clients -> Verbs \cup {None}] /\ floor' \in [Clients -> Nat]
      BY <1>9 DEF GoesOnAt
    <2>2. held' \in [Clients -> SUBSET Entries]
      BY <1>7, <1>8
    <2>3. result' \in [Clients -> Results \cup {None}]
      BY <1>8, <1>10
    <2>4. overlay' \in [Clients -> [Schemas -> Overlays \cup {None}]]
      BY <1>7
    <2> QED
      BY <1>5, <2>1, <2>2, <2>3, <2>4
  <1>13. LocksHeld'
    BY <1>5, <1>9 DEF LocksHeld, GoesOnAt
  <1>14. RepliesCommitted'
    BY <1>5, <1>9 DEF RepliesCommitted, GoesOnAt
  <1>15. OverlaysOwn'
    <2>1. ASSUME NEW d \in Clients, NEW s \in Schemas, d # c \/ s # at[c]
          PROVE  OverlayOwn(d, s)'
      BY <1>1, <1>5, <1>9, <1>11, <2>1 DEF OverlaysOwn, OverlayOwn, Releasing, GoesOnAt
    <2>2. ASSUME NEW s \in Schemas, s = at[c]
          PROVE  OverlayOwn(c, s)'
      BY <1>1, <1>3, <1>5, <1>7, <1>9, <1>11, <2>2 DEF OverlayOwn, GoesOnAt
    <2> QED
      BY <2>1, <2>2 DEF OverlaysOwn
  <1>16. ResultsOwn'
    <2>1. \A d \in Clients : d # c => overlay'[d] = overlay[d] /\ result'[d] = result[d]
      BY <1>7, <1>8
    <2> QED
      BY <1>3, <1>5, <1>8, <1>9, <1>10, <2>1 DEF ResultsOwn, Releasing, SharedLookup, SeesOwn, GoesOnAt
  <1>17. CountsBounded'
    BY <1>1, <1>5, <1>9 DEF CountsBounded, SharedLookup, GoesOnAt
  <1>18. PromisesKept'
    <2>1. ASSUME NEW s \in Schemas, NEW i \in Nat, i <= committed[s].n, Forgotten(s, i)
          PROVE  Forgotten(s, i)'
      BY <1>5, <1>9, <2>1 DEF Forgotten, Queued, GoesOnAt
    <2> QED
      BY <1>5, <2>1, PromisesFrame
  <1>19. FloorKept'
    BY <1>5, <1>9 DEF FloorKept, GoesOnAt
  <1>20. OthersIsolated'
    <2>1. \A d \in Clients : result'[d] # None => result'[d].snapshot.by \in {d, None}
      BY <1>3, <1>8, <1>10 DEF OthersIsolated
    <2> QED
      BY <1>5, <2>1 DEF OthersIsolated
  <1>21. PointersStayGood'
    <2>1. \A e : e \in Addr(n.cache) \/ e \in n.retired => e \in Owned'
      BY <1>1, <1>11, OwnedIsThen
    <2>2. ASSUME NEW e \in Pointed PROVE e \in Owned'
      <3>1. CASE \E s \in Schemas : e \in Addr(cache[s]) \/ e \in retired[s]
        BY <1>5, <3>1, OwnedIsThen
      <3>2. CASE e \in Addr(o.cache) \/ e \in o.retired
        BY <1>7, <2>1, <2>2, <3>2
      <3>3. CASE \E d \in Clients, s \in Schemas :
                   /\ overlay[d][s] # None /\ (d # c \/ s # at[c])
                   /\ e \in Addr(overlay[d][s].cache) \/ e \in overlay[d][s].retired
        <4>1. PICK d \in Clients, s \in Schemas :
                   /\ overlay[d][s] # None /\ (d # c \/ s # at[c])
                   /\ e \in Addr(overlay[d][s].cache) \/ e \in overlay[d][s].retired
          BY <3>3
        <4>2. overlay'[d][s] = overlay[d][s]
          BY <1>11, <4>1
        <4> QED
          BY <4>1, <4>2, OwnedIsThen
      <3> QED
        BY <1>2, <2>2, <3>1, <3>2, <3>3, OwnedIs DEF PointersStayGood
    <2>3. \A e \in Pointed' : e \in Pointed \/ e \in Addr(n.cache)
      BY <1>7, <1>8, PointedIs, PointedIsThen
    <2> QED
      BY <2>1, <2>2, <2>3 DEF PointersStayGood
  <1>22. FreshLookups'
    <2>1. x.by # None
      BY <1>3, AttachAssumption
    <2> QED
      BY <1>8, <1>10, <2>1 DEF FreshLookups
  <1> QED
    BY <1>12, <1>13, <1>14, <1>15, <1>16, <1>17, <1>18, <1>19, <1>20, <1>21, <1>22

LEMMA ListTablesInv ==
  ASSUME Inv, NEW c \in Clients, ListTables(c)
  PROVE  Inv'
  <1> USE DEF Inv, TypeOK, ListTables, sourceVars, slotVars
  <1>1. served' \in [Schemas -> Listings] /\ stale' \in [Schemas -> BOOLEAN]
    BY RefreshedIs DEF ApplyRefreshes
  <1>2. \A s \in Schemas : served'[s].tables # None =>
           s \notin Queued /\ served'[s].tables = served[s].tables
    BY RefreshedIs
  <1>3. \A s \in Schemas : stale'[s] <=> stale[s] \/ s \in Queued
    BY DEF ApplyRefreshes
  <1>4. refresh_all' = FALSE /\ refresh_schemas' = {}
    BY DEF ApplyRefreshes
  <1>5. \A d \in Clients : schemas_lock # d
    BY AttachAssumption
  <1>6. /\ UNCHANGED <<committed, private, changes, cache, retired, overlay, altered, state_lock>>
        /\ UNCHANGED <<at, owner, fetched, promised, owed>>
        /\ pc[c] = "tables" /\ ~SeesOwn(c) /\ schemas_lock = None
    OBVIOUS
  <1>7. PICK x \in Snapshots \cup {None} : x = served'[at[c]].tables
    BY <1>1, ListingIs
  <1>8. \E q \in PCs, p \in BOOLEAN, v \in Verbs \cup {None}, m \in Nat :
           /\ GoesOnAt(c, q, p, v, m) /\ held' = held
           /\ q = "tables" => m = promised[at[c]]
           /\ \/ /\ q = "listing" /\ schemas_lock' = c
                 /\ result' = result /\ p = pinning[c] /\ m = floor[c]
              \/ /\ q = "state" /\ schemas_lock' = None
                 /\ result' = result /\ p = pinning[c] /\ m = floor[c]
              \/ /\ q \in {"idle", "tables", "ddl"} /\ schemas_lock' = None
                 /\ x \in Snapshots /\ result' = [result EXCEPT ![c] = Answer(c, x)]
    <2>1. CASE schemas_lock' = c /\ Continue(c, "listing")
      <3>1. "listing" \in PCs
        BY DEF PCs
      <3> QED
        BY <2>1, <3>1, ContinueIs
    <2>2. CASE UNCHANGED schemas_lock /\ Continue(c, "state")
      <3>1. "state" \in PCs
        BY DEF PCs
      <3> QED
        BY <1>6, <2>2, <3>1, ContinueIs
    <2>3. CASE UNCHANGED schemas_lock /\ x # None /\ Return(c, {}, x)
        BY <1>6, <2>3, ReturnsNothing
    <2> QED
      BY <1>7, <2>1, <2>2, <2>3
  <1>9. PICK q \in PCs, p \in BOOLEAN, v \in Verbs \cup {None}, m \in Nat :
           /\ GoesOnAt(c, q, p, v, m) /\ held' = held
           /\ q = "tables" => m = promised[at[c]]
           /\ \/ /\ q = "listing" /\ schemas_lock' = c
                 /\ result' = result /\ p = pinning[c] /\ m = floor[c]
              \/ /\ q = "state" /\ schemas_lock' = None
                 /\ result' = result /\ p = pinning[c] /\ m = floor[c]
              \/ /\ q \in {"idle", "tables", "ddl"} /\ schemas_lock' = None
                 /\ x \in Snapshots /\ result' = [result EXCEPT ![c] = Answer(c, x)]
    BY <1>8
  <1>10. ASSUME x \in Snapshots
         PROVE  /\ Answer(c, x) \in Results /\ Answer(c, x) # None /\ Answer(c, x).snapshot = x
                /\ Answer(c, x).floor = floor[c] /\ (Answer(c, x).own <=> ~pinning[c])
    BY <1>10, AnswerIs
  <1> HIDE DEF ListTables
  <1>11. TypeOK'
    <2>1. /\ pc' \in [Clients -> PCs] /\ pinning' \in [Clients -> BOOLEAN]
          /\ verb' \in [Clients -> Verbs \cup {None}] /\ floor' \in [Clients -> Nat]
      <3>1. GoesOnAt(c, q, p, v, m)
        BY <1>9
      <3> QED
        BY <3>1 DEF GoesOnAt

    <2>2. refresh_all' \in BOOLEAN /\ refresh_schemas' \subseteq Schemas
      BY <1>4
    <2>3. result' \in [Clients -> Results \cup {None}]
      <3>1. result' = result \/ (x \in Snapshots /\ result' = [result EXCEPT ![c] = Answer(c, x)])
        BY <1>9
      <3> QED
        BY <3>1, <1>10
    <2>4. schemas_lock' \in Clients \cup {None}
      BY <1>9
    <2>5. held' = held
      BY <1>9
    <2> QED
      BY <1>1, <1>6, <2>1, <2>2, <2>3, <2>4, <2>5
  <1>12. LocksHeld'
    BY <1>5, <1>6, <1>9 DEF LocksHeld, GoesOnAt
  <1>13. RepliesCommitted'
    BY <1>6, <1>9 DEF RepliesCommitted, GoesOnAt
  <1>14. OverlaysOwn'
    BY <1>6, <1>9 DEF OverlaysOwn, OverlayOwn, Releasing, GoesOnAt
  <1>15. ResultsOwn'
    <2>1. ~pinning[c] => private[c][at[c]] = None
      BY <1>6, NothingOwn DEF Releasing
    <2> QED
      BY <1>6, <1>9, <2>1, <1>10 DEF ResultsOwn, Releasing, SharedLookup, SeesOwn, GoesOnAt
  <1>16. CountsBounded'
    BY <1>6, <1>9 DEF CountsBounded, SharedLookup, GoesOnAt
  <1>17. PromisesKept'
    <2>1. \A d \in Clients : pc'[d] \in {"listed", "described"} => pc'[d] = pc[d] /\ at'[d] = at[d]
      BY <1>6, <1>9 DEF GoesOnAt
    <2>2. ApplyRefreshes /\ served' = RefreshedListings
      BY DEF ListTables
    <2> QED
      BY <1>6, <2>1, <2>2, ApplyKeepsPromises
  <1>18. FloorKept'
    BY <1>3, <1>6, <1>9 DEF FloorKept, GoesOnAt
  <1>19. OthersIsolated'
    <2>1. at[c] \in Schemas
      OBVIOUS
    <2>2. x # None => x.by = None
      <3>1. served[at[c]].tables # None => served[at[c]].tables.by = None
        BY <2>1 DEF OthersIsolated
      <3> QED
        BY <1>2, <1>7, <2>1, <3>1
    <2>3. \A s \in Schemas : /\ served'[s].tables # None => served'[s].tables.by = None
                             /\ cache'[s] # None => cache'[s].snapshot.by = None
      BY <1>2, <1>6 DEF OthersIsolated
    <2>4. \A d \in Clients : result'[d] # None => result'[d].snapshot.by \in {d, None}
      <3>1. result' = result \/ (x \in Snapshots /\ result' = [result EXCEPT ![c] = Answer(c, x)])
        BY <1>9
      <3>2. ASSUME NEW d \in Clients, result'[d] # None, d # c PROVE result'[d].snapshot.by \in {d, None}
        BY <3>1, <3>2 DEF OthersIsolated
      <3>3. ASSUME result'[c] # None PROVE result'[c].snapshot.by \in {c, None}
        <4>1. x \in Snapshots => x # None
          BY SnapshotIs
        <4> QED
          BY <1>10, <2>2, <3>1, <3>3, <4>1 DEF OthersIsolated
      <3> QED
        BY <3>2, <3>3
    <2> QED
      BY <2>3, <2>4 DEF OthersIsolated
  <1>20. PointersStayGood'
    BY <1>6, <1>9, PointersFrame
  <1>21. FreshLookups'
    <2>1. ASSUME x \in Snapshots PROVE x.n >= floor[c]
      <3>1. /\ at[c] \in Schemas /\ served[at[c]].tables = x /\ at[c] \notin Queued
            /\ x # None /\ x.n \in Nat /\ floor[c] \in Nat /\ promised[at[c]] \in Nat
        BY <1>2, <1>7, <2>1, SnapshotIs
      <3>2. ~(x.n < promised[at[c]])
        BY <3>1 DEF PromisesKept, Forgotten
      <3>3. floor[c] <= promised[at[c]]
        BY <1>6, <3>1 DEF CountsBounded
      <3> QED
        BY <3>1, <3>2, <3>3
    <2> QED
      BY <1>9, <2>1, <1>10 DEF FreshLookups
  <1> QED
    BY <1>11, <1>12, <1>13, <1>14, <1>15, <1>16, <1>17, <1>18, <1>19, <1>20, <1>21

LEMMA SourceListsInv ==
  ASSUME Inv, NEW c \in Clients, SourceLists(c)
  PROVE  Inv'
  <1> USE DEF Inv, TypeOK, SourceLists, sourceVars, listingVars, cacheVars, slotVars, locks, clientVars, history
  <1>1. /\ committed[at[c]] \in Snapshots /\ committed[at[c]] # None
        /\ committed[at[c]].by = None /\ committed[at[c]].n \in Nat
        /\ floor[c] \in Nat /\ (pc[c] = "listing" => floor[c] <= committed[at[c]].n)
        /\ fetched' = [fetched EXCEPT ![c] = committed[at[c]]]
        /\ pc' = [pc EXCEPT ![c] = pc'[c]]
        /\ \/ pc[c] = "listing" /\ pc'[c] = "listed"
           \/ pc[c] = "schema" /\ pc'[c] = "schema_replied"
    <2>1. /\ committed[at[c]] \in Snapshots /\ committed[at[c]] # None
          /\ committed[at[c]].by = None /\ committed[at[c]].n \in Nat
      BY SnapshotIs DEF RepliesCommitted
    <2>2. ASSUME pc[c] \in SharedLookup PROVE floor[c] <= committed[at[c]].n
      BY <2>2, FloorBounded
    <2> QED
      BY <2>1, <2>2 DEF SharedLookup
  <1>2. TypeOK'
    BY <1>1 DEF PCs
  <1>3. LocksHeld'
    BY DEF LocksHeld
  <1>4. RepliesCommitted'
    BY <1>1 DEF RepliesCommitted
  <1>5. OverlaysOwn'
    BY DEF OverlaysOwn, OverlayOwn, Releasing
  <1>6. ResultsOwn'
    BY DEF ResultsOwn, Releasing, SharedLookup, SeesOwn
  <1>7. CountsBounded'
    BY DEF CountsBounded, SharedLookup
  <1>8. PromisesKept'
    <2>1. ASSUME NEW s \in Schemas, NEW m \in Nat, m <= committed[s].n, Forgotten(s, m)
          PROVE  Forgotten(s, m)'
      BY <1>1, <2>1 DEF Forgotten, Queued
    <2> QED
      BY <2>1, PromisesFrame
  <1>9. FloorKept'
    <2>1. ASSUME NEW d \in Clients, pc'[d] = "cache"
          PROVE  /\ cache[at[d]] # None /\ cache[at[d]].snapshot.n < floor[d] => stale[at[d]]
                 /\ \A e \in Clients :
                       e # c /\ pc'[e] = "described" /\ at[e] = at[d] /\ fetched'[e].n < floor[d]
                          => stale[at[d]]
      BY <1>1, <2>1 DEF FloorKept
    <2>2. ASSUME NEW d \in Clients, pc'[d] = "cache", at[c] = at[d], pc'[c] = "described"
          PROVE  ~(fetched'[c].n < floor[d])
      <3>1. pc[d] = "cache" /\ floor[d] <= promised[at[d]] /\ promised[at[d]] <= committed[at[d]].n
        BY <1>1, <2>2 DEF CountsBounded, SharedLookup
      <3>2. floor[d] \in Nat /\ promised[at[d]] \in Nat
        OBVIOUS
      <3> QED
        BY <1>1, <2>2, <3>1, <3>2
    <2> QED
      BY <1>1, <2>1, <2>2 DEF FloorKept
  <1>10. OthersIsolated'
    BY DEF OthersIsolated
  <1>11. PointersStayGood'
    BY PointersFrame
  <1>12. FreshLookups'
    BY DEF FreshLookups
  <1> QED
    BY <1>2, <1>3, <1>4, <1>5, <1>6, <1>7, <1>8, <1>9, <1>10, <1>11, <1>12

LEMMA StoreTablesInv ==
  ASSUME Inv, NEW c \in Clients, StoreTables(c)
  PROVE  Inv'
  <1> USE DEF Inv, TypeOK
  <1>1. /\ fetched[c] \in Snapshots /\ fetched[c] # None /\ fetched[c].by = None
        /\ fetched[c].n \in Nat /\ floor[c] \in Nat /\ fetched[c].n >= floor[c] /\ pc[c] = "listed"
    BY SnapshotIs DEF StoreTables, RepliesCommitted
  <1>2. schemas_lock = c /\ ~SeesOwn(c) /\ \A d \in Clients : d # c => schemas_lock # d
    BY <1>1 DEF LocksHeld, ResultsOwn, SharedLookup
  <1>3. /\ served' \in [Schemas -> Listings]
        /\ served'[at[c]].tables = fetched[c]
        /\ \A s \in Schemas : s # at[c] => served'[s] = served[s]
    <2>1. PICK l \in Listings : l = served[at[c]]
      OBVIOUS
    <2>2. PICK k \in Listings : k = [l EXCEPT !.tables = fetched[c]] /\ k.tables = fetched[c]
      <3>1. /\ [l EXCEPT !.tables = fetched[c]] \in Listings
            /\ [l EXCEPT !.tables = fetched[c]].tables = fetched[c]
        BY <1>1, ListingExcept
      <3> QED
        BY <3>1
    <2>3. served' = [served EXCEPT ![at[c]] = k]
      BY <2>1, <2>2 DEF StoreTables
    <2> QED
      BY <2>2, <2>3
  <1>4. /\ UNCHANGED <<committed, private, changes, refresh_all, refresh_schemas, cache, stale, retired>>
        /\ UNCHANGED <<overlay, altered, state_lock, at, owner, promised, owed>>
        /\ schemas_lock' = None /\ fetched' = [fetched EXCEPT ![c] = None]
    BY DEF StoreTables, sourceVars, cacheVars, slotVars
  <1>5. PICK q \in PCs, p \in BOOLEAN, v \in Verbs \cup {None}, m \in Nat :
           /\ GoesOnAt(c, q, p, v, m) /\ held' = held
           /\ q = "tables" => m = promised[at[c]]
           /\ \/ q = "state" /\ result' = result /\ p = pinning[c] /\ m = floor[c]
              \/ q \in {"idle", "tables", "ddl"} /\ result' = [result EXCEPT ![c] = Answer(c, fetched[c])]
    <2>1. CASE Continue(c, "state")
      <3>1. "state" \in PCs
        BY DEF PCs
      <3> QED
        BY <2>1, <3>1, ContinueIs
    <2>2. CASE Return(c, {}, fetched[c])
      <3>1. fetched[c] \in Snapshots
        BY <1>1
      <3>2. held' = held /\ result' = [result EXCEPT ![c] = Answer(c, fetched[c])]
        BY <2>2, <3>1, ReturnsNothing
      <3>3. PICK q \in PCs, p \in BOOLEAN, v \in Verbs \cup {None}, m \in Nat :
               /\ GoesOnAt(c, q, p, v, m) /\ q \in {"idle", "tables", "ddl"}
               /\ q = "tables" => m = promised[at[c]]
        BY <2>2, <3>1, ReturnsNothing
      <3> QED
        BY <3>2, <3>3
    <2> QED
      BY <2>1, <2>2 DEF StoreTables
  <1>6. /\ Answer(c, fetched[c]) \in Results /\ Answer(c, fetched[c]) # None
        /\ Answer(c, fetched[c]).snapshot = fetched[c] /\ Answer(c, fetched[c]).floor = floor[c]
        /\ Answer(c, fetched[c]).own <=> ~pinning[c]
    BY <1>1, AnswerIs
  <1>7. TypeOK'
    <2>1. /\ pc' \in [Clients -> PCs] /\ pinning' \in [Clients -> BOOLEAN]
          /\ verb' \in [Clients -> Verbs \cup {None}] /\ floor' \in [Clients -> Nat]
      <3>1. GoesOnAt(c, q, p, v, m)
        BY <1>5
      <3> QED
        BY <3>1 DEF GoesOnAt

    <2>2. result' \in [Clients -> Results \cup {None}]
      <3>1. result' = result \/ result' = [result EXCEPT ![c] = Answer(c, fetched[c])]
        BY <1>5
      <3> QED
        BY <3>1, <1>6
    <2>3. fetched' \in [Clients -> Snapshots \cup {None}] /\ schemas_lock' \in Clients \cup {None}
      BY <1>4
    <2>4. held' = held
      BY <1>5
    <2> QED
      BY <1>3, <1>4, <2>1, <2>2, <2>3, <2>4
  <1>8. LocksHeld'
    BY <1>2, <1>4, <1>5, AttachAssumption DEF LocksHeld, GoesOnAt
  <1>9. RepliesCommitted'
    BY <1>4, <1>5 DEF RepliesCommitted, GoesOnAt
  <1>10. OverlaysOwn'
    BY <1>1, <1>4, <1>5 DEF OverlaysOwn, OverlayOwn, Releasing, GoesOnAt
  <1>11. ResultsOwn'
    <2>1. ~pinning[c] => private[c][at[c]] = None
      BY <1>1, <1>2, NothingOwn DEF Releasing
    <2> QED
      BY <1>1, <1>2, <1>4, <1>5, <2>1, <1>6
         DEF ResultsOwn, Releasing, SharedLookup, SeesOwn, GoesOnAt
  <1>12. CountsBounded'
    BY <1>1, <1>4, <1>5 DEF CountsBounded, SharedLookup, GoesOnAt
  <1>13. PromisesKept'
    <2>1. ASSUME NEW s \in Schemas, NEW m_ \in Nat, m_ <= committed[s].n, Forgotten(s, m_)
          PROVE  Forgotten(s, m_)'
      <3>1. served'[s].tables # None /\ served'[s].tables.n < m_ => s \in Queued'
        <4>1. CASE s = at[c]
          BY <1>1, <1>3, <1>4, <2>1, <4>1 DEF Forgotten, Queued
        <4>2. CASE s # at[c]
          BY <1>3, <1>4, <2>1, <4>2 DEF Forgotten, Queued
        <4> QED
          BY <4>1, <4>2
      <3>2. \A d \in Clients : pc'[d] \in {"listed", "described"} =>
                d # c /\ pc[d] = pc'[d] /\ fetched'[d] = fetched[d]
        BY <1>4, <1>5 DEF GoesOnAt
      <3> QED
        BY <1>4, <2>1, <3>1, <3>2 DEF Forgotten, Queued
    <2> QED
      BY <1>4, <2>1, PromisesFrame
  <1>14. FloorKept'
    BY <1>4, <1>5 DEF FloorKept, GoesOnAt
  <1>15. OthersIsolated'
    <2>1. \A s \in Schemas : served'[s].tables # None => served'[s].tables.by = None
      BY <1>1, <1>3 DEF OthersIsolated
    <2>2. \A d \in Clients : result'[d] # None => result'[d].snapshot.by \in {d, None}
      BY <1>1, <1>5, <1>6 DEF OthersIsolated
    <2> QED
      BY <1>4, <2>1, <2>2 DEF OthersIsolated
  <1>16. PointersStayGood'
    BY <1>4, <1>5, PointersFrame
  <1>17. FreshLookups'
    BY <1>1, <1>5, <1>6 DEF FreshLookups
  <1> QED
    BY <1>7, <1>8, <1>9, <1>10, <1>11, <1>12, <1>13, <1>14, <1>15, <1>16, <1>17

LEMMA StateOfInv ==
  ASSUME Inv, NEW c \in Clients, StateOf(c)
  PROVE  Inv'
  <1> USE DEF Inv, TypeOK, StateOf, ApplyRefreshes, sourceVars, listingVars, cacheVars, slotVars, locks, clientVars, history
  <1>1. served' \in [Schemas -> Listings] /\ stale' \in [Schemas -> BOOLEAN]
    BY RefreshedIs DEF ApplyRefreshes
  <1>2. \A s \in Schemas : served'[s].tables # None =>
           s \notin Queued /\ served'[s].tables = served[s].tables
    BY RefreshedIs
  <1>3. \A s \in Schemas : stale'[s] <=> stale[s] \/ s \in Queued
    BY DEF ApplyRefreshes
  <1>4. refresh_all' = FALSE /\ refresh_schemas' = {}
    BY DEF ApplyRefreshes
  <1>5. \A d \in Clients : schemas_lock # d
    BY AttachAssumption
  <1>6. TypeOK'
    <2>1. refresh_all' \in BOOLEAN /\ refresh_schemas' \subseteq Schemas
      BY <1>4
    <2> QED
      BY <1>1, <2>1 DEF PCs
  <1>7. LocksHeld'
    BY DEF LocksHeld
  <1>8. RepliesCommitted'
    BY DEF RepliesCommitted
  <1>9. OverlaysOwn'
    BY DEF OverlaysOwn, OverlayOwn, Releasing
  <1>10. ResultsOwn'
    BY DEF ResultsOwn, Releasing, SharedLookup, SeesOwn
  <1>11. CountsBounded'
    BY DEF CountsBounded, SharedLookup
  <1>12. PromisesKept'
    BY ApplyKeepsPromises
  <1>13. FloorKept'
    <2>1. ASSUME NEW d \in Clients, d # c, pc'[d] = "cache"
          PROVE  /\ cache[at[d]] # None /\ cache[at[d]].snapshot.n < floor[d] => stale'[at[d]]
                 /\ \A e \in Clients :
                       pc'[e] = "described" /\ at[e] = at[d] /\ fetched[e].n < floor[d] => stale'[at[d]]
      BY <1>3, <2>1 DEF FloorKept
    <2>2. floor[c] \in Nat /\ promised[at[c]] \in Nat /\ floor[c] <= promised[at[c]]
      BY DEF CountsBounded, SharedLookup
    <2>3. cache[at[c]] # None /\ cache[at[c]].snapshot.n < floor[c] => stale'[at[c]]
      BY <1>3, <2>2, CachedIs, SnapshotIs DEF PromisesKept, Forgotten
    <2>4. ASSUME NEW e \in Clients, pc'[e] = "described", at[e] = at[c], fetched[e].n < floor[c]
          PROVE  stale'[at[c]]
      <3>1. pc[e] = "described" /\ fetched[e].n \in Nat
        BY <2>4, SnapshotIs DEF RepliesCommitted
      <3> QED
        BY <1>3, <2>2, <2>4, <3>1 DEF PromisesKept, Forgotten
    <2> QED
      BY <2>1, <2>3, <2>4 DEF FloorKept
  <1>14. OthersIsolated'
    BY <1>2 DEF OthersIsolated
  <1>15. PointersStayGood'
    BY PointersFrame
  <1>16. FreshLookups'
    BY DEF FreshLookups
  <1> QED
    BY <1>6, <1>7, <1>8, <1>9, <1>10, <1>11, <1>12, <1>13, <1>14, <1>15, <1>16

LEMMA SearchCacheInv ==
  ASSUME Inv, NEW c \in Clients, SearchCache(c)
  PROVE  Inv'
  <1> USE DEF Inv, TypeOK
  <1>1. /\ pc[c] = "cache" /\ ~SeesOwn(c) /\ at[c] \in Schemas
        /\ \A d \in Clients : state_lock[at[c]] # d
    BY AttachAssumption DEF SearchCache, ResultsOwn, SharedLookup
  <1>2. PICK k \in Cached \cup {None} : k = cache[at[c]]
    BY <1>1
  <1>3. /\ UNCHANGED <<committed, private, changes, refresh_all, refresh_schemas, served>>
        /\ UNCHANGED <<overlay, altered, schemas_lock, at, owner, fetched, promised, owed>>
        /\ stale' = [stale EXCEPT ![at[c]] = FALSE]
    BY DEF SearchCache, sourceVars, listingVars, slotVars
  <1>4. CASE ~stale[at[c]] /\ k # None /\ k.owner = owner[c]
    <2>1. /\ k \in Cached /\ k.addr \in Entries /\ k.snapshot \in Snapshots /\ k.snapshot # None
          /\ k.snapshot.n \in Nat /\ floor[c] \in Nat /\ k.snapshot.n >= floor[c] /\ k.snapshot.by = None
      <3>1. k \in Cached /\ k.addr \in Entries /\ k.snapshot \in Snapshots
        BY <1>4, CachedIs
      <3>2. k.snapshot # None /\ k.snapshot.n \in Nat
        BY <3>1, SnapshotIs
      <3>3. ~(k.snapshot.n < floor[c])
        BY <1>1, <1>2, <1>4 DEF FloorKept
      <3>4. k.snapshot.by = None
        BY <1>1, <1>2, <1>4 DEF OthersIsolated
      <3> QED
        BY <3>1, <3>2, <3>3, <3>4
    <2>2. /\ stale' = stale /\ UNCHANGED <<cache, retired, state_lock>>
          /\ Return(c, {k.addr}, k.snapshot)
      BY <1>2, <1>3, <1>4 DEF SearchCache
    <2> {k.addr} \in SUBSET Entries /\ k.snapshot \in Snapshots
      BY <2>1
    <2>3. held' = [held EXCEPT ![c] = @ \cup {k.addr}] /\ result' = [result EXCEPT ![c] = Answer(c, k.snapshot)]
      BY <2>2, ReturnIs
    <2>4. PICK q \in PCs, p \in BOOLEAN, v \in Verbs \cup {None}, m \in Nat :
             /\ GoesOnAt(c, q, p, v, m) /\ q \in {"idle", "tables", "ddl"}
             /\ q = "tables" => m = promised[at[c]]
      BY <2>2, ReturnIs
    <2>5. /\ Answer(c, k.snapshot) \in Results /\ Answer(c, k.snapshot) # None
          /\ Answer(c, k.snapshot).snapshot = k.snapshot /\ Answer(c, k.snapshot).floor = floor[c]
          /\ Answer(c, k.snapshot).own <=> ~pinning[c]
      BY <2>1, AnswerIs
    <2>6. ~pinning[c] => private[c][at[c]] = None
      BY <1>1, NothingOwn DEF Releasing
    <2>7. TypeOK'
      <3>1. /\ pc' \in [Clients -> PCs] /\ pinning' \in [Clients -> BOOLEAN]
            /\ verb' \in [Clients -> Verbs \cup {None}] /\ floor' \in [Clients -> Nat]
        BY <2>4 DEF GoesOnAt
      <3>2. held' \in [Clients -> SUBSET Entries] /\ result' \in [Clients -> Results \cup {None}]
        BY <2>1, <2>3, <2>5
      <3> QED
        BY <1>3, <2>2, <3>1, <3>2
    <2>8. LocksHeld' /\ RepliesCommitted'
      BY <1>3, <2>2, <2>4 DEF LocksHeld, RepliesCommitted, GoesOnAt
    <2>9. OverlaysOwn'
      BY <1>1, <1>3, <2>4 DEF OverlaysOwn, OverlayOwn, Releasing, GoesOnAt
    <2>10. ResultsOwn'
      BY <1>1, <1>3, <2>3, <2>4, <2>5, <2>6 DEF ResultsOwn, Releasing, SharedLookup, SeesOwn, GoesOnAt
    <2>11. CountsBounded'
      BY <1>1, <1>3, <2>4 DEF CountsBounded, SharedLookup, GoesOnAt
    <2>12. PromisesKept'
      <3>1. ASSUME NEW s \in Schemas, NEW n \in Nat, n <= committed[s].n, Forgotten(s, n)
            PROVE  Forgotten(s, n)'
        BY <1>3, <2>2, <2>4, <3>1 DEF Forgotten, Queued, GoesOnAt
      <3> QED
        BY <1>3, <3>1, PromisesFrame
    <2>13. FloorKept'
      BY <1>1, <1>3, <2>2, <2>4 DEF FloorKept, GoesOnAt
    <2>14. OthersIsolated' /\ FreshLookups'
      <3>1. \A d \in Clients : result'[d] # None => result'[d].snapshot.by \in {d, None}
        BY <2>1, <2>3, <2>5 DEF OthersIsolated
      <3>2. OthersIsolated'
        BY <1>3, <2>2, <3>1 DEF OthersIsolated
      <3>3. FreshLookups'
        BY <2>1, <2>3, <2>5 DEF FreshLookups
      <3> QED
        BY <3>2, <3>3
    <2>15. PointersStayGood'
      <3>1. ASSUME NEW e \in Pointed' PROVE e \in Owned'
        <4>1. e \in Pointed \/ e = k.addr
          BY <2>3, <3>1, PointedIs, PointedIsThen
        <4>2. Owned' = Owned
          BY <1>3, <2>2 DEF Owned, Addr
        <4>3. k.addr \in Owned
          BY <1>1, <1>2, <1>4, OwnedIs, AddrIs
        <4> QED
          BY <4>1, <4>2, <4>3 DEF PointersStayGood
      <3> QED
        BY <3>1 DEF PointersStayGood
    <2> QED
      BY <2>7, <2>8, <2>9, <2>10, <2>11, <2>12, <2>13, <2>14, <2>15
  <1>5. CASE ~(~stale[at[c]] /\ k # None /\ k.owner = owner[c])
    <2>1. /\ cache' = [cache EXCEPT ![at[c]] = None]
          /\ retired' = [retired EXCEPT ![at[c]] = @ \cup RetiredOf(k)]
          /\ state_lock' = [state_lock EXCEPT ![at[c]] = c]
          /\ UNCHANGED <<held, result, verb, pinning, floor>> /\ pc' = [pc EXCEPT ![c] = "describe"]
      BY <1>2, <1>5 DEF SearchCache, Continue
    <2>2. \A d \in Clients : at[d] = at[c] => pc[d] \notin {"describe", "described"}
      BY <1>1 DEF LocksHeld
    <2>3. TypeOK'
      <3>1. RetiredOf(k) \subseteq Entries
        BY <1>2, RetiredOfIs
      <3>2. retired' \in [Schemas -> SUBSET Entries]
        BY <1>1, <2>1, <3>1
      <3>3. pc' \in [Clients -> PCs]
        BY <2>1 DEF PCs
      <3>4. /\ cache' \in [Schemas -> Cached \cup {None}] /\ stale' \in [Schemas -> BOOLEAN]
            /\ state_lock' \in [Schemas -> Clients \cup {None}]
        BY <1>3, <2>1
      <3> QED
        BY <1>3, <2>1, <3>2, <3>3, <3>4
    <2>4. LocksHeld'
      BY <1>1, <1>3, <2>1, <2>2 DEF LocksHeld
    <2>5. RepliesCommitted'
      BY <1>3, <2>1 DEF RepliesCommitted
    <2>6. OverlaysOwn'
      BY <1>1, <1>3, <2>1 DEF OverlaysOwn, OverlayOwn, Releasing
    <2>7. ResultsOwn'
      BY <1>1, <1>3, <2>1 DEF ResultsOwn, Releasing, SharedLookup, SeesOwn
    <2>8. CountsBounded'
      BY <1>1, <1>3, <2>1 DEF CountsBounded, SharedLookup
    <2>9. PromisesKept'
      <3>1. ASSUME NEW s \in Schemas, NEW n \in Nat, n <= committed[s].n, Forgotten(s, n)
            PROVE  Forgotten(s, n)'
        <4>1. \A d \in Clients : pc'[d] \in {"listed", "described"} => pc[d] = pc'[d]
          BY <2>1
        <4>2. s = at[c] => cache'[s] = None /\ \A d \in Clients : at'[d] = s => pc'[d] # "described"
          BY <1>3, <2>1, <2>2
        <4>3. s # at[c] => cache'[s] = cache[s] /\ stale'[s] = stale[s]
          BY <1>3, <2>1
        <4> QED
          BY <1>3, <3>1, <4>1, <4>2, <4>3 DEF Forgotten, Queued
      <3> QED
        BY <1>3, <3>1, PromisesFrame
    <2>10. FloorKept'
      <3>1. ASSUME NEW d \in Clients, pc'[d] = "cache", at[d] = at[c]
            PROVE  cache'[at[d]] = None /\ \A e \in Clients : at[e] = at[d] => pc'[e] # "described"
        BY <2>1, <2>2, <3>1
      <3>2. ASSUME NEW d \in Clients, pc'[d] = "cache", at[d] # at[c]
            PROVE  /\ pc[d] = "cache" /\ cache'[at[d]] = cache[at[d]] /\ stale'[at[d]] = stale[at[d]]
                   /\ \A e \in Clients : pc'[e] = "described" => pc[e] = "described"
        BY <1>3, <2>1, <3>2
      <3> QED
        BY <1>3, <2>1, <3>1, <3>2 DEF FloorKept
    <2>11. OthersIsolated' /\ FreshLookups'
      BY <1>3, <2>1 DEF OthersIsolated, FreshLookups
    <2>12. PointersStayGood'
      <3>1. ASSUME NEW e \in Pointed PROVE e \in Owned'
        <4>1. CASE e \in Addr(k)
          <5>1. e \in retired'[at[c]]
            BY <1>1, <1>2, <2>1, <3>1, <4>1, RetiredOfIs
          <5> QED
            BY <1>1, <5>1, OwnedIsThen
        <4>2. CASE \E s \in Schemas : (s # at[c] /\ e \in Addr(cache[s])) \/ e \in retired[s]
          <5>1. PICK s \in Schemas : (s # at[c] /\ e \in Addr(cache[s])) \/ e \in retired[s]
            BY <4>2
          <5>2. e \in Addr(cache'[s]) \/ e \in retired'[s]
            BY <2>1, <5>1
          <5> QED
            BY <5>2, OwnedIsThen
        <4>3. CASE \E d \in Clients, s \in Schemas :
                     overlay[d][s] # None /\ (e \in Addr(overlay[d][s].cache) \/ e \in overlay[d][s].retired)
          BY <1>3, <4>3, OwnedIsThen
        <4> QED
          BY <1>2, <3>1, <4>1, <4>2, <4>3, OwnedIs DEF PointersStayGood
      <3> QED
        BY <2>1, <3>1, PointedIs, PointedIsThen DEF PointersStayGood
    <2> QED
      BY <2>3, <2>4, <2>5, <2>6, <2>7, <2>8, <2>9, <2>10, <2>11, <2>12
  <1> QED
    BY <1>4, <1>5

LEMMA SourceDescribesInv ==
  ASSUME Inv, NEW c \in Clients, SourceDescribes(c)
  PROVE  Inv'
  <1> USE DEF Inv, TypeOK, SourceDescribes, UnlockState, sourceVars, listingVars, cacheVars, slotVars, locks, clientVars, history
  <1>1. /\ committed[at[c]] \in Snapshots /\ committed[at[c]] # None
        /\ committed[at[c]].by = None /\ committed[at[c]].n \in Nat
        /\ floor[c] \in Nat /\ floor[c] <= committed[at[c]].n
        /\ pc' = [pc EXCEPT ![c] = pc'[c]]
        /\ \/ pc'[c] = "described" /\ fetched' = [fetched EXCEPT ![c] = committed[at[c]]]
           \/ pc'[c] = "idle" /\ fetched' = fetched
    <2>1. /\ committed[at[c]] \in Snapshots /\ committed[at[c]] # None
          /\ committed[at[c]].by = None /\ committed[at[c]].n \in Nat
      BY SnapshotIs DEF RepliesCommitted
    <2>2. ASSUME pc[c] \in SharedLookup PROVE floor[c] <= committed[at[c]].n
      BY <2>2, FloorBounded
    <2> QED
      BY <2>1, <2>2 DEF SharedLookup
  <1>2. TypeOK'
    <2>1. fetched' \in [Clients -> Snapshots \cup {None}]
      BY <1>1
    <2>2. pc' \in [Clients -> PCs]
      BY <1>1 DEF PCs
    <2>4. verb' \in [Clients -> Verbs \cup {None}]
      OBVIOUS
    <2>3. state_lock' \in [Schemas -> Clients \cup {None}]
      OBVIOUS
    <2> QED
      BY <2>1, <2>2, <2>3
  <1>3. LocksHeld'
    BY DEF LocksHeld
  <1>4. RepliesCommitted'
    BY <1>1 DEF RepliesCommitted
  <1>5. OverlaysOwn'
    BY DEF OverlaysOwn, OverlayOwn, Releasing
  <1>6. ResultsOwn'
    BY DEF ResultsOwn, Releasing, SharedLookup, SeesOwn
  <1>7. CountsBounded'
    BY DEF CountsBounded, SharedLookup
  <1>8. PromisesKept'
    <2>1. ASSUME NEW s \in Schemas, NEW m \in Nat, m <= committed[s].n, Forgotten(s, m)
          PROVE  Forgotten(s, m)'
      BY <1>1, <2>1 DEF Forgotten, Queued
    <2> QED
      BY <2>1, PromisesFrame
  <1>9. FloorKept'
    <2>1. ASSUME NEW d \in Clients, pc'[d] = "cache"
          PROVE  /\ cache[at[d]] # None /\ cache[at[d]].snapshot.n < floor[d] => stale[at[d]]
                 /\ \A e \in Clients :
                       e # c /\ pc'[e] = "described" /\ at[e] = at[d] /\ fetched'[e].n < floor[d]
                          => stale[at[d]]
      BY <1>1, <2>1 DEF FloorKept
    <2>2. ASSUME NEW d \in Clients, pc'[d] = "cache", at[c] = at[d], pc'[c] = "described"
          PROVE  ~(fetched'[c].n < floor[d])
      <3>1. pc[d] = "cache" /\ floor[d] <= promised[at[d]] /\ promised[at[d]] <= committed[at[d]].n
        BY <1>1, <2>2 DEF CountsBounded, SharedLookup
      <3>2. floor[d] \in Nat /\ promised[at[d]] \in Nat
        OBVIOUS
      <3> QED
        BY <1>1, <2>2, <3>1, <3>2
    <2> QED
      BY <1>1, <2>1, <2>2 DEF FloorKept
  <1>10. OthersIsolated'
    BY DEF OthersIsolated
  <1>11. PointersStayGood'
    BY PointersFrame
  <1>12. FreshLookups'
    BY DEF FreshLookups
  <1> QED
    BY <1>2, <1>3, <1>4, <1>5, <1>6, <1>7, <1>8, <1>9, <1>10, <1>11, <1>12

LEMMA StoreEntryInv ==
  ASSUME Inv, NEW c \in Clients, StoreEntry(c)
  PROVE  Inv'
  <1> USE DEF Inv, TypeOK
  <1>1. /\ fetched[c] \in Snapshots /\ fetched[c] # None /\ fetched[c].by = None
        /\ fetched[c].n \in Nat /\ floor[c] \in Nat /\ fetched[c].n >= floor[c]
    BY SnapshotIs DEF StoreEntry, RepliesCommitted
  <1>2. /\ pc[c] = "described" /\ at[c] \in Schemas /\ ~SeesOwn(c)
        /\ state_lock[at[c]] = c /\ cache[at[c]] = None
    BY DEF StoreEntry, LocksHeld, ResultsOwn, SharedLookup
  <1>3. PICK k \in Cached : k = NewEntry(c, fetched[c]) /\ k.snapshot = fetched[c]
    BY <1>1, NewEntryIs DEF StoreEntry
  <1>4. /\ k # None /\ k.addr \in Entries
        /\ {k.addr} \in SUBSET Entries
    BY CachedIs
  <1>5. /\ UNCHANGED <<committed, private, changes, refresh_all, refresh_schemas, served, stale, retired>>
        /\ UNCHANGED <<overlay, altered, schemas_lock, at, owner, promised, owed>>
        /\ cache' = [cache EXCEPT ![at[c]] = k]
        /\ fetched' = [fetched EXCEPT ![c] = None]
        /\ state_lock' = [state_lock EXCEPT ![at[c]] = None]
        /\ Return(c, {k.addr}, fetched[c])
    BY <1>3 DEF StoreEntry, UnlockState, sourceVars, listingVars, slotVars
  <1>6. held' = [held EXCEPT ![c] = @ \cup {k.addr}] /\ result' = [result EXCEPT ![c] = Answer(c, fetched[c])]
    <2> fetched[c] \in Snapshots /\ {k.addr} \in SUBSET Entries
      BY <1>1, <1>4
    <2> QED
      BY <1>5, ReturnIs
  <1>7. PICK q \in PCs, p \in BOOLEAN, v \in Verbs \cup {None}, m \in Nat :
           /\ GoesOnAt(c, q, p, v, m) /\ q \in {"idle", "tables", "ddl"}
           /\ q = "tables" => m = promised[at[c]]
    BY <1>1, <1>4, <1>5, ReturnIs
  <1>8. /\ Answer(c, fetched[c]) \in Results /\ Answer(c, fetched[c]) # None
        /\ Answer(c, fetched[c]).snapshot = fetched[c] /\ Answer(c, fetched[c]).floor = floor[c]
        /\ Answer(c, fetched[c]).own <=> ~pinning[c]
    BY <1>1, AnswerIs
  <1>9. ~pinning[c] => private[c][at[c]] = None
    BY <1>2, NothingOwn DEF Releasing
  <1>10. TypeOK'
    <2>1. /\ pc' \in [Clients -> PCs] /\ pinning' \in [Clients -> BOOLEAN]
          /\ verb' \in [Clients -> Verbs \cup {None}] /\ floor' \in [Clients -> Nat]
      BY <1>7 DEF GoesOnAt
    <2>2. held' \in [Clients -> SUBSET Entries] /\ result' \in [Clients -> Results \cup {None}]
      BY <1>4, <1>6, <1>8
    <2>3. /\ cache' \in [Schemas -> Cached \cup {None}] /\ fetched' \in [Clients -> Snapshots \cup {None}]
          /\ state_lock' \in [Schemas -> Clients \cup {None}]
      BY <1>5
    <2> QED
      BY <1>5, <2>1, <2>2, <2>3
  <1>11. LocksHeld'
    <2>1. ASSUME NEW d \in Clients, pc'[d] \in {"describe", "described"}
          PROVE  d # c /\ pc[d] = pc'[d] /\ at[d] # at[c]
      BY <1>2, <1>7, <2>1 DEF LocksHeld, GoesOnAt
    <2>2. \A d \in Clients : pc'[d] \in {"listing", "listed", "schema", "schema_replied"} => pc[d] = pc'[d]
      BY <1>7 DEF GoesOnAt
    <2> QED
      BY <1>5, <2>1, <2>2 DEF LocksHeld
  <1>12. RepliesCommitted'
    BY <1>5, <1>7 DEF RepliesCommitted, GoesOnAt
  <1>13. OverlaysOwn'
    BY <1>2, <1>5, <1>7 DEF OverlaysOwn, OverlayOwn, Releasing, GoesOnAt
  <1>14. ResultsOwn'
    BY <1>2, <1>5, <1>6, <1>7, <1>8, <1>9 DEF ResultsOwn, Releasing, SharedLookup, SeesOwn, GoesOnAt
  <1>15. CountsBounded'
    BY <1>2, <1>5, <1>7 DEF CountsBounded, SharedLookup, GoesOnAt
  <1>16. PromisesKept'
    <2>1. ASSUME NEW s \in Schemas, NEW n \in Nat, n <= committed[s].n, Forgotten(s, n)
          PROVE  Forgotten(s, n)'
      <3>1. cache'[s] # None /\ cache'[s].snapshot.n < n => stale[s] \/ s \in Queued
        <4>1. CASE s = at[c]
          BY <1>2, <1>3, <1>5, <2>1, <4>1 DEF Forgotten
        <4>2. CASE s # at[c]
          BY <1>5, <2>1, <4>2 DEF Forgotten
        <4> QED
          BY <4>1, <4>2
      <3>2. \A d \in Clients : pc'[d] \in {"listed", "described"} =>
                d # c /\ pc[d] = pc'[d] /\ fetched'[d] = fetched[d]
        BY <1>5, <1>7 DEF GoesOnAt
      <3> QED
        BY <1>5, <2>1, <3>1, <3>2 DEF Forgotten, Queued
    <2> QED
      BY <1>5, <2>1, PromisesFrame
  <1>17. FloorKept'
    <2>1. ASSUME NEW d \in Clients, pc'[d] = "cache"
          PROVE  /\ pc[d] = "cache" /\ floor'[d] = floor[d]
                 /\ cache'[at[d]] # None /\ cache'[at[d]].snapshot.n < floor[d] => stale[at[d]]
      <3>1. pc[d] = "cache" /\ floor'[d] = floor[d]
        BY <1>7, <2>1 DEF GoesOnAt
      <3>2. CASE at[d] = at[c]
        BY <1>2, <1>3, <1>5, <3>1, <3>2 DEF FloorKept
      <3>3. CASE at[d] # at[c]
        BY <1>5, <3>1, <3>3 DEF FloorKept
      <3> QED
        BY <3>1, <3>2, <3>3
    <2>2. \A d \in Clients : pc'[d] = "described" => pc[d] = "described" /\ fetched'[d] = fetched[d]
      BY <1>5, <1>7 DEF GoesOnAt
    <2> QED
      BY <1>5, <2>1, <2>2 DEF FloorKept
  <1>18. OthersIsolated'
    <2>1. \A d \in Clients : result'[d] # None => result'[d].snapshot.by \in {d, None}
      BY <1>1, <1>6, <1>8 DEF OthersIsolated
    <2>2. \A s \in Schemas : cache'[s] # None => cache'[s].snapshot.by = None
      BY <1>1, <1>3, <1>5 DEF OthersIsolated
    <2> QED
      BY <1>5, <2>1, <2>2 DEF OthersIsolated
  <1>19. PointersStayGood'
    <2>1. ASSUME NEW e \in Pointed PROVE e \in Owned'
      <3>1. CASE \E s \in Schemas : e \in Addr(cache[s]) \/ e \in retired[s]
        <4>1. PICK s \in Schemas : e \in Addr(cache[s]) \/ e \in retired[s]
          BY <3>1
        <4>2. e \in Addr(cache'[s]) \/ e \in retired'[s]
          BY <1>2, <1>5, <4>1, AddrIs
        <4> QED
          BY <4>2, OwnedIsThen
      <3>2. CASE \E d \in Clients, s \in Schemas :
                   overlay[d][s] # None /\ (e \in Addr(overlay[d][s].cache) \/ e \in overlay[d][s].retired)
        BY <1>5, <3>2, OwnedIsThen
      <3> QED
        BY <2>1, <3>1, <3>2, OwnedIs DEF PointersStayGood
    <2>2. k.addr \in Owned'
      <3>1. k.addr \in Addr(cache'[at[c]])
        BY <1>2, <1>4, <1>5, AddrIs
      <3> QED
        BY <1>2, <3>1, OwnedIsThen
    <2>3. \A e \in Pointed' : e \in Pointed \/ e = k.addr
      BY <1>6, PointedIs, PointedIsThen
    <2> QED
      BY <2>1, <2>2, <2>3 DEF PointersStayGood
  <1>20. FreshLookups'
    BY <1>1, <1>6, <1>8 DEF FreshLookups
  <1> QED
    BY <1>10, <1>11, <1>12, <1>13, <1>14, <1>15, <1>16, <1>17, <1>18, <1>19, <1>20

LEMMA StartDdlInv ==
  ASSUME Inv, NEW c \in Clients, StartDdl(c)
  PROVE  Inv'
  <1> USE DEF Inv, TypeOK, StartDdl, BeginLookup, sourceVars, listingVars, cacheVars, slotVars, locks, clientVars, history
  <1>1. TypeOK'
    <2>1. changes' \in Changes
      BY AttachAssumption DEF Changes
    <2>2. pc' \in [Clients -> PCs] /\ verb' \in [Clients -> Verbs \cup {None}]
      BY DEF PCs, Verbs
    <2>3. at' \in [Clients -> Schemas] /\ owner' \in [Clients -> Owners] /\ floor' \in [Clients -> Nat]
      OBVIOUS
    <2> QED
      BY <2>1, <2>2, <2>3
  <1>2. LocksHeld'
    BY DEF LocksHeld
  <1>3. RepliesCommitted'
    BY DEF RepliesCommitted
  <1>4. OverlaysOwn'
    BY DEF OverlaysOwn, OverlayOwn, Releasing
  <1>5. ResultsOwn'
    BY DEF ResultsOwn, Releasing, SharedLookup, SeesOwn
  <1>6. CountsBounded'
    BY DEF CountsBounded, SharedLookup
  <1>7. PromisesKept'
    BY DEF PromisesKept, Forgotten, Queued
  <1>8. FloorKept'
    BY DEF FloorKept
  <1>9. OthersIsolated'
    BY DEF OthersIsolated
  <1>10. PointersStayGood'
    BY PointersFrame
  <1>11. FreshLookups'
    BY DEF FreshLookups
  <1> QED
    BY <1>1, <1>2, <1>3, <1>4, <1>5, <1>6, <1>7, <1>8, <1>9, <1>10, <1>11

LEMMA DescribeSchemaInv ==
  ASSUME Inv, NEW c \in Clients, DescribeSchema(c)
  PROVE  Inv'
  <1> USE DEF Inv, TypeOK, DescribeSchema, sourceVars, slotVars
  <1>1. served' \in [Schemas -> Listings] /\ stale' \in [Schemas -> BOOLEAN]
    BY RefreshedIs DEF ApplyRefreshes
  <1>2. \A s \in Schemas : served'[s].tables # None =>
           s \notin Queued /\ served'[s].tables = served[s].tables
    BY RefreshedIs
  <1>3. \A s \in Schemas : stale'[s] <=> stale[s] \/ s \in Queued
    BY DEF ApplyRefreshes
  <1>4. refresh_all' = FALSE /\ refresh_schemas' = {}
    BY DEF ApplyRefreshes
  <1>5. \A d \in Clients : schemas_lock # d
    BY AttachAssumption
  <1>6. /\ UNCHANGED <<committed, private, changes, cache, retired, overlay, altered, state_lock>>
        /\ UNCHANGED <<at, owner, verb, fetched, held, result, promised, owed>>
        /\ pc[c] = "authorize" /\ schemas_lock = None
    OBVIOUS
  <1>7. "schema" \in PCs /\ "tables" \in PCs
    BY DEF PCs
  <1>8. PICK q \in PCs, p \in BOOLEAN, m \in Nat :
           /\ pc' = [pc EXCEPT ![c] = q]
           /\ pinning' = [pinning EXCEPT ![c] = p]
           /\ floor' = [floor EXCEPT ![c] = m]
           /\ \/ q = "schema" /\ schemas_lock' = c
              \/ q = "tables" /\ schemas_lock' = None /\ m = promised[at[c]]
    <2>1. CASE /\ schemas_lock' = c /\ pc' = [pc EXCEPT ![c] = "schema"]
               /\ UNCHANGED <<pinning, floor>>
      <3>1. pinning' = [pinning EXCEPT ![c] = pinning[c]] /\ floor' = [floor EXCEPT ![c] = floor[c]]
        BY <2>1
      <3> QED
        BY <2>1, <3>1, <1>7
    <2>2. CASE Authorized(c) /\ UNCHANGED schemas_lock
      <3>1. (verb[c] = "create") \in BOOLEAN /\ promised[at[c]] \in Nat
        OBVIOUS
      <3> QED
        BY <1>6, <1>7, <2>2, <3>1 DEF Authorized, BeginLookup
    <2> QED
      BY <2>1, <2>2
  <1> HIDE DEF DescribeSchema
  <1>9. TypeOK'
    <2>1. refresh_all' \in BOOLEAN /\ refresh_schemas' \subseteq Schemas
      BY <1>4
    <2>2. pc' \in [Clients -> PCs] /\ schemas_lock' \in Clients \cup {None}
      BY <1>8
    <2>3. pinning' \in [Clients -> BOOLEAN] /\ floor' \in [Clients -> Nat]
      BY <1>8
    <2> QED
      BY <1>1, <1>6, <2>1, <2>2, <2>3
  <1>10. LocksHeld'
    BY <1>2, <1>3, <1>4, <1>5, <1>6, <1>8 DEF LocksHeld
  <1>11. RepliesCommitted'
    BY <1>2, <1>3, <1>4, <1>5, <1>6, <1>8 DEF RepliesCommitted
  <1>12. OverlaysOwn'
    BY <1>6, <1>8 DEF OverlaysOwn, OverlayOwn, Releasing
  <1>13. ResultsOwn'
    BY <1>2, <1>3, <1>4, <1>5, <1>6, <1>8 DEF ResultsOwn, Releasing, SharedLookup, SeesOwn
  <1>14. CountsBounded'
    BY <1>6, <1>8 DEF CountsBounded, SharedLookup
  <1>15. PromisesKept'
    <2>1. \A d \in Clients : pc'[d] \in {"listed", "described"} => pc'[d] = pc[d] /\ at'[d] = at[d]
      BY <1>6, <1>8
    <2>2. ApplyRefreshes /\ served' = RefreshedListings
      BY DEF DescribeSchema
    <2> QED
      BY <1>6, <2>1, <2>2, ApplyKeepsPromises
  <1>16. FloorKept'
    BY <1>3, <1>6, <1>8 DEF FloorKept
  <1>17. OthersIsolated'
    BY <1>2, <1>6 DEF OthersIsolated
  <1>18. PointersStayGood'
    BY <1>6, PointersFrame
  <1>19. FreshLookups'
    BY <1>2, <1>3, <1>4, <1>5, <1>6, <1>8 DEF FreshLookups
  <1> QED
    BY <1>9, <1>10, <1>11, <1>12, <1>13, <1>14, <1>15, <1>16, <1>17, <1>18, <1>19

LEMMA StoreSchemaInv ==
  ASSUME Inv, NEW c \in Clients, StoreSchema(c)
  PROVE  Inv'
  <1> USE DEF Inv, TypeOK, StoreSchema, Authorized, BeginLookup, sourceVars, listingVars, cacheVars, slotVars, locks, clientVars, history
  <1>1. /\ fetched[c] \in Snapshots /\ fetched[c] # None /\ schemas_lock = c
        /\ \A d \in Clients : d # c => schemas_lock # d
    BY DEF RepliesCommitted, LocksHeld
  <1>2. /\ served' \in [Schemas -> Listings]
        /\ \A s \in Schemas : served'[s].tables = served[s].tables
    <2>1. PICK l \in Listings : l = served[at[c]]
      OBVIOUS
    <2>2. PICK k \in Listings : k = [l EXCEPT !.schema = fetched[c]] /\ k.tables = l.tables
      <3>1. /\ [l EXCEPT !.schema = fetched[c]] \in Listings
            /\ [l EXCEPT !.schema = fetched[c]].tables = l.tables
        BY <1>1, ListingExcept
      <3> QED
        BY <3>1
    <2>3. served' = [served EXCEPT ![at[c]] = k]
      BY <2>1, <2>2
    <2> QED
      BY <2>1, <2>2, <2>3
  <1>3. TypeOK'
    <2>1. pc' \in [Clients -> PCs] /\ pinning' \in [Clients -> BOOLEAN] /\ floor' \in [Clients -> Nat]
      BY DEF PCs
    <2>2. fetched' \in [Clients -> Snapshots \cup {None}]
      OBVIOUS
    <2> QED
      BY <1>2, <2>1, <2>2
  <1>4. LocksHeld'
    BY <1>1, AttachAssumption DEF LocksHeld
  <1>5. RepliesCommitted'
    BY <1>1, <1>2 DEF RepliesCommitted
  <1>6. OverlaysOwn'
    BY <1>1, <1>2 DEF OverlaysOwn, OverlayOwn, Releasing
  <1>7. ResultsOwn'
    BY <1>1, <1>2 DEF ResultsOwn, Releasing, SharedLookup, SeesOwn
  <1>8. CountsBounded'
    BY <1>1, <1>2 DEF CountsBounded, SharedLookup
  <1>9. PromisesKept'
    BY <1>1, <1>2 DEF PromisesKept, Forgotten, Queued
  <1>10. FloorKept'
    BY <1>1, <1>2 DEF FloorKept
  <1>11. OthersIsolated'
    BY <1>1, <1>2 DEF OthersIsolated
  <1>12. PointersStayGood'
    BY PointersFrame
  <1>13. FreshLookups'
    BY <1>1, <1>2 DEF FreshLookups
  <1> QED
    BY <1>3, <1>4, <1>5, <1>6, <1>7, <1>8, <1>9, <1>10, <1>11, <1>12, <1>13

LEMMA DdlInv ==
  ASSUME Inv, NEW c \in Clients, Ddl(c)
  PROVE  Inv'
  <1> USE DEF Inv, TypeOK, Ddl, listingVars, cacheVars, locks, history
  <1>1. /\ SessionDdl(c, at[c]) \in Snapshots
        /\ SessionDdl(c, at[c]).by = c
    <2>1. (IF private[c][at[c]] = None THEN 1 ELSE private[c][at[c]].n + 1) \in Nat
      BY SnapshotIs
    <2>2. (verb[c] # "drop") \in BOOLEAN
      OBVIOUS
    <2> QED
      BY <2>1, <2>2, SnapshotMade DEF SessionDdl
  <1>2. PICK o \in Overlays \cup {None} : o = overlay[c][at[c]]
    OBVIOUS
  <1>3. /\ NewOverlay(o) \in Overlays
        /\ NewOverlay(o) # None
        /\ NewOverlay(o).tables = None
        /\ NewOverlay(o).cache = None
        /\ o # None => NewOverlay(o).retired = Abandoned(o)
    BY NewOverlayIs
  <1>4. /\ pc[c] = "ddl" /\ pc' = [pc EXCEPT ![c] = "idle"]
        /\ verb' = [verb EXCEPT ![c] = None]
        /\ result' = [result EXCEPT ![c] = None]
        /\ UNCHANGED <<committed, changes, listingVars, cacheVars, locks, at, owner, pinning, fetched,
                       held, history>>
    OBVIOUS
  <1>5. \/ UNCHANGED <<private, altered, overlay>>
        \/ /\ private' = [private EXCEPT ![c][at[c]] = SessionDdl(c, at[c])]
           /\ altered' = [altered EXCEPT ![c] = @ \cup {at[c]}]
           /\ overlay' = [overlay EXCEPT ![c][at[c]] = NewOverlay(o)]
    BY <1>2 DEF slotVars
  <1>6. /\ \A d \in Clients, s \in Schemas :
             (d # c \/ s # at[c]) => private'[d][s] = private[d][s] /\ overlay'[d][s] = overlay[d][s]
        /\ \A d \in Clients : d # c => altered'[d] = altered[d]
        /\ \A s \in Schemas : s # at[c] => (s \in altered'[c] <=> s \in altered[c])
    BY <1>5
  <1>7. \/ /\ private'[c][at[c]] = private[c][at[c]] /\ overlay'[c][at[c]] = overlay[c][at[c]]
           /\ altered'[c] = altered[c]
        \/ /\ private'[c][at[c]] = SessionDdl(c, at[c]) /\ overlay'[c][at[c]] = NewOverlay(o)
           /\ altered'[c] = altered[c] \cup {at[c]}
    BY <1>5
  <1> HIDE DEF Ddl
  <1>8. TypeOK'
    <2>1. /\ private' \in [Clients -> [Schemas -> Snapshots \cup {None}]]
          /\ overlay' \in [Clients -> [Schemas -> Overlays \cup {None}]]
          /\ altered' \in [Clients -> SUBSET Schemas]
      <3>1. CASE UNCHANGED <<private, altered, overlay>>
        BY <3>1
      <3>2. CASE /\ private' = [private EXCEPT ![c][at[c]] = SessionDdl(c, at[c])]
                 /\ altered' = [altered EXCEPT ![c] = @ \cup {at[c]}]
                 /\ overlay' = [overlay EXCEPT ![c][at[c]] = NewOverlay(o)]
        <4>1. private' \in [Clients -> [Schemas -> Snapshots \cup {None}]]
          BY <1>1, <3>2
        <4>2. altered' \in [Clients -> SUBSET Schemas]
          BY <3>2
        <4>3. overlay' \in [Clients -> [Schemas -> Overlays \cup {None}]]
          BY <1>3, <3>2
        <4> QED
          BY <4>1, <4>2, <4>3
      <3> QED
        BY <1>5, <3>1, <3>2
    <2> QED
      BY <1>4, <2>1 DEF PCs
  <1>9. LocksHeld'
    BY <1>4 DEF LocksHeld
  <1>10. RepliesCommitted'
    BY <1>4 DEF RepliesCommitted
  <1>11. OverlaysOwn'
    <2>1. ASSUME NEW d \in Clients, NEW s \in Schemas, d # c \/ s # at[c]
          PROVE  OverlayOwn(d, s)'
      BY <1>4, <1>6, <2>1 DEF OverlaysOwn, OverlayOwn, Releasing
    <2>2. ASSUME NEW s \in Schemas, s = at[c]
          PROVE  OverlayOwn(c, s)'
      <3>1. CASE /\ private'[c][s] = private[c][s] /\ overlay'[c][s] = overlay[c][s]
                 /\ altered'[c] = altered[c]
        <4>1. OverlayOwn(c, s)
          BY DEF OverlaysOwn
        <4> QED
          BY <1>4, <3>1, <4>1 DEF OverlayOwn, Releasing
      <3>2. CASE /\ private'[c][s] = SessionDdl(c, at[c]) /\ overlay'[c][s] = NewOverlay(o)
                 /\ altered'[c] = altered[c] \cup {at[c]}
        BY <1>1, <1>3, <1>4, <2>2, <3>2, SnapshotIs DEF OverlayOwn
      <3> QED
        BY <1>7, <2>2, <3>1, <3>2
    <2> QED
      BY <2>1, <2>2 DEF OverlaysOwn
  <1>12. ResultsOwn'
    BY <1>4, <1>6 DEF ResultsOwn, Releasing, SharedLookup, SeesOwn
  <1>13. CountsBounded'
    BY <1>4 DEF CountsBounded, SharedLookup
  <1>14. PromisesKept'
    <2>1. \A s \in Schemas : Forgotten(s, promised[s])'
      BY <1>4 DEF PromisesKept, Forgotten, Queued
    <2>2. \A s \in Schemas : owed'[c][s] = 0
      BY <1>4 DEF CountsBounded
    <2>3. ASSUME NEW s \in Schemas, NEW d \in Clients, d # c, owed'[d][s] # 0, s \notin altered'[d]
          PROVE  Forgotten(s, owed[d][s])'
      BY <1>4, <1>6, <2>3 DEF PromisesKept, Forgotten, Queued
    <2> QED
      BY <2>1, <2>2, <2>3 DEF PromisesKept
  <1>15. FloorKept'
    BY <1>4 DEF FloorKept
  <1>16. OthersIsolated'
    BY <1>4 DEF OthersIsolated
  <1>17. PointersStayGood'
    <2>1. ASSUME NEW e \in Pointed PROVE e \in Owned'
      <3>1. CASE \E s \in Schemas : e \in Addr(cache[s]) \/ e \in retired[s]
        BY <1>4, <3>1, OwnedIsThen
      <3>2. CASE o # None /\ (e \in Addr(o.cache) \/ e \in o.retired)
        <4>1. e \in Abandoned(o)
          BY <2>1, <3>2, AbandonedIs
        <4>2. /\ overlay'[c][at[c]] # None
              /\ e \in Addr(overlay'[c][at[c]].cache) \/ e \in overlay'[c][at[c]].retired
          BY <1>2, <1>3, <1>7, <3>2, <4>1
        <4> QED
          BY <4>2, OwnedIsThen
      <3>3. CASE \E d \in Clients, s \in Schemas :
                   /\ overlay[d][s] # None /\ (d # c \/ s # at[c])
                   /\ e \in Addr(overlay[d][s].cache) \/ e \in overlay[d][s].retired
        <4>1. PICK d \in Clients, s \in Schemas :
                   /\ overlay[d][s] # None /\ (d # c \/ s # at[c])
                   /\ e \in Addr(overlay[d][s].cache) \/ e \in overlay[d][s].retired
          BY <3>3
        <4>2. overlay'[d][s] = overlay[d][s]
          BY <1>6, <4>1
        <4> QED
          BY <4>1, <4>2, OwnedIsThen
      <3> QED
        BY <1>2, <2>1, <3>1, <3>2, <3>3, OwnedIs DEF PointersStayGood
    <2> QED
      BY <1>4, <2>1, PointedIs, PointedIsThen DEF PointersStayGood
  <1>18. FreshLookups'
    BY <1>4 DEF FreshLookups
  <1> QED
    BY <1>8, <1>9, <1>10, <1>11, <1>12, <1>13, <1>14, <1>15, <1>16, <1>17, <1>18

LEMMA EndStatementInv ==
  ASSUME Inv, NEW c \in Clients, EndStatement(c)
  PROVE  Inv'
  <1> USE DEF Inv, TypeOK, EndStatement, sourceVars, listingVars, locks, history
  <1> DEFINE pointed == UNION {held[d] : d \in Clients \ {c}}
  <1>1. \A d \in Clients, s \in Schemas :
           overlay'[d][s] = IF overlay[d][s] = None THEN None
                            ELSE [overlay[d][s] EXCEPT !.retired = @ \cap pointed]
    OBVIOUS
  <1>2. overlay' = [d \in Clients |-> [s \in Schemas |-> overlay'[d][s]]]
    OBVIOUS
  <1>3. retired' = [s \in Schemas |-> retired[s] \cap pointed] /\ held' = [held EXCEPT ![c] = {}]
    OBVIOUS
  <1>4. \A e : e \in Pointed' <=> e \in pointed
    BY <1>3, PointedIsThen
  <1> HIDE DEF pointed
  <1>5. ASSUME NEW d \in Clients, NEW s \in Schemas, overlay[d][s] # None
        PROVE  /\ overlay'[d][s] \in Overlays
               /\ overlay'[d][s].tables = overlay[d][s].tables
               /\ overlay'[d][s].cache = overlay[d][s].cache
               /\ overlay'[d][s].retired = overlay[d][s].retired \cap pointed
    <2>1. PICK o \in Overlays : o = overlay[d][s]
      BY <1>5
    <2>3. overlay'[d][s] = [o EXCEPT !.retired = @ \cap pointed]
      BY <1>1, <1>5, <2>1
    <2>4. [o EXCEPT !.retired = @ \cap pointed] =
             [tables |-> o.tables, cache |-> o.cache, retired |-> o.retired \cap pointed]
      BY OverlayExcept
    <2>5. [tables |-> o.tables, cache |-> o.cache, retired |-> o.retired \cap pointed] \in Overlays
      BY OverlayIs, OverlayMade
    <2> QED
      BY <2>1, <2>3, <2>4, <2>5
  <1>6. \A d \in Clients, s \in Schemas : overlay'[d][s] # None <=> overlay[d][s] # None
    BY <1>1, <1>5, OverlayIs
  <1>7. /\ UNCHANGED <<committed, private, changes, refresh_all, refresh_schemas, served, cache, stale>>
        /\ UNCHANGED <<altered, schemas_lock, state_lock, pc, at, owner, pinning, verb, fetched, result>>
        /\ UNCHANGED <<promised, floor, owed>>
    OBVIOUS
  <1> HIDE DEF EndStatement
  <1>8. TypeOK'
    <2>1. overlay' \in [Clients -> [Schemas -> Overlays \cup {None}]]
      BY <1>2, <1>5, <1>6
    <2>2. retired' \in [Schemas -> SUBSET Entries] /\ held' \in [Clients -> SUBSET Entries]
      BY <1>3
    <2> QED
      BY <1>7, <2>1, <2>2
  <1>9. LocksHeld'
    BY <1>7 DEF LocksHeld
  <1>10. RepliesCommitted'
    BY <1>7 DEF RepliesCommitted
  <1>11. OverlaysOwn'
    <2>1. ASSUME NEW d \in Clients, NEW s \in Schemas
          PROVE  OverlayOwn(d, s)'
      <3>1. CASE overlay[d][s] = None
        BY <1>6, <1>7, <3>1 DEF OverlaysOwn, OverlayOwn
      <3>2. CASE overlay[d][s] # None
        <4>1. OverlayOwn(d, s)
          BY DEF OverlaysOwn
        <4> QED
          BY <1>5, <1>6, <1>7, <3>2, <4>1 DEF OverlayOwn
      <3> QED
        BY <3>1, <3>2
    <2> QED
      BY <2>1 DEF OverlaysOwn
  <1>12. ResultsOwn'
    BY <1>6, <1>7 DEF ResultsOwn, Releasing, SharedLookup, SeesOwn
  <1>13. CountsBounded'
    BY <1>7 DEF CountsBounded, SharedLookup
  <1>14. PromisesKept'
    BY <1>7 DEF PromisesKept, Forgotten, Queued
  <1>15. FloorKept'
    BY <1>7 DEF FloorKept
  <1>16. OthersIsolated'
    BY <1>7 DEF OthersIsolated
  <1>17. PointersStayGood'
    <2>1. ASSUME NEW e \in Pointed' PROVE e \in Owned'
      <3>1. e \in pointed /\ e \in Pointed
        BY <2>1, <1>3, <1>4, PointedIs, PointedIsThen
      <3>2. CASE \E s \in Schemas : e \in Addr(cache[s]) \/ e \in retired[s]
        BY <1>3, <1>7, <3>1, <3>2, OwnedIsThen
      <3>3. CASE \E d \in Clients, s \in Schemas :
                   overlay[d][s] # None /\ (e \in Addr(overlay[d][s].cache) \/ e \in overlay[d][s].retired)
        <4>1. PICK d \in Clients, s \in Schemas :
                   overlay[d][s] # None /\ (e \in Addr(overlay[d][s].cache) \/ e \in overlay[d][s].retired)
          BY <3>3
        <4>2. overlay'[d][s] # None /\ (e \in Addr(overlay'[d][s].cache) \/ e \in overlay'[d][s].retired)
          BY <1>5, <1>6, <3>1, <4>1
        <4> QED
          BY <4>2, OwnedIsThen
      <3> QED
        BY <3>1, <3>2, <3>3, OwnedIs DEF PointersStayGood
    <2> QED
      BY <2>1 DEF PointersStayGood
  <1>18. FreshLookups'
    BY <1>7 DEF FreshLookups
  <1> QED
    BY <1>8, <1>9, <1>10, <1>11, <1>12, <1>13, <1>14, <1>15, <1>16, <1>17, <1>18

LEMMA StartReleaseInv ==
  ASSUME Inv, NEW c \in Clients, StartRelease(c)
  PROVE  Inv'
  <1> USE DEF Inv, TypeOK, StartRelease, sourceVars, listingVars, cacheVars, slotVars, locks, clientVars, history
  <1>1. TypeOK'
    BY DEF PCs
  <1>2. LocksHeld'
    BY DEF LocksHeld
  <1>3. RepliesCommitted'
    BY DEF RepliesCommitted
  <1>4. OverlaysOwn'
    BY DEF OverlaysOwn, OverlayOwn, Releasing
  <1>5. ResultsOwn'
    BY DEF ResultsOwn, Releasing, SharedLookup, SeesOwn
  <1>6. CountsBounded'
    BY DEF CountsBounded, SharedLookup
  <1>7. PromisesKept'
    BY DEF PromisesKept, Forgotten, Queued
  <1>8. FloorKept'
    BY DEF FloorKept
  <1>9. OthersIsolated'
    BY DEF OthersIsolated
  <1>10. PointersStayGood'
    BY PointersFrame
  <1>11. FreshLookups'
    BY DEF FreshLookups
  <1> QED
    BY <1>1, <1>2, <1>3, <1>4, <1>5, <1>6, <1>7, <1>8, <1>9, <1>10, <1>11

LEMMA RetireStateOfInv ==
  ASSUME Inv, NEW c \in Clients, RetireStateOf(c)
  PROVE  Inv'
  <1> USE DEF Inv, TypeOK, RetireStateOf, Overlaid, sourceVars, listingVars, cacheVars, slotVars, locks, clientVars, history
  <1>1. served' \in [Schemas -> Listings] /\ stale' \in [Schemas -> BOOLEAN]
    BY RefreshedIs DEF ApplyRefreshes
  <1>2. \A s \in Schemas : served'[s].tables # None =>
           s \notin Queued /\ served'[s].tables = served[s].tables
    BY RefreshedIs
  <1>3. \A s \in Schemas : stale'[s] <=> stale[s] \/ s \in Queued
    BY DEF ApplyRefreshes
  <1>4. refresh_all' = FALSE /\ refresh_schemas' = {}
    BY DEF ApplyRefreshes
  <1>5. \A d \in Clients : schemas_lock # d
    BY AttachAssumption
  <1>6. TypeOK'
    <2>1. refresh_all' \in BOOLEAN /\ refresh_schemas' \subseteq Schemas
      BY <1>4
    <2> QED
      BY <1>1, <2>1 DEF PCs
  <1>7. LocksHeld'
    BY DEF LocksHeld
  <1>8. RepliesCommitted'
    BY DEF RepliesCommitted
  <1>9. OverlaysOwn'
    BY DEF OverlaysOwn, OverlayOwn, Releasing
  <1>10. ResultsOwn'
    BY DEF ResultsOwn, Releasing, SharedLookup, SeesOwn
  <1>11. CountsBounded'
    BY DEF CountsBounded, SharedLookup
  <1>12. PromisesKept'
    BY ApplyKeepsPromises
  <1>13. FloorKept'
    BY <1>3 DEF FloorKept
  <1>14. OthersIsolated'
    BY <1>2 DEF OthersIsolated
  <1>15. PointersStayGood'
    BY PointersFrame
  <1>16. FreshLookups'
    BY DEF FreshLookups
  <1> QED
    BY <1>6, <1>7, <1>8, <1>9, <1>10, <1>11, <1>12, <1>13, <1>14, <1>15, <1>16

LEMMA RetireOverlayInv ==
  ASSUME Inv, NEW c \in Clients, RetireOverlay(c)
  PROVE  Inv'
  <1> USE DEF Inv, TypeOK, RetireOverlay, Overlaid, sourceVars, listingVars, cacheVars, slotVars, locks, clientVars, history
  <1>1. /\ overlay[c][at[c]] # None
        /\ overlay[c][at[c]].retired \subseteq Entries
        /\ overlay[c][at[c]].cache \in Cached \cup {None}
    BY OverlayIs DEF ResultsOwn
  <1>2. Abandoned(overlay[c][at[c]]) \subseteq Entries
    BY <1>1, CachedIs DEF Abandoned, Retired, Addr
  <1>3. TypeOK'
    <2>1. overlay' \in [Clients -> [Schemas -> Overlays \cup {None}]]
      OBVIOUS
    <2>2. retired' \in [Schemas -> SUBSET Entries]
      BY <1>2
    <2> QED
      BY <2>1, <2>2 DEF PCs
  <1>4. LocksHeld'
    BY DEF LocksHeld
  <1>5. RepliesCommitted'
    BY DEF RepliesCommitted
  <1>6. OverlaysOwn'
    BY DEF OverlaysOwn, OverlayOwn, Releasing
  <1>7. ResultsOwn'
    BY DEF ResultsOwn, Releasing, SharedLookup, SeesOwn
  <1>8. CountsBounded'
    BY DEF CountsBounded, SharedLookup
  <1>9. PromisesKept'
    BY DEF PromisesKept, Forgotten, Queued
  <1>10. FloorKept'
    BY DEF FloorKept
  <1>11. OthersIsolated'
    BY DEF OthersIsolated
  <1>12. PointersStayGood'
    <2>1. ASSUME NEW e \in Pointed PROVE e \in Owned'
      <3>1. CASE \E s \in Schemas : e \in Addr(cache[s]) \/ e \in retired[s]
        BY <3>1, OwnedIsThen
      <3>2. CASE e \in Addr(overlay[c][at[c]].cache) \/ e \in overlay[c][at[c]].retired
        <4>1. e \in retired'[at[c]]
          BY <2>1, <3>2 DEF Abandoned, Retired
        <4> QED
          BY <4>1, OwnedIsThen
      <3>3. CASE \E d \in Clients, s \in Schemas :
                   /\ overlay[d][s] # None /\ (d # c \/ s # at[c])
                   /\ e \in Addr(overlay[d][s].cache) \/ e \in overlay[d][s].retired
        BY <3>3, OwnedIsThen
      <3> QED
        BY <2>1, <3>1, <3>2, <3>3, OwnedIs DEF PointersStayGood
    <2> QED
      BY <2>1, PointedIs, PointedIsThen DEF PointersStayGood
  <1>13. FreshLookups'
    BY DEF FreshLookups
  <1> QED
    BY <1>3, <1>4, <1>5, <1>6, <1>7, <1>8, <1>9, <1>10, <1>11, <1>12, <1>13

LEMMA ResolveInv ==
  ASSUME Inv, NEW c \in Clients, Resolve(c)
  PROVE  Inv'
  <1> USE DEF Inv, TypeOK, Resolve, sourceVars, listingVars, cacheVars, slotVars, locks, clientVars, history
  <1>1. \A s \in Schemas : /\ committed[s].n \in Nat
                           /\ committed'[s] \in Snapshots
                           /\ committed'[s].n \in Nat
                           /\ committed'[s].n >= committed[s].n
                           /\ owed'[c][s] \in Nat
                           /\ owed'[c][s] # 0 => owed'[c][s] = committed'[s].n /\ private[c][s] # None
    <2>1. ASSUME NEW s \in Schemas, private[c][s] # None
          PROVE  [by |-> None, n |-> committed[s].n + 1, exists |-> private[c][s].exists] \in Snapshots
      <3>1. private[c][s].exists \in BOOLEAN /\ committed[s].n + 1 \in Nat
        BY <2>1, SnapshotIs
      <3> QED
        BY <3>1, SnapshotMade
    <2>2. \A s \in Schemas : owed[c][s] = 0
      BY DEF CountsBounded
    <2> QED
      BY <2>1, <2>2, SnapshotIs
  <1>2. \A d \in Clients : d # c => owed'[d] = owed[d]
    OBVIOUS
  <1>3. TypeOK'
    <2>1. committed' \in [Schemas -> Snapshots]
      <3>1. DOMAIN committed' = Schemas /\ committed' = [s \in Schemas |-> committed'[s]]
        OBVIOUS
      <3> QED
        BY <1>1, <3>1
    <2>2. owed' \in [Clients -> [Schemas -> Nat]]
      <3>1. DOMAIN owed'[c] = Schemas /\ owed'[c] = [s \in Schemas |-> owed'[c][s]]
        OBVIOUS
      <3>2. owed'[c] \in [Schemas -> Nat]
        BY <1>1, <3>1
      <3>3. owed' = [owed EXCEPT ![c] = owed'[c]]
        OBVIOUS
      <3> QED
        BY <3>2, <3>3
    <2> QED
      BY <2>1, <2>2 DEF PCs
  <1>4. LocksHeld'
    BY DEF LocksHeld
  <1>5. RepliesCommitted'
    BY DEF RepliesCommitted
  <1>6. OverlaysOwn'
    BY DEF OverlaysOwn, OverlayOwn, Releasing
  <1>7. ResultsOwn'
    BY DEF ResultsOwn, Releasing, SharedLookup, SeesOwn
  <1>8. CountsBounded'
    <2>1. \A s \in Schemas : promised[s] <= committed'[s].n
      BY <1>1 DEF CountsBounded
    <2>2. \A s \in Schemas : owed'[c][s] <= committed'[s].n
      BY <1>1
    <2>3. \A d \in Clients, s \in Schemas :
             d # c => owed'[d][s] <= committed'[s].n /\ (owed'[d][s] # 0 => pc'[d] = "settle")
      BY <1>1, <1>2 DEF CountsBounded
    <2>4. \A d \in Clients : pc'[d] \in SharedLookup \cup {"tables"} => floor[d] <= promised[at[d]]
      BY DEF CountsBounded, SharedLookup
    <2> QED
      BY <2>1, <2>2, <2>3, <2>4 DEF CountsBounded
  <1>9. PromisesKept'
    <2>1. \A s \in Schemas : Forgotten(s, promised[s])'
      BY DEF PromisesKept, Forgotten, Queued
    <2>2. ASSUME NEW s \in Schemas PROVE owed'[c][s] = 0 \/ s \in altered'[c]
      <3>1. owed'[c][s] # 0 => private[c][s] # None
        BY <1>1
      <3> QED
        BY <3>1 DEF OverlaysOwn, OverlayOwn
    <2>3. ASSUME NEW s \in Schemas, NEW d \in Clients, d # c, owed'[d][s] # 0, s \notin altered'[d]
          PROVE  Forgotten(s, owed[d][s])'
      BY <1>2, <2>3 DEF PromisesKept, Forgotten, Queued
    <2> QED
      BY <2>1, <2>2, <2>3 DEF PromisesKept
  <1>10. FloorKept'
    BY DEF FloorKept
  <1>11. OthersIsolated'
    BY DEF OthersIsolated
  <1>12. PointersStayGood'
    BY PointersFrame
  <1>13. FreshLookups'
    BY DEF FreshLookups
  <1> QED
    BY <1>3, <1>4, <1>5, <1>6, <1>7, <1>8, <1>9, <1>10, <1>11, <1>12, <1>13

LEMMA RefreshSchemaInv ==
  ASSUME Inv, NEW u \in Schemas, RefreshSchema(u)
  PROVE  Inv'
  <1> USE DEF Inv, TypeOK, RefreshSchema, Enqueue, sourceVars, listingVars, cacheVars, slotVars, locks, clientVars, history
  <1>1. TypeOK'
    BY SnapshotIs DEF PCs
  <1>2. LocksHeld'
    BY SnapshotIs DEF LocksHeld
  <1>3. RepliesCommitted'
    BY SnapshotIs DEF RepliesCommitted
  <1>4. OverlaysOwn'
    BY SnapshotIs DEF OverlaysOwn, OverlayOwn, Releasing
  <1>5. ResultsOwn'
    BY SnapshotIs DEF ResultsOwn, Releasing, SharedLookup, SeesOwn
  <1>6. CountsBounded'
    BY SnapshotIs DEF CountsBounded, SharedLookup
  <1>7. PromisesKept'
    BY SnapshotIs DEF PromisesKept, Forgotten, Queued
  <1>8. FloorKept'
    BY SnapshotIs DEF FloorKept
  <1>9. OthersIsolated'
    BY SnapshotIs DEF OthersIsolated
  <1>10. PointersStayGood'
    BY PointersFrame
  <1>11. FreshLookups'
    BY SnapshotIs DEF FreshLookups
  <1> QED
    BY <1>1, <1>2, <1>3, <1>4, <1>5, <1>6, <1>7, <1>8, <1>9, <1>10, <1>11

LEMMA RefreshAllInv ==
  ASSUME Inv, RefreshAll
  PROVE  Inv'
  <1> USE DEF Inv, TypeOK, RefreshAll, sourceVars, listingVars, cacheVars, slotVars, locks, clientVars, history
  <1>1. TypeOK'
    BY SnapshotIs DEF PCs
  <1>2. LocksHeld'
    BY SnapshotIs DEF LocksHeld
  <1>3. RepliesCommitted'
    BY SnapshotIs DEF RepliesCommitted
  <1>4. OverlaysOwn'
    BY SnapshotIs DEF OverlaysOwn, OverlayOwn, Releasing
  <1>5. ResultsOwn'
    BY SnapshotIs DEF ResultsOwn, Releasing, SharedLookup, SeesOwn
  <1>6. CountsBounded'
    BY SnapshotIs DEF CountsBounded, SharedLookup
  <1>7. PromisesKept'
    BY SnapshotIs DEF PromisesKept, Forgotten, Queued
  <1>8. FloorKept'
    BY SnapshotIs DEF FloorKept
  <1>9. OthersIsolated'
    BY SnapshotIs DEF OthersIsolated
  <1>10. PointersStayGood'
    BY PointersFrame
  <1>11. FreshLookups'
    BY SnapshotIs DEF FreshLookups
  <1> QED
    BY <1>1, <1>2, <1>3, <1>4, <1>5, <1>6, <1>7, <1>8, <1>9, <1>10, <1>11

LEMMA SettleInv ==
  ASSUME Inv, NEW c \in Clients, Settle(c)
  PROVE  Inv'
  <1> USE DEF Inv, TypeOK, Settle, Enqueue, sourceVars, listingVars, cacheVars, slotVars, locks, clientVars, history
  <1>1. TypeOK'
    BY DEF PCs
  <1>2. LocksHeld'
    BY DEF LocksHeld
  <1>3. RepliesCommitted'
    BY DEF RepliesCommitted
  <1>4. OverlaysOwn'
    BY DEF OverlaysOwn, OverlayOwn, Releasing
  <1>5. ResultsOwn'
    BY DEF ResultsOwn, Releasing, SharedLookup, SeesOwn
  <1>6. CountsBounded'
    BY DEF CountsBounded, SharedLookup
  <1>7. PromisesKept'
    BY DEF PromisesKept, Forgotten, Queued
  <1>8. FloorKept'
    BY DEF FloorKept
  <1>9. OthersIsolated'
    BY DEF OthersIsolated
  <1>10. PointersStayGood'
    BY PointersFrame
  <1>11. FreshLookups'
    BY DEF FreshLookups
  <1> QED
    BY <1>1, <1>2, <1>3, <1>4, <1>5, <1>6, <1>7, <1>8, <1>9, <1>10, <1>11

LEMMA SettledInv ==
  ASSUME Inv, NEW c \in Clients, Settled(c)
  PROVE  Inv'
  <1> USE DEF Inv, TypeOK, Settled, sourceVars, listingVars, cacheVars, slotVars, locks, clientVars, history
  <1>1. \A s \in Schemas : /\ committed[s].n \in Nat
                           /\ promised'[s] \in Nat
                           /\ promised'[s] \in {promised[s], owed[c][s]}
                           /\ promised'[s] >= promised[s]
    BY SnapshotIs DEF Larger
  <1>2. TypeOK'
    BY <1>1 DEF PCs
  <1>3. LocksHeld'
    BY DEF LocksHeld
  <1>4. RepliesCommitted'
    BY DEF RepliesCommitted
  <1>5. OverlaysOwn'
    BY DEF OverlaysOwn, OverlayOwn, Releasing
  <1>6. ResultsOwn'
    BY DEF ResultsOwn, Releasing, SharedLookup, SeesOwn
  <1>7. CountsBounded'
    <2>1. \A s \in Schemas : promised'[s] <= committed[s].n
      BY <1>1 DEF CountsBounded
    <2>2. \A d \in Clients, s \in Schemas :
             owed'[d][s] <= committed[s].n /\ (owed'[d][s] # 0 => pc'[d] = "settle")
      BY <1>1 DEF CountsBounded
    <2>3. ASSUME NEW d \in Clients, pc'[d] \in SharedLookup \cup {"tables"}
          PROVE  floor[d] <= promised'[at[d]]
      <3>1. floor[d] <= promised[at[d]] /\ at[d] \in Schemas
        BY <2>3 DEF CountsBounded, SharedLookup
      <3> QED
        BY <1>1, <3>1
    <2> QED
      BY <2>1, <2>2, <2>3 DEF CountsBounded
  <1>8. PromisesKept'
    <2>1. ASSUME NEW s \in Schemas PROVE Forgotten(s, promised[s])'
      <3>1. promised'[s] = promised[s] \/ (promised'[s] = owed[c][s] /\ owed[c][s] # 0 /\ s \notin altered[c])
        BY <1>1
      <3>2. PICK m \in Nat : m = promised'[s]
        BY <1>1
      <3>3. Forgotten(s, m)
        BY <3>1, <3>2 DEF PromisesKept
      <3> QED
        BY <3>2, <3>3 DEF Forgotten, Queued
    <2>2. ASSUME NEW s \in Schemas, NEW d \in Clients, owed'[d][s] # 0, s \notin altered'[d]
          PROVE  Forgotten(s, owed[d][s])'
      BY <2>2 DEF PromisesKept, Forgotten, Queued
    <2> QED
      BY <2>1, <2>2 DEF PromisesKept
  <1>9. FloorKept'
    BY DEF FloorKept
  <1>10. OthersIsolated'
    BY DEF OthersIsolated
  <1>11. PointersStayGood'
    BY PointersFrame
  <1>12. FreshLookups'
    BY DEF FreshLookups
  <1> QED
    BY <1>2, <1>3, <1>4, <1>5, <1>6, <1>7, <1>8, <1>9, <1>10, <1>11, <1>12

LEMMA SourceChangesInv ==
  ASSUME Inv, NEW u \in Schemas, SourceChanges(u)
  PROVE  Inv'
  <1> USE DEF Inv, TypeOK, SourceChanges, sourceVars, listingVars, cacheVars, slotVars, locks, clientVars, history
  <1>1. TypeOK'
    <2>1. changes' \in Changes
      BY AttachAssumption DEF Changes
    <2>2. \A e \in BOOLEAN : [by |-> None, n |-> committed[u].n + 1, exists |-> e] \in Snapshots
      <3>1. committed[u].n + 1 \in Nat
        BY SnapshotIs
      <3> QED
        BY <3>1, SnapshotMade
    <2>3. committed' \in [Schemas -> Snapshots]
      BY <2>2
    <2> QED
      BY <2>1, <2>3
  <1>2. LocksHeld'
    BY DEF LocksHeld
  <1>3. RepliesCommitted'
    BY DEF RepliesCommitted
  <1>4. OverlaysOwn'
    BY DEF OverlaysOwn, OverlayOwn, Releasing
  <1>5. ResultsOwn'
    BY DEF ResultsOwn, Releasing, SharedLookup, SeesOwn
  <1>6. CountsBounded'
    <2>1. \A s \in Schemas : committed[s].n \in Nat /\ committed'[s].n >= committed[s].n /\ committed'[s].n \in Nat
      BY SnapshotIs
    <2> QED
      BY <2>1 DEF CountsBounded
  <1>7. PromisesKept'
    BY DEF PromisesKept, Forgotten, Queued
  <1>8. FloorKept'
    BY DEF FloorKept
  <1>9. OthersIsolated'
    BY DEF OthersIsolated
  <1>10. PointersStayGood'
    BY PointersFrame
  <1>11. FreshLookups'
    BY DEF FreshLookups
  <1> QED
    BY <1>1, <1>2, <1>3, <1>4, <1>5, <1>6, <1>7, <1>8, <1>9, <1>10, <1>11


-----------------------------------------------------------------------------
LEMMA InitInv == Init => Inv
  <1> SUFFICES ASSUME Init PROVE Inv
    OBVIOUS
  <1> USE DEF Init
  <1>1. TypeOK
    <2>1. [by |-> None, n |-> 0, exists |-> TRUE] \in Snapshots
      BY SnapshotMade
    <2>2. 0 \in Changes
      BY AttachAssumption DEF Changes
    <2> QED
      BY <2>1, <2>2, UnlistedIs DEF TypeOK, PCs
  <1>2. LocksHeld /\ RepliesCommitted
    BY DEF LocksHeld, RepliesCommitted
  <1>3. OverlaysOwn /\ ResultsOwn
    BY DEF OverlaysOwn, OverlayOwn, ResultsOwn, Releasing, SharedLookup, SeesOwn
  <1>4. CountsBounded
    BY DEF CountsBounded, SharedLookup
  <1>5. PromisesKept /\ FloorKept
    BY UnlistedIs DEF PromisesKept, Forgotten, FloorKept
  <1>6. OthersIsolated /\ FreshLookups
    BY UnlistedIs DEF OthersIsolated, FreshLookups
  <1>7. PointersStayGood
    BY PointedIs DEF PointersStayGood
  <1> QED
    BY <1>1, <1>2, <1>3, <1>4, <1>5, <1>6, <1>7 DEF Inv

LEMMA StutterInv == ASSUME Inv, UNCHANGED vars PROVE Inv'
  <1> USE DEF Inv, vars, sourceVars, listingVars, cacheVars, slotVars, locks, clientVars, history
  <1>1. TypeOK'
    BY DEF TypeOK
  <1>2. LocksHeld' /\ RepliesCommitted'
    BY DEF LocksHeld, RepliesCommitted
  <1>3. OverlaysOwn' /\ ResultsOwn'
    BY DEF OverlaysOwn, OverlayOwn, ResultsOwn, SeesOwn
  <1>4. CountsBounded'
    BY DEF CountsBounded
  <1>5. PromisesKept' /\ FloorKept'
    BY DEF PromisesKept, Forgotten, Queued, FloorKept
  <1>6. OthersIsolated' /\ FreshLookups'
    BY DEF OthersIsolated, FreshLookups
  <1>7. PointersStayGood'
    BY PointersFrame
  <1> QED
    BY <1>1, <1>2, <1>3, <1>4, <1>5, <1>6, <1>7

LEMMA NextInv == ASSUME Inv, [Next]_vars PROVE Inv'
  <1>1. ASSUME NEW c \in Clients, Lookup(c) PROVE Inv'
    BY <1>1, LookupOwnInv, ListTablesInv, StoreTablesInv, StateOfInv, SearchCacheInv, StoreEntryInv
       DEF Lookup
  <1>2. ASSUME NEW c \in Clients, DdlStep(c) PROVE Inv'
    BY <1>2, DescribeSchemaInv, StoreSchemaInv, DdlInv DEF DdlStep
  <1>3. ASSUME NEW c \in Clients, Release(c) PROVE Inv'
    BY <1>3, RetireStateOfInv, RetireOverlayInv, ResolveInv, SettleInv, SettledInv DEF Release
  <1>4. ASSUME NEW c \in Clients, SourceReplies(c) PROVE Inv'
    BY <1>4, SourceListsInv, SourceDescribesInv DEF SourceReplies
  <1>5. ASSUME NEW c \in Clients, Starts(c) PROVE Inv'
    BY <1>5, StartLookupInv, StartDdlInv, StartReleaseInv, EndStatementInv DEF Starts
  <1>6. ASSUME NEW s \in Schemas, RefreshSchema(s) \/ SourceChanges(s) PROVE Inv'
    BY <1>6, RefreshSchemaInv, SourceChangesInv
  <1> QED
    BY <1>1, <1>2, <1>3, <1>4, <1>5, <1>6, RefreshAllInv, StutterInv DEF Next, Goes

\* The inductive invariant holds in every reachable state, for any clients, schemas
\* and entries, whatever is looked up, altered, refreshed and changed at the source.
THEOREM SpecInv == Spec => []Inv
  BY InitInv, NextInv, PTL DEF Spec

\* Every variable keeps its type.
THEOREM SpecTypeOK == Spec => []TypeOK
  <1>1. Inv => TypeOK
    BY DEF Inv
  <1> QED
    BY <1>1, SpecInv, PTL

\* ApplyRefreshes forgets enough: a lookup that begins after Refresh, or the commit
\* of a DDL, returned never answers from what was fetched before, although a source
\* call may have been under way and stores its old reply afterwards.
THEOREM SpecFreshLookups == Spec => []FreshLookups
  <1>1. Inv => FreshLookups
    BY DEF Inv
  <1> QED
    BY <1>1, SpecInv, PTL

\* The listings and caches that all transactions share never show what a session did
\* and did not commit, and no lookup returns another session's work.
THEOREM SpecOthersIsolated == Spec => []OthersIsolated
  <1>1. Inv => OthersIsolated
    BY DEF Inv
  <1> QED
    BY <1>1, SpecInv, PTL

\* The overlay answers each statement of a transaction that ran DDL with its own last
\* change.
THEOREM SpecSeesOwnDdl == Spec => []SeesOwnDdl
  <1>1. Inv => SeesOwnDdl
    BY DEF Inv, ResultsOwn, SeesOwnDdl
  <1> QED
    BY <1>1, SpecInv, PTL

\* Whatever gives an entry up retires it while a statement points to it.
THEOREM SpecPointersStayGood == Spec => []PointersStayGood
  <1>1. Inv => PointersStayGood
    BY DEF Inv
  <1> QED
    BY <1>1, SpecInv, PTL

=============================================================================
