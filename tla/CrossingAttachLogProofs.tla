----------------------- MODULE CrossingAttachLogProofs -----------------------
(***************************************************************************)
(* Whoever looks a table up through an attach sees the catalog of          *)
(* CrossingCatalog: the attach with its log of the commits implements it,  *)
(* for any clients, schemas and entries and any changes of the source.     *)
(***************************************************************************)
EXTENDS CrossingAttachLog, CrossingAttachProofs

-----------------------------------------------------------------------------
\* The log ends with what is committed, and has all that is remembered.

\* What is in the log stays in it while neither changes.
LEMMA SameLog ==
  ASSUME Recorded, Logged, committed' = committed
  PROVE  log' = log
  <1>1. log' = [s \in Schemas |-> log[s]]
    BY DEF Logged
  <1> QED
    BY <1>1 DEF Recorded

\* What a step remembers anew is a reply, or what is committed.
LEMMA RecordedFrame ==
  ASSUME Recorded, Logged, committed' = committed,
         \A s \in Schemas : served'[s].tables # None =>
            \/ served'[s].tables = served[s].tables
            \/ \E c \in Clients : /\ pc[c] \in Replied /\ at[c] = s
                                  /\ served'[s].tables = fetched[c],
         \A s \in Schemas : cache'[s] # None =>
            \/ cache'[s] = cache[s]
            \/ \E c \in Clients : /\ pc[c] \in Replied /\ at[c] = s
                                  /\ cache'[s].snapshot = fetched[c],
         \A c \in Clients : pc'[c] \in Replied =>
            /\ at'[c] = at[c] /\ at[c] \in Schemas
            /\ \/ pc[c] \in Replied /\ fetched'[c] = fetched[c]
               \/ fetched'[c] = committed[at[c]]
  PROVE  Recorded'
  <1>1. log' = log
    BY SameLog
  <1>2. \A s, x : InLog(s, x)' <=> InLog(s, x)
    BY <1>1 DEF InLog
  <1>3. ASSUME NEW s \in Schemas, served'[s].tables # None PROVE InLog(s, served'[s].tables)
    BY <1>3 DEF Recorded
  <1>4. ASSUME NEW s \in Schemas, cache'[s] # None PROVE InLog(s, cache'[s].snapshot)
    BY <1>4 DEF Recorded
  <1>5. ASSUME NEW c \in Clients, pc'[c] \in Replied PROVE InLog(at'[c], fetched'[c])
    BY <1>5 DEF Recorded
  <1> QED
    BY <1>1, <1>2, <1>3, <1>4, <1>5 DEF Recorded, InLog

\* A step that neither asks the source nor stores what it replied.
LEMMA RememberedFrame ==
  ASSUME Inv, Recorded, Logged, UNCHANGED <<committed, cache, fetched>>,
         served' = served \/ served' = RefreshedListings,
         \A c \in Clients : pc'[c] \in Replied => pc[c] \in Replied /\ at'[c] = at[c]
  PROVE  Recorded'
  <1>1. \A s \in Schemas : served'[s].tables # None => served'[s].tables = served[s].tables
    BY RefreshedIs DEF Inv
  <1>2. \A c \in Clients : at[c] \in Schemas
    BY DEF Inv, TypeOK
  <1> QED
    BY <1>1, <1>2, RecordedFrame

\* Where a lookup is after it returned or went on.
LEMMA GoesTo ==
  ASSUME NEW c, NEW addresses, NEW x, NEW where
  PROVE  /\ Return(c, addresses, x) =>
               /\ \E q \in {"idle", "tables", "ddl"} : pc' = [pc EXCEPT ![c] = q]
               /\ \E y : result' = [result EXCEPT ![c] = y]
         /\ Continue(c, where) => pc' = [pc EXCEPT ![c] = where] /\ result' = result
  BY DEF Return, AfterLookup, Continue

\* What a lookup stores is the reply it was given; its other steps store nothing.
LEMMA LookupRecorded ==
  ASSUME Inv, Recorded, Logged, NEW c \in Clients, Lookup(c)
  PROVE  Recorded'
  <1> USE DEF Inv, TypeOK, Replied, sourceVars, listingVars, cacheVars, slotVars, locks, clientVars, history
  <1>1. CASE LookupOwn(c)
    <2>1. UNCHANGED <<committed, served, cache, fetched, at>>
      BY <1>1 DEF LookupOwn
    <2>2. \E q \in {"idle", "tables", "ddl"} : pc' = [pc EXCEPT ![c] = q]
      BY <1>1, GoesTo DEF LookupOwn
    <2> QED
      BY <2>1, <2>2, RememberedFrame
  <1>2. CASE ListTables(c)
    <2>1. UNCHANGED <<committed, cache, fetched, at>> /\ served' = RefreshedListings
      BY <1>2 DEF ListTables
    <2>2. \E q \in {"idle", "tables", "ddl", "listing", "state"} : pc' = [pc EXCEPT ![c] = q]
      BY <1>2, GoesTo DEF ListTables
    <2> QED
      BY <2>1, <2>2, RememberedFrame
  <1>3. CASE StoreTables(c)
    <2>1. UNCHANGED <<committed, cache, at>> /\ pc[c] = "listed"
      BY <1>3 DEF StoreTables
    <2>2. \A s \in Schemas : served'[s].tables = served[s].tables
                            \/ (s = at[c] /\ served'[s].tables = fetched[c])
      BY <1>3 DEF StoreTables, Listings
    <2>3. \E q \in {"idle", "tables", "ddl", "state"} : pc' = [pc EXCEPT ![c] = q]
      BY <1>3, GoesTo DEF StoreTables
    <2>4. \A d \in Clients : pc'[d] \in Replied => pc[d] \in Replied /\ fetched'[d] = fetched[d]
      BY <1>3, <2>3 DEF StoreTables
    <2> QED
      BY <2>1, <2>2, <2>4, RecordedFrame
  <1>4. CASE StateOf(c)
    BY <1>4, RememberedFrame DEF StateOf
  <1>5. CASE SearchCache(c)
    <2>1. UNCHANGED <<committed, served, fetched, at>>
      BY <1>5 DEF SearchCache
    <2>2. \A s \in Schemas : cache'[s] # None => cache'[s] = cache[s]
      BY <1>5 DEF SearchCache
    <2>3. \A d \in Clients : pc'[d] \in Replied => pc[d] \in Replied
      BY <1>5 DEF SearchCache, Continue, Return, AfterLookup
    <2> QED
      BY <2>1, <2>2, <2>3, RecordedFrame
  <1>6. CASE StoreEntry(c)
    <2>1. UNCHANGED <<committed, served, at>> /\ pc[c] = "described"
      BY <1>6 DEF StoreEntry
    <2>2. fetched[c] \in Snapshots
      BY <1>6 DEF StoreEntry, RepliesCommitted
    <2>3. NewEntry(c, fetched[c]).snapshot = fetched[c]
      BY <1>6, <2>2, NewEntryIs DEF StoreEntry
    <2>4. \A s \in Schemas : cache'[s] = cache[s] \/ (s = at[c] /\ cache'[s].snapshot = fetched[c])
      BY <1>6, <2>3 DEF StoreEntry
    <2>5. \A d \in Clients : pc'[d] \in Replied => pc[d] \in Replied /\ fetched'[d] = fetched[d]
      BY <1>6 DEF StoreEntry, Return, AfterLookup
    <2> QED
      BY <2>1, <2>4, <2>5, RecordedFrame
  <1> QED
    BY <1>1, <1>2, <1>3, <1>4, <1>5, <1>6 DEF Lookup

\* A DDL stores nothing of the table, and what it alters only its transaction sees.
LEMMA DdlStepRecorded ==
  ASSUME Inv, Recorded, Logged, NEW c \in Clients, DdlStep(c)
  PROVE  Recorded'
  <1> USE DEF Inv, TypeOK, Replied, sourceVars, listingVars, cacheVars, slotVars, locks, clientVars, history
  <1>1. CASE DescribeSchema(c)
    BY <1>1, RememberedFrame DEF DescribeSchema, Authorized
  <1>2. CASE StoreSchema(c)
    <2>1. UNCHANGED <<committed, cache, at>>
      BY <1>2 DEF StoreSchema
    <2>2. \A s \in Schemas : served'[s].tables = served[s].tables
      BY <1>2 DEF StoreSchema, Listings
    <2>3. \A d \in Clients : pc'[d] \in Replied => pc[d] \in Replied /\ fetched'[d] = fetched[d]
      BY <1>2 DEF StoreSchema, Authorized
    <2> QED
      BY <2>1, <2>2, <2>3, RecordedFrame
  <1>3. CASE Ddl(c)
    BY <1>3, RememberedFrame DEF Ddl
  <1> QED
    BY <1>1, <1>2, <1>3 DEF DdlStep

\* The source replies with what is committed, which is the end of the log.
LEMMA SourceRepliesRecorded ==
  ASSUME Inv, Recorded, Logged, NEW c \in Clients, SourceReplies(c)
  PROVE  Recorded'
  <1> USE DEF Inv, TypeOK, Replied, sourceVars, listingVars, cacheVars, slotVars, locks, clientVars, history
  <1>1. UNCHANGED <<committed, served, cache, at>>
    BY DEF SourceReplies, SourceLists, SourceDescribes
  <1>2. \A d \in Clients : pc'[d] \in Replied =>
           (pc[d] \in Replied /\ fetched'[d] = fetched[d]) \/ fetched'[d] = committed[at[d]]
    BY DEF SourceReplies, SourceLists, SourceDescribes
  <1> QED
    BY <1>1, <1>2, RecordedFrame

\* A step that commits: each log keeps what it had, and ends with what is committed.
LEMMA CommitsRecorded ==
  ASSUME Inv, Recorded, Logged, UNCHANGED <<served, cache, fetched, at>>,
         \A c \in Clients : pc'[c] \in Replied => pc[c] \in Replied,
         \A s \in Schemas : \/ committed'[s] = committed[s]
                           \/ \E e \in BOOLEAN : committed'[s] = [by |-> None, n |-> committed[s].n + 1, exists |-> e]
  PROVE  Recorded'
  <1>1. ASSUME NEW s \in Schemas
        PROVE  /\ log'[s] \in Seq(BOOLEAN) /\ Len(log'[s]) = committed'[s].n + 1
               /\ InLog(s, committed[s])' /\ (\A x : InLog(s, x) => InLog(s, x)')
    <2>1. log[s] \in Seq(BOOLEAN) /\ Len(log[s]) = committed[s].n + 1 /\ committed[s].n \in Nat
      BY SnapshotIs DEF Inv, TypeOK, Recorded
    <2>2. CASE committed'[s] = committed[s]
      <3>1. log'[s] = log[s]
        BY <2>2 DEF Logged
      <3> QED
        BY <2>1, <2>2, <3>1 DEF Recorded, InLog
    <2>3. ASSUME NEW e \in BOOLEAN,
                 committed'[s] = [by |-> None, n |-> committed[s].n + 1, exists |-> e]
          PROVE  /\ log'[s] \in Seq(BOOLEAN) /\ Len(log'[s]) = committed'[s].n + 1
                 /\ InLog(s, committed[s])' /\ (\A x : InLog(s, x) => InLog(s, x)')
      <3>1. committed'[s].n = committed[s].n + 1 /\ committed'[s].exists = e
        BY <2>3
      <3>2. log'[s] = Append(log[s], e)
        BY <2>1, <3>1 DEF Logged
      <3>3. /\ log'[s] \in Seq(BOOLEAN) /\ Len(log'[s]) = Len(log[s]) + 1
            /\ log'[s][Len(log[s]) + 1] = e
            /\ \A i \in DOMAIN log[s] : i \in DOMAIN log'[s] /\ log'[s][i] = log[s][i]
            /\ DOMAIN log'[s] = 1 .. Len(log[s]) + 1
        BY <2>1, <3>2
      <3>4. InLog(s, committed[s])'
        BY <2>1, <3>1, <3>3 DEF InLog
      <3>5. ASSUME NEW x, InLog(s, x) PROVE InLog(s, x)'
        BY <3>3, <3>5 DEF InLog
      <3> QED
        BY <2>1, <3>1, <3>3, <3>4, <3>5
    <2> QED
      BY <2>2, <2>3
  <1>2. log' \in [Schemas -> Seq(BOOLEAN)]
    BY <1>1 DEF Logged
  <1>3. \A c \in Clients : at[c] \in Schemas
    BY DEF Inv, TypeOK
  <1> QED
    BY <1>1, <1>2, <1>3 DEF Recorded

\* Of the steps that end a transaction only the commit changes the log.
LEMMA ReleaseRecorded ==
  ASSUME Inv, Recorded, Logged, NEW c \in Clients, Release(c)
  PROVE  Recorded'
  <1> USE DEF Inv, TypeOK, Replied, sourceVars, listingVars, cacheVars, slotVars, locks, clientVars, history
  <1>1. CASE RetireStateOf(c)
    BY <1>1, RememberedFrame DEF RetireStateOf
  <1>2. CASE RetireOverlay(c)
    BY <1>2, RememberedFrame DEF RetireOverlay
  <1>3. CASE Resolve(c)
    <2>1. UNCHANGED <<served, cache, fetched, at>>
      BY <1>3 DEF Resolve
    <2>2. \A d \in Clients : pc'[d] \in Replied => pc[d] \in Replied
      BY <1>3 DEF Resolve
    <2>3. \A s \in Schemas : private[c][s] # None => private[c][s].exists \in BOOLEAN
      BY SnapshotIs
    <2>4. \A s \in Schemas :
             \/ committed'[s] = committed[s]
             \/ \E e \in BOOLEAN : committed'[s] = [by |-> None, n |-> committed[s].n + 1, exists |-> e]
      BY <1>3, <2>3 DEF Resolve
    <2> QED
      BY <2>1, <2>2, <2>4, CommitsRecorded
  <1>4. CASE Settle(c)
    BY <1>4, RememberedFrame DEF Settle
  <1>5. CASE Settled(c)
    BY <1>5, RememberedFrame DEF Settled
  <1> QED
    BY <1>1, <1>2, <1>3, <1>4, <1>5 DEF Release

\* Whatever a client starts with has fetched nothing yet.
LEMMA StartsRecorded ==
  ASSUME Inv, Recorded, Logged, NEW c \in Clients, Starts(c)
  PROVE  Recorded'
  <1> USE DEF Inv, TypeOK, Replied, sourceVars, listingVars, cacheVars, slotVars, locks, clientVars, history
  <1>1. UNCHANGED <<committed, served, cache, fetched>>
    BY DEF Starts, StartLookup, StartDdl, StartRelease, EndStatement
  <1>2. \A d \in Clients : pc'[d] \in Replied => pc[d] \in Replied /\ at'[d] = at[d]
    BY DEF Starts, StartLookup, StartDdl, StartRelease, EndStatement
  <1> QED
    BY <1>1, <1>2, RememberedFrame

\* Somebody refreshes, or changes the source.
LEMMA OthersRecorded ==
  ASSUME Inv, Recorded, Logged,
         (\E s \in Schemas : RefreshSchema(s) \/ SourceChanges(s)) \/ RefreshAll
  PROVE  Recorded'
  <1> USE DEF sourceVars, listingVars, cacheVars, slotVars, locks, clientVars, history
  <1>1. ASSUME NEW s \in Schemas, RefreshSchema(s) PROVE Recorded'
    BY <1>1, RememberedFrame DEF RefreshSchema
  <1>2. ASSUME NEW s \in Schemas, SourceChanges(s) PROVE Recorded'
    BY <1>2, CommitsRecorded DEF SourceChanges, Inv, TypeOK
  <1>3. CASE RefreshAll
    BY <1>3, RememberedFrame DEF RefreshAll
  <1> QED
    BY <1>1, <1>2, <1>3

\* A DDL comes to its first lookup without an answer: it had none when it started.
LEMMA NextNoAnswerYet ==
  ASSUME Inv, NoAnswerYet, Next
  PROVE  NoAnswerYet'
  <1> USE DEF NoAnswerYet, sourceVars, listingVars, cacheVars, slotVars, locks, clientVars, history
  <1> DEFINE Before == {"authorize", "schema", "schema_replied"}
  <1>1. ASSUME NEW c \in Clients, Lookup(c) PROVE NoAnswerYet'
    <2>1. \E q \in PCs \ Before : pc' = [pc EXCEPT ![c] = q]
      <3> USE GoesTo DEF PCs
      <3>1. CASE LookupOwn(c)    BY <3>1 DEF LookupOwn
      <3>2. CASE ListTables(c)   BY <3>2 DEF ListTables
      <3>3. CASE StoreTables(c)  BY <3>3 DEF StoreTables
      <3>4. CASE StateOf(c)      BY <3>4 DEF StateOf
      <3>5. CASE SearchCache(c)
        <4>1. \/ Return(c, {cache[at[c]].addr}, cache[at[c]].snapshot)
              \/ Continue(c, "describe")
          BY <3>5 DEF SearchCache
        <4> QED
          BY <4>1
      <3>6. CASE StoreEntry(c)   BY <3>6 DEF StoreEntry
      <3> QED
        BY <1>1, <3>1, <3>2, <3>3, <3>4, <3>5, <3>6 DEF Lookup
    <2>2. result' = result \/ \E y : result' = [result EXCEPT ![c] = y]
      BY <1>1, GoesTo DEF Lookup, LookupOwn, ListTables, StoreTables, StateOf, SearchCache, StoreEntry
    <2> QED
      BY <2>1, <2>2 DEF Inv, TypeOK
  <1>2. ASSUME NEW c \in Clients, DdlStep(c) PROVE NoAnswerYet'
    BY <1>2 DEF DdlStep, DescribeSchema, StoreSchema, Ddl, Authorized, Inv, TypeOK
  <1>3. ASSUME NEW c \in Clients, Release(c) PROVE NoAnswerYet'
    BY <1>3 DEF Release, RetireStateOf, RetireOverlay, Resolve, Settle, Settled, Inv, TypeOK
  <1>4. ASSUME NEW c \in Clients, SourceReplies(c) PROVE NoAnswerYet'
    BY <1>4 DEF SourceReplies, SourceLists, SourceDescribes, Inv, TypeOK
  <1>5. ASSUME NEW c \in Clients, Starts(c) PROVE NoAnswerYet'
    BY <1>5 DEF Starts, StartLookup, StartDdl, StartRelease, EndStatement, Inv, TypeOK
  <1>6. ASSUME NEW s \in Schemas, RefreshSchema(s) \/ SourceChanges(s) PROVE NoAnswerYet'
    BY <1>6 DEF RefreshSchema, SourceChanges
  <1>7. CASE RefreshAll
    BY <1>7 DEF RefreshAll
  <1> QED
    BY <1>1, <1>2, <1>3, <1>4, <1>5, <1>6, <1>7 DEF Next, Goes

\* Nothing is remembered of the one state that is in each log.
LEMMA InitLogInv == LogInit => LogInv
  <1> SUFFICES ASSUME LogInit PROVE LogInv
    OBVIOUS
  <1>1. Inv
    BY InitInv DEF LogInit
  <1>2. /\ log = [s \in Schemas |-> <<TRUE>>]
        /\ committed = [s \in Schemas |-> [by |-> None, n |-> 0, exists |-> TRUE]]
        /\ served = [s \in Schemas |-> Unlisted] /\ cache = [s \in Schemas |-> None]
        /\ pc = [c \in Clients |-> "idle"]
    BY DEF LogInit, Init
  <1>3. Recorded
    <2>1. <<TRUE>> \in Seq(BOOLEAN) /\ Len(<<TRUE>>) = 1 /\ 1 \in DOMAIN <<TRUE>> /\ <<TRUE>>[1] = TRUE
      OBVIOUS
    <2>2. PICK l \in Seq(BOOLEAN) : l = <<TRUE>>
      BY <2>1
    <2>3. ASSUME NEW s \in Schemas
          PROVE  /\ Len(log[s]) = committed[s].n + 1 /\ InLog(s, committed[s])
                 /\ served[s].tables = None /\ cache[s] = None
      <3>1. log[s] = l /\ committed[s].n = 0 /\ committed[s].exists = TRUE
        BY <1>2, <2>2
      <3>2. Len(l) = 1 /\ 1 \in DOMAIN l /\ l[1] = TRUE
        BY <2>1, <2>2
      <3>3. served[s].tables = None /\ cache[s] = None
        BY <1>2, UnlistedIs
      <3>4. committed[s].n + 1 = 1
        BY <3>1
      <3>5. InLog(s, committed[s])
        BY <3>1, <3>2, <3>4, Zenon DEF InLog
      <3> QED
        BY <3>1, <3>2, <3>3, <3>4, <3>5
    <2>4. log \in [Schemas -> Seq(BOOLEAN)]
      BY <1>2, <2>2
    <2> QED
      BY <1>2, <2>3, <2>4 DEF Recorded, Replied
  <1>4. NoAnswerYet
    BY <1>2 DEF NoAnswerYet
  <1> QED
    BY <1>1, <1>3, <1>4 DEF LogInv

\* Every step keeps the log and what is remembered in step.
LEMMA NextLogInv ==
  ASSUME LogInv, [LogNext]_<<vars, log>>
  PROVE  LogInv'
  <1>1. Inv'
    BY NextInv DEF LogInv, LogNext
  <1>2. CASE LogNext
    <2>1. Recorded'
      BY <1>2, LookupRecorded, DdlStepRecorded, SourceRepliesRecorded, ReleaseRecorded,
         StartsRecorded, OthersRecorded DEF LogInv, LogNext, Next, Goes
    <2>2. NoAnswerYet'
      BY <1>2, NextNoAnswerYet DEF LogInv, LogNext
    <2> QED
      BY <1>1, <2>1, <2>2 DEF LogInv
  <1>3. CASE UNCHANGED <<vars, log>>
    <2>1. UNCHANGED <<log, committed, served, cache, fetched, pc, at, result>>
      BY <1>3 DEF vars, sourceVars, listingVars, cacheVars, clientVars
    <2> QED
      BY <1>1, <2>1 DEF LogInv, Recorded, InLog, NoAnswerYet
  <1> QED
    BY <1>2, <1>3

\* The log has a state for each change that was committed and keeps it, and whatever
\* an attach has listed, described or just been told of a table is a state it was in.
THEOREM SpecLogInv == LogSpec => []LogInv
  BY InitLogInv, NextLogInv, PTL DEF LogSpec

-----------------------------------------------------------------------------
\* How the steps of an attach map to those of the catalog.

\* The lookup a client is inside, by where it is.
LEMMA AskingIs ==
  ASSUME Inv, NEW c \in Clients
  PROVE  /\ pc[c] \in Looking =>
               /\ Asking[c] # None
               /\ Asking[c].schema = at[c] /\ Asking[c].floor = floor[c] /\ Asking[c].pin = pinning[c]
         /\ pc[c] \notin Looking => Asking[c] = None
  <1>1. PICK a : a = [schema |-> at[c], floor |-> floor[c], pin |-> pinning[c]]
    OBVIOUS
  <1>2. a # None
    BY <1>1, LookupAssumption DEF Inv, TypeOK
  <1>3. a.schema = at[c] /\ a.floor = floor[c] /\ a.pin = pinning[c]
    BY <1>1
  <1>4. Asking[c] = IF pc[c] \in Looking THEN a ELSE None
    BY <1>1 DEF Asking
  <1> QED
    BY <1>2, <1>3, <1>4

\* A step of one client changes the lookup of no other.
LEMMA AskingExcept ==
  ASSUME NEW c \in Clients, NEW a,
         \A d \in Clients : d # c => UNCHANGED <<pc[d], at[d], floor[d], pinning[d]>>,
         Asking'[c] = a
  PROVE  Asking' = [Asking EXCEPT ![c] = a]
  BY DEF Asking

\* A step that gives one client a result changes that client's answer.
LEMMA AnsweredExcept ==
  ASSUME NEW c \in Clients, NEW y, Inv, result' = [result EXCEPT ![c] = y]
  PROVE  Answered' = [Answered EXCEPT ![c] = IF y = None THEN None ELSE y.snapshot]
  BY DEF Answered, Inv, TypeOK

\* Without a new result there is no new answer.
LEMMA AnsweredSame ==
  ASSUME result' = result
  PROVE  Answered' = Answered
  BY DEF Answered

\* The last change in the log is the one committed.
LEMMA LastIs ==
  ASSUME Inv, Recorded, NEW s \in Schemas
  PROVE  /\ Catalog!Last(s) = committed[s].n
         /\ log[s][Len(log[s])] = committed[s].exists
  <1>1. Len(log[s]) = committed[s].n + 1 /\ committed[s].n \in Nat
    BY SnapshotIs DEF Inv, TypeOK, Recorded
  <1> QED
    BY <1>1 DEF Recorded, InLog, Catalog!Last

\* A lookup with its own view of the schema is of a transaction that changed it.
LEMMA SeesOwnIs ==
  ASSUME Inv, NEW c \in Clients, pc[c] \in Looking
  PROVE  Catalog!SeesOwn(c) <=> SeesOwn(c)
  <1>1. Asking[c].schema = at[c] /\ Asking[c].pin = pinning[c]
    BY AskingIs
  <1>2. OverlayOwn(c, at[c])
    BY DEF Inv, TypeOK, OverlaysOwn
  <1>3. overlay[c][at[c]] = None <=> private[c][at[c]] = None
    BY <1>2 DEF OverlayOwn, Looking, Releasing
  <1> QED
    BY <1>1, <1>3 DEF SeesOwn, Catalog!SeesOwn

\* What is remembered of the table and is recent enough is an answer.
LEMMA SharedAnswer ==
  ASSUME LogInv, NEW c \in Clients, pc[c] \in Looking, ~SeesOwn(c),
         NEW x \in Snapshots, x.by = None, x.n >= floor[c], InLog(at[c], x)
  PROVE  x \in Catalog!Answers(c)
  <1> DEFINE s == at[c]
  <1>1. Asking[c].schema = s /\ Asking[c].floor = floor[c]
    BY AskingIs DEF LogInv
  <1>2. ~Catalog!SeesOwn(c)
    BY SeesOwnIs DEF LogInv
  <1>3. /\ s \in Schemas /\ floor[c] \in Nat /\ x.n \in Nat
        /\ log[s] \in Seq(BOOLEAN) /\ Len(log[s]) \in Nat
    BY SnapshotIs DEF LogInv, Inv, TypeOK, Recorded
  <1>4. x.n \in floor[c] .. Catalog!Last(s)
    BY <1>3 DEF InLog, Catalog!Last
  <1>5. x = [by |-> None, n |-> x.n, exists |-> log[s][x.n + 1]]
    BY DEF Snapshots, InLog
  <1> QED
    BY <1>1, <1>2, <1>4, <1>5 DEF Catalog!Answers

\* A lookup that sees its own transaction's changes has one answer, the last of them.
LEMMA OwnAnswer ==
  ASSUME Inv, NEW c \in Clients, pc[c] \in Looking, SeesOwn(c)
  PROVE  private[c][at[c]] \in Catalog!Answers(c)
  BY AskingIs, SeesOwnIs DEF Catalog!Answers

\* A lookup that returns one of its answers.
LEMMA ReturnAnswers ==
  ASSUME Inv, NEW c \in Clients, NEW addresses \in SUBSET Entries, NEW x \in Snapshots,
         Return(c, addresses, x), pc[c] \in Looking, x \in Catalog!Answers(c),
         UNCHANGED <<at, private, promised, owed, log>>
  PROVE  Catalog!Answer(c)
  <1> USE DEF Inv, TypeOK
  <1>1. Asking[c] # None /\ Asking[c].schema = at[c]
    BY AskingIs
  <1>2. Answered' = [Answered EXCEPT ![c] = x]
    <2>1. result' = [result EXCEPT ![c] = Answer(c, x)]
      BY ReturnIs
    <2>2. Answer(c, x) # None /\ Answer(c, x).snapshot = x
      BY AnswerIs
    <2> QED
      BY <2>1, <2>2, AnsweredExcept
  <1>3. PICK q \in PCs, p \in BOOLEAN, v \in Verbs \cup {None}, m \in Nat :
           /\ GoesOnAt(c, q, p, v, m)
           /\ q \in {"idle", "ddl"} \/ (q = "tables" /\ p = TRUE /\ m = promised[at[c]])
    <2>1. "idle" \in PCs /\ "tables" \in PCs /\ "ddl" \in PCs /\ promised[at[c]] \in Nat
      BY DEF PCs
    <2>2. CASE pc' = [pc EXCEPT ![c] = "idle"] /\ verb' = [verb EXCEPT ![c] = None]
               /\ UNCHANGED <<pinning, floor>>
      <3>1. GoesOnAt(c, "idle", pinning[c], None, floor[c])
        BY <2>2 DEF GoesOnAt
      <3> QED
        BY <2>1, <3>1
    <2>3. CASE pc' = [pc EXCEPT ![c] = "tables"] /\ BeginLookup(c, at[c], TRUE) /\ UNCHANGED verb
      <3>1. GoesOnAt(c, "tables", TRUE, verb[c], promised[at[c]])
        BY <2>3 DEF GoesOnAt, BeginLookup
      <3> QED
        BY <2>1, <3>1
    <2>4. CASE pc' = [pc EXCEPT ![c] = "ddl"] /\ UNCHANGED <<verb, pinning, floor>>
      <3>1. GoesOnAt(c, "ddl", pinning[c], verb[c], floor[c])
        BY <2>4 DEF GoesOnAt
      <3> QED
        BY <2>1, <3>1
    <2> QED
      BY <2>2, <2>3, <2>4 DEF Return, AfterLookup
  <1>4. \A d \in Clients : d # c => UNCHANGED <<pc[d], at[d], floor[d], pinning[d]>>
    BY <1>3 DEF GoesOnAt
  <1>5. Asking'[c] \in {None, Catalog!Lookup(at[c], TRUE)}
    BY <1>3 DEF GoesOnAt, Asking, Looking, Catalog!Lookup
  <1>6. Asking' = [Asking EXCEPT ![c] = Asking'[c]]
    BY <1>4, AskingExcept
  <1> QED
    BY <1>1, <1>2, <1>5, <1>6 DEF Catalog!Answer

\* A step within a lookup, or outside all of them.
LEMMA HiddenStep ==
  ASSUME UNCHANGED <<private, promised, owed, log, result, at, floor, pinning>>,
         \A d \in Clients : pc'[d] \in Looking <=> pc[d] \in Looking
  PROVE  UNCHANGED Catalog!vars
  <1>1. Asking' = Asking
    BY DEF Asking
  <1> QED
    BY <1>1, AnsweredSame DEF Catalog!vars

\* A lookup that begins.
LEMMA AskStep ==
  ASSUME Inv, NEW c \in Clients, pc[c] \notin Looking, NEW pin \in BOOLEAN,
         pc' = [pc EXCEPT ![c] = "tables"], at'[c] \in Schemas, BeginLookup(c, at'[c], pin),
         \A d \in Clients : d # c => at'[d] = at[d],
         result' = [result EXCEPT ![c] = None],
         UNCHANGED <<private, promised, owed, log>>
  PROVE  Catalog!Ask(c)
  <1> USE DEF Inv, TypeOK
  <1>1. Asking[c] = None
    BY AskingIs
  <1>2. \A d \in Clients : d # c => UNCHANGED <<pc[d], at[d], floor[d], pinning[d]>>
    BY DEF BeginLookup
  <1>3. Asking'[c] = Catalog!Lookup(at'[c], pin)
    BY DEF Asking, Looking, BeginLookup, Catalog!Lookup
  <1>4. Asking' = [Asking EXCEPT ![c] = Catalog!Lookup(at'[c], pin)]
    BY <1>2, <1>3, AskingExcept
  <1>5. Answered' = [Answered EXCEPT ![c] = None]
    BY AnsweredExcept
  <1> QED
    BY <1>1, <1>4, <1>5 DEF Catalog!Ask

\* A statement outside all lookups that forgets its last answer.
LEMMA ForgetStep ==
  ASSUME Inv, NEW c \in Clients, pc[c] \notin Looking, pc'[c] \notin Looking,
         \A d \in Clients : d # c => UNCHANGED <<pc[d], at[d], floor[d], pinning[d]>>,
         result' = [result EXCEPT ![c] = None],
         UNCHANGED <<private, promised, owed, log>>
  PROVE  Catalog!Forget(c)
  <1>1. Asking[c] = None
    BY AskingIs
  <1>2. Asking'[c] = None
    BY DEF Asking
  <1>3. Asking' = [Asking EXCEPT ![c] = None]
    BY <1>2, AskingExcept
  <1>4. Asking' = Asking
    BY <1>1, <1>3 DEF Asking
  <1>5. Answered' = [Answered EXCEPT ![c] = None]
    BY AnsweredExcept
  <1> QED
    BY <1>1, <1>4, <1>5 DEF Catalog!Forget

\* A lookup in an overlay answers with its transaction's last change.
LEMMA LookupOwnMaps ==
  ASSUME LogInv, NEW c \in Clients, LookupOwn(c), log' = log
  PROVE  Catalog!Answer(c)
  <1> USE DEF LogInv, Inv, TypeOK
  <1>1. /\ pc[c] \in Looking /\ SeesOwn(c) /\ OverlayOwn(c, at[c]) /\ overlay[c][at[c]] # None
    BY DEF LookupOwn, SeesOwn, OverlaysOwn, Looking
  <1>2. PICK o \in Overlays : o = overlay[c][at[c]]
    BY <1>1
  <1>3. PICK x \in Snapshots : /\ x = private[c][at[c]]
                               /\ o.tables # None => o.tables = x
                               /\ o.cache # None => o.cache.snapshot = x
    BY <1>1, <1>2 DEF OverlayOwn
  <1>4. o.tables \in Snapshots \cup {None} /\ o.cache \in Cached \cup {None}
    BY OverlayIs
  <1>5. UNCHANGED <<at, private, promised, owed>>
    BY DEF LookupOwn, sourceVars
  <1>6. \E addresses \in SUBSET Entries : Return(c, addresses, x)
    <2>1. CASE ~x.exists
      <3>1. Return(c, {}, x)
        BY <1>2, <1>3, <2>1 DEF LookupOwn
      <3> QED
        BY <3>1
    <2>2. CASE x.exists /\ o.cache # None /\ o.cache.owner = owner[c]
      <3>1. Return(c, {o.cache.addr}, o.cache.snapshot)
        BY <1>2, <1>3, <2>2 DEF LookupOwn
      <3>2. {o.cache.addr} \in SUBSET Entries /\ o.cache.snapshot = x
        BY <1>3, <1>4, <2>2, CachedIs
      <3> QED
        BY <3>1, <3>2
    <2>3. CASE x.exists /\ ~(o.cache # None /\ o.cache.owner = owner[c])
      <3>1. HasRoom /\ Return(c, {NewEntry(c, x).addr}, NewEntry(c, x).snapshot)
        BY <1>2, <1>3, <2>3 DEF LookupOwn
      <3>2. NewEntry(c, x) \in Cached /\ NewEntry(c, x).snapshot = x
        BY <3>1, NewEntryIs
      <3>3. {NewEntry(c, x).addr} \in SUBSET Entries
        BY <3>2, CachedIs
      <3> QED
        BY <3>1, <3>2, <3>3
    <2> QED
      BY <2>1, <2>2, <2>3
  <1>7. x \in Catalog!Answers(c)
    BY <1>1, <1>3, OwnAnswer
  <1> QED
    BY <1>1, <1>5, <1>6, <1>7, ReturnAnswers

\* A lookup answers that there is no table if a fresh listing has none, or goes on.
LEMMA ListTablesMaps ==
  ASSUME LogInv, NEW c \in Clients, ListTables(c), log' = log
  PROVE  Catalog!Answer(c) \/ UNCHANGED Catalog!vars
  <1> USE DEF LogInv, Inv, TypeOK
  <1>1. pc[c] = "tables" /\ ~SeesOwn(c) /\ UNCHANGED <<at, private, promised, owed>>
    BY DEF ListTables, sourceVars
  <1>2. CASE Continue(c, "listing") \/ Continue(c, "state")
    <2>1. UNCHANGED <<result, floor, pinning>>
      BY <1>2 DEF Continue
    <2>2. \A d \in Clients : pc'[d] \in Looking <=> pc[d] \in Looking
      BY <1>1, <1>2 DEF Continue, Looking
    <2> QED
      BY <1>1, <2>1, <2>2, HiddenStep
  <1>3. ASSUME NEW x, x = RefreshedListings[at[c]].tables, x # None, Return(c, {}, x)
        PROVE  Catalog!Answer(c)
    <2>1. x = served[at[c]].tables /\ x \in Snapshots /\ x.n \in Nat /\ at[c] \notin Queued
      BY <1>3, RefreshedIs, ListingIs, SnapshotIs
    <2>2. x.by = None /\ InLog(at[c], x)
      BY <1>3, <2>1 DEF OthersIsolated, Recorded
    <2>3. x.n >= floor[c]
      <3>1. floor[c] \in Nat /\ promised[at[c]] \in Nat
        OBVIOUS
      <3>2. ~(x.n < promised[at[c]])
        BY <1>3, <2>1 DEF PromisesKept, Forgotten
      <3>3. floor[c] <= promised[at[c]]
        BY <1>1 DEF CountsBounded
      <3> QED
        BY <2>1, <3>1, <3>2, <3>3
    <2>4. pc[c] \in Looking
      BY <1>1 DEF Looking
    <2>5. x \in Catalog!Answers(c)
      BY <1>1, <2>1, <2>2, <2>3, <2>4, SharedAnswer
    <2> QED
      BY <1>1, <1>3, <2>1, <2>4, <2>5, ReturnAnswers
  <1> QED
    BY <1>2, <1>3 DEF ListTables

\* The same of a listing that was just fetched and is stored.
LEMMA StoreTablesMaps ==
  ASSUME LogInv, NEW c \in Clients, StoreTables(c), log' = log
  PROVE  Catalog!Answer(c) \/ UNCHANGED Catalog!vars
  <1> USE DEF LogInv, Inv, TypeOK
  <1>1. pc[c] = "listed" /\ UNCHANGED <<at, private, promised, owed>>
    BY DEF StoreTables, sourceVars
  <1>2. CASE Continue(c, "state")
    <2>1. UNCHANGED <<result, floor, pinning>>
      BY <1>2 DEF Continue
    <2>2. \A d \in Clients : pc'[d] \in Looking <=> pc[d] \in Looking
      BY <1>1, <1>2 DEF Continue, Looking
    <2> QED
      BY <1>1, <2>1, <2>2, HiddenStep
  <1>3. CASE Return(c, {}, fetched[c])
    <2>1. /\ fetched[c] \in Snapshots /\ fetched[c].by = None /\ fetched[c].n >= floor[c]
          /\ InLog(at[c], fetched[c])
      BY <1>1 DEF RepliesCommitted, Recorded, Replied
    <2>2. pc[c] \in Looking /\ ~SeesOwn(c)
      BY <1>1 DEF ResultsOwn, SharedLookup, Looking
    <2>3. fetched[c] \in Catalog!Answers(c)
      BY <2>1, <2>2, SharedAnswer
    <2> QED
      BY <1>1, <1>3, <2>1, <2>2, <2>3, ReturnAnswers
  <1> QED
    BY <1>2, <1>3 DEF StoreTables

\* An entry that is cached and not stale is recent enough to be the answer.
LEMMA SearchCacheMaps ==
  ASSUME LogInv, NEW c \in Clients, SearchCache(c), log' = log
  PROVE  Catalog!Answer(c) \/ UNCHANGED Catalog!vars
  <1> USE DEF LogInv, Inv, TypeOK
  <1>1. pc[c] = "cache" /\ UNCHANGED <<at, private, promised, owed>>
    BY DEF SearchCache, sourceVars
  <1>2. CASE Continue(c, "describe")
    <2>1. UNCHANGED <<result, floor, pinning>>
      BY <1>2 DEF Continue
    <2>2. \A d \in Clients : pc'[d] \in Looking <=> pc[d] \in Looking
      BY <1>1, <1>2 DEF Continue, Looking
    <2> QED
      BY <1>1, <2>1, <2>2, HiddenStep
  <1>3. CASE /\ ~stale[at[c]] /\ cache[at[c]] # None
             /\ Return(c, {cache[at[c]].addr}, cache[at[c]].snapshot)
    <2>1. PICK x \in Snapshots : x = cache[at[c]].snapshot /\ cache[at[c]].addr \in Entries
      BY <1>3, CachedIs
    <2>2. x.by = None /\ InLog(at[c], x)
      BY <1>3, <2>1 DEF OthersIsolated, Recorded
    <2>3. x.n >= floor[c]
      <3>1. ~(x.n < floor[c])
        BY <1>1, <1>3, <2>1 DEF FloorKept
      <3>2. x.n \in Nat /\ floor[c] \in Nat
        BY SnapshotIs
      <3> QED
        BY <3>1, <3>2
    <2>4. pc[c] \in Looking /\ ~SeesOwn(c)
      BY <1>1 DEF ResultsOwn, SharedLookup, Looking
    <2>5. x \in Catalog!Answers(c)
      BY <2>2, <2>3, <2>4, SharedAnswer
    <2>6. {cache[at[c]].addr} \in SUBSET Entries
      BY <2>1
    <2>7. Return(c, {cache[at[c]].addr}, x)
      BY <1>3, <2>1
    <2> QED
      BY <1>1, <2>4, <2>5, <2>6, <2>7, ReturnAnswers
  <1> QED
    BY <1>2, <1>3 DEF SearchCache

\* The description just fetched is stored and is the answer.
LEMMA StoreEntryMaps ==
  ASSUME LogInv, NEW c \in Clients, StoreEntry(c), log' = log
  PROVE  Catalog!Answer(c)
  <1> USE DEF LogInv, Inv, TypeOK
  <1>1. pc[c] = "described" /\ UNCHANGED <<at, private, promised, owed>> /\ HasRoom
    BY DEF StoreEntry, sourceVars
  <1>2. /\ fetched[c] \in Snapshots /\ fetched[c].by = None /\ fetched[c].n >= floor[c]
        /\ InLog(at[c], fetched[c])
    BY <1>1 DEF RepliesCommitted, Recorded, Replied
  <1>3. {NewEntry(c, fetched[c]).addr} \in SUBSET Entries
    BY <1>1, <1>2, NewEntryIs, CachedIs
  <1>4. pc[c] \in Looking /\ ~SeesOwn(c)
    BY <1>1 DEF ResultsOwn, SharedLookup, Looking
  <1>5. fetched[c] \in Catalog!Answers(c)
    BY <1>2, <1>4, SharedAnswer
  <1>6. Return(c, {NewEntry(c, fetched[c]).addr}, fetched[c])
    BY DEF StoreEntry
  <1> QED
    BY <1>1, <1>2, <1>3, <1>4, <1>5, <1>6, ReturnAnswers

\* Going from the listing to the schema's state is a step within a lookup.
LEMMA StateOfMaps ==
  ASSUME LogInv, NEW c \in Clients, StateOf(c), log' = log
  PROVE  UNCHANGED Catalog!vars
  <1>1. UNCHANGED <<private, promised, owed, result, at, floor, pinning>>
    BY DEF StateOf, sourceVars, history
  <1>2. \A d \in Clients : pc'[d] \in Looking <=> pc[d] \in Looking
    BY DEF StateOf, Looking, LogInv, Inv, TypeOK
  <1> QED
    BY <1>1, <1>2, HiddenStep

\* The source answers, or throws: the table described is gone.
LEMMA SourceRepliesMaps ==
  ASSUME LogInv, NEW c \in Clients, SourceReplies(c), log' = log
  PROVE  Catalog!GiveUp(c) \/ UNCHANGED Catalog!vars
  <1> USE DEF LogInv, Inv, TypeOK
  <1>1. UNCHANGED <<private, promised, owed, result, at, floor, pinning>>
    BY DEF SourceReplies, SourceLists, SourceDescribes, sourceVars, history
  <1>2. CASE SourceLists(c) \/ (pc' = [pc EXCEPT ![c] = "described"] /\ pc[c] = "describe")
    <2>1. \A d \in Clients : pc'[d] \in Looking <=> pc[d] \in Looking
      BY <1>2 DEF SourceLists, Looking
    <2> QED
      BY <1>1, <2>1, HiddenStep
  <1>3. CASE /\ ~committed[at[c]].exists
             /\ pc' = [pc EXCEPT ![c] = "idle"] /\ pc[c] = "describe"
    <2>1. pc[c] \in Looking /\ ~SeesOwn(c) /\ at[c] \in Schemas
      BY <1>3 DEF ResultsOwn, SharedLookup, Looking
    <2>2. Asking[c] # None /\ Asking[c].schema = at[c] /\ ~Catalog!SeesOwn(c)
      BY <2>1, AskingIs, SeesOwnIs
    <2>3. ~log[at[c]][Len(log[at[c]])]
      BY <1>3, <2>1, LastIs
    <2>4. Asking' = [Asking EXCEPT ![c] = None]
      <3>1. Asking'[c] = None
        BY <1>3 DEF Asking, Looking
      <3>2. \A d \in Clients : d # c => UNCHANGED <<pc[d], at[d], floor[d], pinning[d]>>
        BY <1>1, <1>3
      <3> QED
        BY <3>1, <3>2, AskingExcept
    <2> QED
      BY <1>1, <2>2, <2>3, <2>4, AnsweredSame DEF Catalog!GiveUp
  <1> QED
    BY <1>2, <1>3 DEF SourceReplies, SourceDescribes

\* A DDL asks for its table at once if the schema was described before.
LEMMA DescribeSchemaMaps ==
  ASSUME LogInv, NEW c \in Clients, DescribeSchema(c), log' = log
  PROVE  Catalog!Ask(c) \/ UNCHANGED Catalog!vars
  <1> USE DEF LogInv, Inv, TypeOK
  <1>1. /\ pc[c] = "authorize" /\ pc[c] \notin Looking
        /\ UNCHANGED <<private, promised, owed, result, at>>
    BY DEF DescribeSchema, sourceVars, Looking
  <1>2. CASE pc' = [pc EXCEPT ![c] = "schema"] /\ UNCHANGED <<pinning, floor>>
    <2>1. \A d \in Clients : pc'[d] \in Looking <=> pc[d] \in Looking
      BY <1>1, <1>2 DEF Looking
    <2> QED
      BY <1>1, <1>2, <2>1, HiddenStep
  <1>3. CASE Authorized(c)
    <2>1. result' = [result EXCEPT ![c] = None]
      BY <1>1 DEF NoAnswerYet
    <2>2. PICK pin \in BOOLEAN : pin = (verb[c] = "create")
      OBVIOUS
    <2>3. BeginLookup(c, at'[c], pin) /\ pc' = [pc EXCEPT ![c] = "tables"]
      BY <1>1, <1>3, <2>2 DEF Authorized, BeginLookup
    <2> QED
      BY <1>1, <2>1, <2>3, AskStep
  <1> QED
    BY <1>2, <1>3 DEF DescribeSchema

\* It asks for its table once the schema it was told of lets it.
LEMMA StoreSchemaMaps ==
  ASSUME LogInv, NEW c \in Clients, StoreSchema(c), log' = log
  PROVE  Catalog!Ask(c)
  <1> USE DEF LogInv, Inv, TypeOK
  <1>1. /\ pc[c] = "schema_replied" /\ pc[c] \notin Looking
        /\ UNCHANGED <<private, promised, owed, result, at>>
    BY DEF StoreSchema, sourceVars, Looking
  <1>2. result' = [result EXCEPT ![c] = None]
    BY <1>1 DEF NoAnswerYet
  <1>3. PICK pin \in BOOLEAN : pin = (verb[c] = "create")
    OBVIOUS
  <1>4. BeginLookup(c, at'[c], pin) /\ pc' = [pc EXCEPT ![c] = "tables"]
    BY <1>1, <1>3 DEF StoreSchema, Authorized, BeginLookup
  <1> QED
    BY <1>1, <1>2, <1>4, AskStep

\* The session's Ddl throws, or alters the table for its transaction.
LEMMA DdlMaps ==
  ASSUME LogInv, NEW c \in Clients, Ddl(c), log' = log
  PROVE  Catalog!Forget(c) \/ \E s \in Schemas : Catalog!Alter(c, s)
  <1> USE DEF LogInv, Inv, TypeOK
  <1>1. /\ pc[c] = "ddl" /\ pc[c] \notin Looking /\ pc' = [pc EXCEPT ![c] = "idle"]
        /\ result' = [result EXCEPT ![c] = None]
        /\ UNCHANGED <<promised, owed, at, floor, pinning>>
    BY DEF Ddl, Looking, history
  <1>2. pc'[c] \notin Looking /\ \A d \in Clients : d # c => UNCHANGED <<pc[d], at[d], floor[d], pinning[d]>>
    BY <1>1 DEF Looking
  <1>3. CASE UNCHANGED private
    BY <1>1, <1>2, <1>3, ForgetStep
  <1>4. CASE private' = [private EXCEPT ![c][at[c]] = SessionDdl(c, at[c])]
    <2>1. PICK e \in BOOLEAN : e = (verb[c] # "drop")
      OBVIOUS
    <2>2. private' = [private EXCEPT ![c][at[c]] =
                         [by |-> c, n |-> IF @ = None THEN 1 ELSE @.n + 1, exists |-> e]]
      BY <1>4, <2>1 DEF SessionDdl
    <2>3. Asking[c] = None
      BY <1>1, AskingIs
    <2>4. Asking' = Asking
      <3>1. \A d \in Clients : pc'[d] \in Looking <=> pc[d] \in Looking
        BY <1>1, <1>2
      <3> QED
        BY <1>1, <3>1 DEF Asking
    <2>5. Answered' = [Answered EXCEPT ![c] = None]
      BY <1>1, AnsweredExcept
    <2>6. Catalog!Alter(c, at[c])
      BY <1>1, <2>2, <2>3, <2>4, <2>5 DEF Catalog!Alter
    <2> QED
      BY <2>6
  <1> QED
    BY <1>3, <1>4 DEF Ddl

\* A statement begins: a lookup asks, anything else forgets the last answer.
LEMMA StartsMap ==
  ASSUME LogInv, NEW c \in Clients, Starts(c), log' = log
  PROVE  Catalog!Ask(c) \/ Catalog!Forget(c) \/ UNCHANGED Catalog!vars
  <1> USE DEF LogInv, Inv, TypeOK
  <1>1. pc[c] = "idle" /\ pc[c] \notin Looking /\ UNCHANGED <<private, promised, owed>>
    BY DEF Starts, StartLookup, StartDdl, StartRelease, EndStatement, sourceVars, history, Looking
  <1>2. CASE StartLookup(c)
    <2>1. /\ pc' = [pc EXCEPT ![c] = "tables"] /\ at'[c] \in Schemas /\ BeginLookup(c, at'[c], FALSE)
          /\ \A d \in Clients : d # c => at'[d] = at[d]
          /\ result' = [result EXCEPT ![c] = None]
      BY <1>2 DEF StartLookup, BeginLookup
    <2> QED
      BY <1>1, <2>1, AskStep
  <1>3. CASE StartDdl(c)
    <2>1. /\ pc'[c] \in {"tables", "authorize"} /\ pc' = [pc EXCEPT ![c] = pc'[c]]
          /\ at'[c] \in Schemas /\ BeginLookup(c, at'[c], FALSE)
          /\ \A d \in Clients : d # c => at'[d] = at[d]
          /\ result' = [result EXCEPT ![c] = None]
      BY <1>3 DEF StartDdl, BeginLookup
    <2>2. CASE pc'[c] = "tables"
      BY <1>1, <2>1, <2>2, AskStep
    <2>3. CASE pc'[c] = "authorize"
      <3>1. pc'[c] \notin Looking
        BY <2>3 DEF Looking
      <3>2. \A d \in Clients : d # c => UNCHANGED <<pc[d], at[d], floor[d], pinning[d]>>
        BY <2>1 DEF BeginLookup
      <3> QED
        BY <1>1, <2>1, <3>1, <3>2, ForgetStep
    <2> QED
      BY <2>1, <2>2, <2>3
  <1>4. CASE StartRelease(c)
    <2>1. /\ pc' = [pc EXCEPT ![c] = "retire"] /\ result' = [result EXCEPT ![c] = None]
          /\ UNCHANGED <<at, floor, pinning>>
      BY <1>4 DEF StartRelease, history
    <2>2. pc'[c] \notin Looking
      BY <2>1 DEF Looking
    <2> QED
      BY <1>1, <2>1, <2>2, ForgetStep
  <1>5. CASE EndStatement(c)
    <2>1. UNCHANGED <<pc, result, at, floor, pinning>>
      BY <1>5 DEF EndStatement, history
    <2> QED
      BY <1>1, <2>1, HiddenStep
  <1> QED
    BY <1>2, <1>3, <1>4, <1>5 DEF Starts

\* The source commits or rolls back: all of the transaction's changes, in one step.
LEMMA ResolveMaps ==
  ASSUME LogInv, NEW c \in Clients, Resolve(c), Logged
  PROVE  Catalog!Commit(c) \/ Catalog!Rollback(c)
  <1> USE DEF LogInv, Inv, TypeOK
  <1>1. /\ pc[c] = "resolve" /\ pc[c] \notin Looking /\ pc' = [pc EXCEPT ![c] = "settle"]
        /\ UNCHANGED <<result, promised, at, floor, pinning>>
        /\ private' = [private EXCEPT ![c] = [s \in Schemas |-> None]]
    BY DEF Resolve, Looking
  <1>2. Asking[c] = None
    BY <1>1, AskingIs
  <1>3. Asking' = Asking
    <2>1. \A d \in Clients : pc'[d] \in Looking <=> pc[d] \in Looking
      BY <1>1 DEF Looking
    <2> QED
      BY <1>1, <2>1 DEF Asking
  <1>4. Answered' = Answered
    BY <1>1, AnsweredSame
  <1>5. CASE UNCHANGED <<committed, owed>>
    <2>1. log' = log
      BY <1>5, SameLog
    <2> QED
      BY <1>1, <1>2, <1>3, <1>4, <1>5, <2>1 DEF Catalog!Rollback
  <1>6. CASE /\ committed' = [s \in Schemas |->
                   IF private[c][s] = None THEN committed[s]
                   ELSE [by |-> None, n |-> committed[s].n + 1, exists |-> private[c][s].exists]]
             /\ owed' = [owed EXCEPT ![c] = [s \in Schemas |->
                   IF private[c][s] = None THEN 0 ELSE committed[s].n + 1]]
    <2>1. ASSUME NEW s \in Schemas
          PROVE  (IF committed'[s].n = committed[s].n THEN log[s] ELSE Append(log[s], committed'[s].exists))
                    = IF private[c][s] = None THEN log[s] ELSE Append(log[s], private[c][s].exists)
      <3>1. committed[s].n \in Nat
        BY SnapshotIs
      <3> QED
        BY <1>6, <3>1
    <2>2. log' = [s \in Schemas |-> IF private[c][s] = None THEN log[s]
                                    ELSE Append(log[s], private[c][s].exists)]
      BY <2>1 DEF Logged
    <2>3. \A s \in Schemas : committed[s].n + 1 = Catalog!Last(s) + 1
      BY LastIs
    <2>4. [s \in Schemas |-> IF private[c][s] = None THEN 0 ELSE committed[s].n + 1]
             = [s \in Schemas |-> IF private[c][s] = None THEN 0 ELSE Catalog!Last(s) + 1]
      BY <2>3
    <2>5. owed' = [owed EXCEPT ![c] = [s \in Schemas |->
                      IF private[c][s] = None THEN 0 ELSE Catalog!Last(s) + 1]]
      BY <1>6, <2>4
    <2> QED
      BY <1>1, <1>2, <1>3, <1>4, <2>2, <2>5 DEF Catalog!Commit
  <1> QED
    BY <1>5, <1>6 DEF Resolve

\* Release does the rest behind the catalog's back, until it returns.
LEMMA ReleaseMaps ==
  ASSUME LogInv, NEW c \in Clients, Release(c), Logged
  PROVE  Catalog!Commit(c) \/ Catalog!Rollback(c) \/ Catalog!CommitReturns(c) \/ UNCHANGED Catalog!vars
  <1> USE DEF LogInv, Inv, TypeOK
  <1>1. CASE RetireStateOf(c)
    <2>1. /\ UNCHANGED <<committed, private, promised, owed, result, floor, pinning>>
          /\ pc[c] \notin Looking /\ pc'[c] \notin Looking
          /\ \A d \in Clients : d # c => UNCHANGED <<pc[d], at[d]>>
      BY <1>1 DEF RetireStateOf, sourceVars, history, Looking
    <2>2. Asking' = Asking
      BY <2>1 DEF Asking
    <2> QED
      BY <2>1, <2>2, SameLog, AnsweredSame DEF Catalog!vars
  <1>2. CASE RetireOverlay(c)
    <2>1. /\ UNCHANGED <<committed, private, promised, owed, result, at, floor, pinning>>
          /\ \A d \in Clients : pc'[d] \in Looking <=> pc[d] \in Looking
      BY <1>2 DEF RetireOverlay, sourceVars, history, Looking
    <2> QED
      BY <2>1, SameLog, HiddenStep
  <1>3. CASE Resolve(c)
    BY <1>3, ResolveMaps
  <1>4. CASE Settle(c)
    <2>1. UNCHANGED <<committed, private, promised, owed, result, pc, at, floor, pinning>>
      BY <1>4 DEF Settle, sourceVars, clientVars, history
    <2> QED
      BY <2>1, SameLog, HiddenStep
  <1>5. CASE Settled(c)
    <2>1. /\ UNCHANGED <<committed, private, result, at, floor, pinning>>
          /\ pc[c] = "settle" /\ pc' = [pc EXCEPT ![c] = "idle"]
          /\ promised' = [s \in Schemas |-> Larger(promised[s], owed[c][s])]
          /\ owed' = [owed EXCEPT ![c] = [s \in Schemas |-> 0]]
      BY <1>5 DEF Settled, sourceVars
    <2>2. log' = log
      BY <2>1, SameLog
    <2>3. Asking[c] = None /\ Asking' = Asking /\ Answered' = Answered
      BY <2>1, AskingIs, AnsweredSame DEF Asking, Looking
    <2> QED
      BY <2>1, <2>2, <2>3 DEF Catalog!CommitReturns, Catalog!Larger, Larger
  <1> QED
    BY <1>1, <1>2, <1>3, <1>4, <1>5 DEF Release

\* Refresh of a schema promises what is committed to it.
LEMMA RefreshSchemaMaps ==
  ASSUME LogInv, NEW s \in Schemas, RefreshSchema(s), Logged
  PROVE  Catalog!Refresh({s})
  <1> USE DEF LogInv, Inv, TypeOK
  <1>1. /\ UNCHANGED <<committed, private, result, pc, at, pinning, floor, owed>>
        /\ promised' = [promised EXCEPT ![s] = committed[s].n]
    BY DEF RefreshSchema, sourceVars, clientVars
  <1>2. promised' = [t \in Schemas |-> IF t \in {s} THEN Catalog!Last(t) ELSE promised[t]]
    BY <1>1, LastIs
  <1>3. Asking' = Asking
    BY <1>1 DEF Asking
  <1> QED
    BY <1>1, <1>2, <1>3, SameLog, AnsweredSame DEF Catalog!Refresh

\* Refresh of all schemas promises what is committed to each.
LEMMA RefreshAllMaps ==
  ASSUME LogInv, RefreshAll, Logged
  PROVE  Catalog!Refresh(Schemas)
  <1> USE DEF LogInv, Inv, TypeOK
  <1>1. /\ UNCHANGED <<committed, private, result, pc, at, pinning, floor, owed>>
        /\ promised' = [s \in Schemas |-> committed[s].n]
    BY DEF RefreshAll, sourceVars, clientVars
  <1>2. promised' = [t \in Schemas |-> IF t \in Schemas THEN Catalog!Last(t) ELSE promised[t]]
    BY <1>1, LastIs
  <1>3. Asking' = Asking
    BY <1>1 DEF Asking
  <1> QED
    BY <1>1, <1>2, <1>3, SameLog, AnsweredSame DEF Catalog!Refresh

\* Somebody else's change is the next in the log.
LEMMA SourceChangesMaps ==
  ASSUME LogInv, NEW s \in Schemas, SourceChanges(s), Logged
  PROVE  Catalog!Change(s)
  <1> USE DEF LogInv, Inv, TypeOK
  <1>1. /\ UNCHANGED <<private, result, pc, at, pinning, promised, floor, owed>>
    BY DEF SourceChanges, clientVars, history
  <1>2. PICK e \in BOOLEAN :
           committed' = [committed EXCEPT ![s] = [by |-> None, n |-> @.n + 1, exists |-> e]]
    BY DEF SourceChanges
  <1>3. committed[s].n \in Nat
    BY SnapshotIs
  <1>4. ASSUME NEW t \in Schemas
        PROVE  (IF committed'[t].n = committed[t].n THEN log[t] ELSE Append(log[t], committed'[t].exists))
                  = IF t = s THEN Append(log[s], e) ELSE log[t]
    BY <1>2, <1>3
  <1>5. log' = [t \in Schemas |-> IF t = s THEN Append(log[s], e) ELSE log[t]]
    BY <1>4 DEF Logged
  <1>6. log' = [log EXCEPT ![s] = Append(@, e)]
    BY <1>5 DEF Recorded
  <1>7. Asking' = Asking
    BY <1>1 DEF Asking
  <1> QED
    BY <1>1, <1>6, <1>7, AnsweredSame DEF Catalog!Change

\* Nobody has asked, and nothing was changed.
LEMMA InitMaps == LogInit => Catalog!Init
  <1> SUFFICES ASSUME LogInit PROVE Catalog!Init
    OBVIOUS
  <1>1. Asking = [c \in Clients |-> None] /\ Answered = [c \in Clients |-> None]
    BY DEF LogInit, Init, Asking, Answered, Looking
  <1> QED
    BY <1>1 DEF LogInit, Init, Catalog!Init

\* Every step of the attach is one of the catalog's or leaves its variables alone.
LEMMA NextMaps ==
  ASSUME LogInv, [LogNext]_<<vars, log>>
  PROVE  [Catalog!Next]_(Catalog!vars)
  <1>1. CASE LogNext
    <2> USE DEF LogNext, Catalog!Next
    <2>1. ASSUME NEW c \in Clients, Lookup(c) \/ DdlStep(c) \/ SourceReplies(c) \/ Starts(c)
          PROVE  [Catalog!Next]_(Catalog!vars)
      <3>1. committed' = committed
        BY <2>1 DEF Lookup, LookupOwn, ListTables, StoreTables, StateOf, SearchCache, StoreEntry,
                    DdlStep, DescribeSchema, StoreSchema, Ddl, SourceReplies, SourceLists,
                    SourceDescribes, Starts, StartLookup, StartDdl, StartRelease, EndStatement,
                    sourceVars
      <3>2. log' = log
        BY <1>1, <3>1, SameLog DEF LogInv
      <3>3. CASE Lookup(c)
        BY <3>2, <3>3, LookupOwnMaps, ListTablesMaps, StoreTablesMaps, StateOfMaps, SearchCacheMaps,
           StoreEntryMaps DEF Lookup
      <3>4. CASE DdlStep(c)
        BY <3>2, <3>4, DescribeSchemaMaps, StoreSchemaMaps, DdlMaps DEF DdlStep
      <3>5. CASE SourceReplies(c)
        BY <3>2, <3>5, SourceRepliesMaps
      <3>6. CASE Starts(c)
        BY <3>2, <3>6, StartsMap
      <3> QED
        BY <2>1, <3>3, <3>4, <3>5, <3>6
    <2>2. ASSUME NEW c \in Clients, Release(c) PROVE [Catalog!Next]_(Catalog!vars)
      BY <1>1, <2>2, ReleaseMaps
    <2>3. ASSUME NEW s \in Schemas, RefreshSchema(s) \/ SourceChanges(s) PROVE Catalog!Next
      BY <1>1, <2>3, RefreshSchemaMaps, SourceChangesMaps
    <2>4. CASE RefreshAll
      BY <1>1, <2>4, RefreshAllMaps
    <2> QED
      BY <1>1, <2>1, <2>2, <2>3, <2>4 DEF Next, Goes
  <1>2. CASE UNCHANGED <<vars, log>>
    <2>1. UNCHANGED <<log, private, promised, owed, pc, at, floor, pinning, result>>
      BY <1>2 DEF vars, sourceVars, clientVars, history
    <2> QED
      BY <2>1, HiddenStep
  <1> QED
    BY <1>1, <1>2

\* An attach implements the catalog that has no caches: every behaviour of it, with
\* the log of what was committed, is one of CrossingCatalog.  Each lookup answers with
\* the transaction's own last change, or with a state the table had no earlier than
\* what a Refresh or a commit that returned had made visible when it began; a DDL, a
\* commit, a rollback, a Refresh and a change of the source are one step each.
THEOREM AttachImplementsCatalog == LogSpec => ImplementsCatalog
  <1>1. LogInv /\ [LogNext]_<<vars, log>> => [Catalog!Next]_(Catalog!vars)
    BY NextMaps
  <1> QED
    BY <1>1, InitMaps, SpecLogInv, PTL DEF LogSpec, ImplementsCatalog, Catalog!Spec

=============================================================================
