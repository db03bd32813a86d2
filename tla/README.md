# Verification of crossing

crossing is a DuckDB library: it attaches a foreign *source*, shows the source's
schemas and tables in DuckDB's catalog, and pushes fragments of query plans to
it. A source answers catalog questions, plans fragments, and runs reads, writes
and DDL through *sessions*, one per DuckDB transaction. All of it runs on
DuckDB's threads and on whatever threads the source wakes from.

This directory holds TLA+ modules for the parts of the library that keep state
across calls, threads or transactions and for the passes that rewrite plans, TLC
configurations that check them on small instances, and TLAPS proofs of the central
theorems.
`PROJECT.json` maps every definition to the lines it models.

## Inventory

| component | state it keeps | operations | what is hard | correct when |
|---|---|---|---|---|
| **Parking** (`parking.cpp`, `ParkSource`) | per pull: `parked`, `woken`, the task to resume; the operator's blocked list | `Of`, `Waker`, `Park`, `Wake`, `Reschedule` | a wake is two steps (flag under a lock, callback after it) racing the park, cancellation, later pulls and the end of the statement | no wake lost, none stray, every cancel reaches every sleeper |
| **Scan** (`crossing_read.cpp`) | global: partition counter, finished partitions, rows emitted; per thread: reader, partition, batch index | claim, pull, park, check, emit | threads share partitions and drain several readers each; order must survive | each row once, in the order asked for, with its own id; the scan ends |
| **Attach** (`crossing_attach.cpp`) | listing and descriptions per schema, queue of refreshes, retired entries, a slot with overlays per transaction | `LookupTable`, `Refresh`, `Ddl`, `Release`, `Commit`, `Rollback` | source calls are made with locks held, refreshes arrive meanwhile, statements hold raw pointers into the caches | fresh, isolated, own changes visible, pointers good, calls return |
| **Sessions** (`crossing_attach.cpp`, `crossing_transactions.cpp`) | `begun` by transaction address, `settling` by session address | `Session`, `Release`, `Commit`, `Rollback`, `Settled`, `Forget` | several threads ask at once; addresses are used again | one session per transaction, always its own, always resolved |
| **Write** (`crossing_write.cpp`, `key_check.hpp`) | gathered rows, keys seen, the write under way; the seam slot of the shared plan | `Sink`, `Finalize`, `GetData`, of insert/update/delete, CTAS and fence | `Finalize` is re-entered after BLOCKED; the plan is shared by executions; anything may throw | source asked once, seam restored, count and key check right |
| **Catalog, schema and table entries** | schema entries by name; table entries are immutable | lookups, forwarding to the attach | entries kept while the source's schemas change | names resolve to what is served |
| **Scan columns** (`scan_columns.cpp`, with `crossing_table_entry.cpp`, `fold.cpp`, `crossing_read.cpp`) | the scan's column ids, the fragment's projection and `projected_columns`, `frozen` | resolve key aliases, narrow, fold, narrow again, read | ids mean table columns at one time and positions at another, with DuckDB's optimizers in between | every slot reads the column the plan means |
| **Passes** (`pass.cpp`, `crossing_pass.cpp`, labelling, rules, floor, fold, fragments, filter halves, source evaluation) | none between calls: the plan | materialise rows, narrow, push filters, split, label, fold, rewire, rejoin | rewritings build on one another, indices are made up and bindings renamed between them | whoever gets a part of the plan can run it, and the plan has the same rows |
| **Fill and seams** (`fill.cpp`, `crossing_fill.cpp`, `seam.cpp`, the planning in `crossing_write.cpp`) | the seam slot of a fragment | fill bare writes, add row images, make a feed, walk it to where it must stay, fence it | the source addresses rows by key and columns by place, while optimizers and RETURNING move both | a write changes and returns what was meant |
| **Execute** (`execute.cpp`, `table_indices.cpp`) | none | bind a fragment's floors, state a write in SQL | indices of what is bound must miss those of the fragment | the fragment runs as it was planned |
| **Substrait** (`render/substrait`) | the document; the widths of definitions | what can be rendered, render, decode | positions, names and bindings are lost on the wire; the table may change under way | the source answers the fragment or refuses |
| **Wire, registration** | none | serialise; register | — | — |

How they interact. A statement asks the *attach* for tables while it is bound;
the *passes* fold what may cross into fragments, whose form each source is free to
read (as a plan to *execute*, or as *Substrait*); at execution a *scan* or a
*write* asks the attach for the transaction's *session* and pulls readers and
writers, each pull through a *parking*; at the end of the transaction the
transaction manager *releases* the slot, has the source resolve the session,
and refreshes what the transaction's DDL altered.

`PROJECT.json` lists the hazards of this code at their lines, with the
properties that would notice each of them.

## The modules

| module | models | is composed with |
|---|---|---|
| `CrossingWaking` | abstract: what a source and a task may expect of a pull's waker | |
| `CrossingParking` | parking in full | implements `CrossingWaking` |
| `CrossingScan` | one scan by several threads | sleeps by `CrossingWaking` |
| `CrossingWrite` | executions of one prepared write | sleeps by `CrossingWaking` |
| `CrossingCatalog` | abstract: what an attach promises whoever looks a table up | |
| `CrossingAttach` | the catalog cache and DDL transactions | |
| `CrossingAttachLog` | the attach with a log of what was committed | extends `CrossingAttach`, implements `CrossingCatalog` |
| `CrossingTransactions` | abstract: what a source is promised of transactions and their sessions | |
| `CrossingSessions` | slots, sessions and their addresses | implements `CrossingTransactions` |
| `CrossingColumns` | which column each slot of a scan reads, from binding to execution | |
| `CrossingPlans` | plans, expressions, and what a plan means to whoever runs it | |
| `CrossingPass` | `FoldCrossableWorkIntoFragments`, one action per step | extends `CrossingPlans` |
| `CrossingExecute` | what a source that is a DuckDB makes of a fragment | extends `CrossingPlans` |
| `CrossingFill` | the whole pass: writes, feeds, seams, MERGE, then the optimizers, the planner and the source | composes `CrossingPass` and `CrossingExecute` |
| `CrossingSubstrait` | a fragment rendered, decoded to SQL and run | extends `CrossingPlans` |
| `CrossingParkingProofs`, `CrossingSessionsProofs`, `CrossingColumnsProofs`, `CrossingScanProofs`, `CrossingWriteProofs`, `CrossingAttachProofs`, `CrossingAttachLogProofs` | theorems about the module each is named for | |
| `MC...` | constants for TLC | |

**Parking and waking.** `CrossingParking` keeps for each address of a
`CrossingParking` object its three fields, who owns it (the pull's local
`shared_ptr`, wakers, a `Wake` under way), DuckDB's task states and the blocked
list. Addresses are reused as soon as nobody owns them, so that a weak reference
to an earlier parking would be noticed. `Wake` is split at its unlock into
`SetWoken` and `Callback`. `CrossingWaking` knows only tasks that run, pull and
sleep and one signal per pull; the mapping sends a task's DuckDB state to its
status and `woken` of its current parking to the signal. `CrossingScan` and
`CrossingWrite` then use the actions of `CrossingWaking` for their sleeps: they
never look below it, and what is checked there holds because parking implements
it.

**Scan.** The global and local state of the operator are variables of the same
names. A source is three external operators: it hands units of chunks, a unit
being a whole partition or one batch, drawn from one counter or dealt in turn.
A careless source gives or omits batch indexes wrongly at any moment, which
`CheckBatchIndex` must refuse. What DuckDB does with the chunks is history:
`output` keeps, for each thread, place, unit, chunk and first row id.

**Attach.** A call is a path through `pc`, one step per stretch between source
calls and locks that are held across them. `Refresh` is possible between any two
steps. What the source says of a table is a snapshot: whose change it shows and
the number of that change. So freshness compares numbers: `promised` grows when
`Refresh` returns or a commit returns, `floor` is its value when a lookup began.
Table entries have addresses, handed-out ones are in `held`, and an entry nobody
owns can have its address used again.

`CrossingCatalog` has none of that: a log of the states each table was in, the
changes each transaction made, and lookups that begin and answer. A lookup of a
transaction that altered the schema answers with its last change. Any other answers
with some state of the log no older than what was promised when it began, and it
throws only if the table is gone. `CrossingAttachLog` adds that log to
`CrossingAttach`, which keeps of it the last state only; no guard reads it.

**Sessions.** Transactions and sessions are addresses. Each step is one use of
`transactions_lock` or of a slot's lock, except that `Begin` is called with the
slot's lock held and is a step of its own. `CrossingTransactions` knows neither
addresses nor slots nor locks: a client has a transaction, its sessions, and workers
that use the session of some client. `PhaseOf` maps the stages of a transaction to
the phases its source can tell apart, and a worker is mapped to the opener of the
session it got.

**Write.** `slot` is the seam's place in the prepared plan. `Execute` starts the
next execution and destroys the sink state of the last; everything from `Sink` to
`GetData` follows, with failures wherever the code or the source can throw, an
interrupt at every moment between pulls, and another client changing the table's
rows and keys meanwhile.

**Columns.** One scan passes through the stages that touch its columns:
`ResolveKeyAliases`, `NarrowFragmentToScan` and any `Fold` before DuckDB's
optimizers, `DropUnread` for what these do to its slots,
`NarrowFragmentAndScanToRequestedColumns` after them, and the `Read`. `ids` and
`projected` are `column_ids` and `projected_columns`, `emitted` the columns of
`fragment.plan` by position. `meant` is history: what the plan above reads each
slot as, which no code of the library may change except a fold. Columns are
numbered from 1, the row id is 0 and the alias of key column c is -c.

**Plans.** A plan is a tree of records: operator, table index, expressions, children,
and what else an operator has. `Means` gives its rows by the reference definition
of each operator, `Runs` says whether whoever has a part of it is able to run it:
every binding is of a column below, no index stands for two nodes, a floor is in
the hands of a source of its store, and a source computes nothing it refused,
nothing volatile and nothing that lives on the target. Values are numbers, `Null`
and the error of a single join. The setting `scalar_subquery_error_on_multiple_rows`
decides whether the target raises that error; a source always does.

**The pass.** A statement is bound to one of `Shapes`, and `stage` counts the steps of
`CrossingFoldPass` in the code's order: `Materialise`, `FillBare`, `AddImage`,
`Narrow`, `Push`, `Split`, `LabelSubtrees`, `Fold`, `Rewire`, `Rejoin`, `Fill`
(`PassOver` where nothing crosses). `ResolveKeyAliases`, which comes before
`AddImage`, is in `CrossingColumns`: in the plans here a scan lists a key column and
not its alias. `Optimise` stands for DuckDB's optimizers, which swap the sides of
what joins they like, `Plan` for the planner (row images, MERGE's actions), `Bind`
for each source that binds the floors of what it was sent (`BindFloors`) and states
its write in SQL (`BuildWriteStatement`). `EffectOf` is what a statement does:
the keys and values it changes, what it returns and the keys it gathers, computed
in the same way of the statement as it was bound and as it was filled.

**Substrait.** `fragment`, `message` and `query` are a fragment, its relations and
the SQL they decode to; `columns` are those of the table today. `Keep` asks
`CanRender`, `Render` and `Decode` translate, `Alter` changes the table at most
once, at any moment, and `Run` answers. Bindings become positions on the wire and
columns under an alias in SQL, scopes are stacks of widths, and a name is what the
two maps make of it. The rows of a query are defined apart from those of a plan.
`HasNoDecoding` names what `CanRender` lets through and `Throws` refuses whatever the
tables are. `UNNEST`, `SAMPLE`, `PIVOT` and ASOF joins, which the renderer takes too,
are left out.

## The runs

| run | bounds | shows |
|---|---|---|
| `Parking` | 2 source tasks, 1 finalizer, 2 parkings; one source keeps its promise, the other may drop wakers it owes | safety, the inductive invariant, refinement of `CrossingWaking` with its fairness; cancels resume |
| `Scan` | 2 threads, up to 3 partitions, 3 units (1, 2, 1 chunks), every kind of source, ordered or not, careless or not | order, exactly-once, row ids, checks, termination |
| `AttachSafety` | 2 clients, 1 schema, 2 owners, 2 changes of which the last is made only where one owner is about, 1 held entry | freshness, isolation, own DDL, pointers |
| `AttachLiveness` | 2 clients, 1 schema, 1 change | every call returns; refinement of `CrossingCatalog` |
| `Write` | 3 rows, 2 keys, 2 executions, 2 foreign changes, five kinds of write | the write properties and termination |
| `Sessions` | 2 clients of 2 threads, 2 transaction and 2 session addresses | whose session it is; refinement of `CrossingTransactions` |
| `Columns` | a table of 3 columns with one key column, up to 3 slots | slots read what is meant, frozen scans stay as bound, nothing unread is shipped |
| `ColumnsComment` | the same | a wrong column (below) |
| `Pipeline` | 3 sources, two of one group, 5 tables of 2 columns and at most 4 rows, some 3100 statements | parts run where they are sent, rows are kept, writes change, return and count what was meant, nothing is left behind, own writes are seen |
| `FillKeys` | the updates that set a key column and return rows, which `Pipeline` leaves out | a wrong row (below) |
| `Substrait` | 1 source, 2 tables, every operator alone and over each that keeps its columns, every join but ASOF, set operations of two inputs and unions of three, one alteration | the answer is the fragment's, or a refusal; what is accepted is decoded unless the table changed or the decoder has no form for it |
| `SubstraitNames` | aggregates with the names `Substrait` leaves out | a wrong function (below) |

Why the bounds are enough. A stray or lost wake needs one parking that sleeps
and one stale one; order and claims need two threads that overtake one another with
a partition left over; staleness needs one client inside a source call while another
refreshes or commits, and a second change so that a stale answer can be told from a
fresh one; a scan of two slots in the other order than the table's, one of them
dropped, is the smallest in which a position is not a column; ambiguity of a key
needs two rows sharing it and one outside. In `Sessions` every address is used again.

A step of the pass looks at a node, its children and what is above it. So the shapes
of `Pipeline` are joins of two branches (scans of every group, a frozen one, one of a
join of its own, local and constant rows, volatile rows, references to a definition)
with conjuncts below and above that each source takes or refuses and that read
either branch, both or none, under each operator that may or may not follow them.
A source of each group refuses something the other computes, so that a plan splits.
Columns of a scan are in another order than the table's and views in another than
their base's; several rows match in single joins; a row has `Null`. Single joins are
checked with the setting off, where they must stay; with the setting on the run
passes too. In `Substrait` two operators, one over the other, are what is needed for a
position or a scope to be off by the width of what is below.

`Parking` and `Scan` check the inductive invariant `Inv` of the proofs, whose first
conjunct is `TypeOK`; `Columns` checks `TypeOK`. `Inv` of the sessions, the write and
the attach, and `LogInv`, were checked on the instances of these runs too before they
were proved. They imply the properties the runs list and say no more of the code, and
evaluating those of the attach takes much longer than the properties do. The refinement
of `CrossingCatalog` was also checked with two changes (2.8 million states, too many
for a run). `Scan`, `Write`, `Columns`,
`Pipeline`, `Substrait` and the runs of the findings disable the deadlock check
because what they model ends; the other runs check that no state is stuck. Symmetry
is used only in runs without liveness properties (`ImplementsTransactions` is a safety
property of steps, and symmetric).

Every property has a mutant, an operator beside the one it replaces, written as
a bug that code could have: a dropped check, a lost update, a wrong count, a
lock kept, an owner forgotten, an index used twice, a place in another order. The
refinements see bugs that no invariant here does: with `ReleaseSkipsReaders`, which
never has the source commit a transaction that altered nothing, the invariants of
`Sessions` all hold, `Inv` with them, and `ImplementsTransactions` does not.

### Findings

`ColumnsComment`: `NarrowFragmentAndScanToRequestedColumns` takes column ids for
positions of the fragment's output. After a fold they are. In a scan that nothing
was folded into they name table columns, and the fragment emits these in the order
the query named them. When DuckDB drops one of the slots between the passes, the
ids that are left are taken for positions and the fragment is cut down to other
columns: with ids `<<2, 1>>` and the second slot dropped, column 1 is read for
column 2. `crossing_read.cpp:218` and `scan_columns.cpp:46` both say that the ids
keep naming what the scan reads. A scan whose columns are named in the order of the
table from its first column on has no such difference, and the tests use only
those. `FoldedSlotsAsMeant` states what does hold, with `LostSlotUnfolded` the scans
it leaves out.

`FillKeys`: an update that sets a key column and returns its rows takes the key that
addresses the row from the *new* image (`fill.cpp:85-95`, `155`), where the update
without `RETURNING` and `MERGE` take the key that was read. The source is told to
change the row that has the new key: another one, or none. `Pipeline` holds for all
other writes.

`SubstraitNames`: `first` is renamed to `any_value` on the wire and back, but DuckDB's
own `any_value` goes under its name as well and comes back as `first`
(`substrait_types.cpp:119`, `137`). They differ where a group begins with `Null`.
`divide`, DuckDB's other name of `//`, comes back as `/` in the same way, and
`octet_length` as `strlen`.

Read, not run:

- The comment at `include/internal/key_check.hpp:8` says that more rows are affected
  than keys were sent only when a key reached a row the scan did not name. Two rows
  that the scan did name and that share a key are enough: `keys_sent` counts distinct
  keys (`crossing_write.cpp:653-659`, `715`). `AlarmMeansAmbiguous`, which holds, is
  what the check means; the code is right and only the comment is not.
- With `RETURNING` the walk of a feed stops at the image. If the source refuses the
  projection that is the root of the feed, it stops one node above.
- In Substrait, an integer constant in GROUP BY decodes to a position; GROUPING()
  columns have no binding; a function other than `struct_pack` loses the names of its
  arguments; strings end at a NUL. Those that end in a refusal are safe, and the sources
  in the tests do not accept the others.

Run, in `Substrait`, and no error of an answer: `SubstraitCanRenderOperator` says yes
to a right semi or anti join (`substrait_render.cpp:118-121`, `1244`) and to a set
operation of any number of inputs (`1219-1221`, rendered at `1117-1120`), and the
decoder throws on both (`substrait_decode.cpp:611`, `926-928`), so a source that takes
that yes for its own fails the statement, where a no would have kept the operator on
the target. IMPLEMENTING.md:184 says that a yes claims the source computes the
expression. `AcceptedIsDecoded` excepts these fragments by name, and holds of all
others; without the exception it fails on each of the two.

## Fairness

Parking: a thread that has begun a callback, a deschedule or an unblocking step
finishes it (weak fairness of each). Nothing is assumed of readers, except that a
source that answers WAIT keeps its waker until it has woken (`KeepsPromise`),
which IMPLEMENTING.md demands; safety is checked without it.

Scan and write: DuckDB runs what is runnable (weak); the source wakes what sleeps
(weak); a reader or writer that is pulled again and again answers something other
than WAIT now and then (strong, since each WAIT disables the answer). Nothing is
assumed of cancellation or interruption.

Attach: a thread inside a call keeps going and the source answers (weak fairness
of a client's steps as a whole). No fairness between waiters of a lock is assumed,
so `CallsReturn` speaks of behaviours in which nothing new is started and
refreshed for ever: it excludes circles and locks left behind, not starvation.

## Proofs

The seven modules of proofs are checked by TLAPS for all values of the constants,
from named assumptions, which TLC evaluates in the runs of their modules:

- `ParkingAssumption`, `SessionsAssumption`: the null values are not among the
  others, the two kinds of tasks are disjoint;
- `ColumnsAssumption`: a table has a column, its key is among its columns, and the
  marks for what is no column are no numbers;
- `ScanAssumption`: there is a thread, units are numbered from 0, no more partitions
  than units, and each unit has at least one chunk and each chunk a row (an empty
  chunk is how a reader says that it is done);
- `WriteAssumption`: rows and keys are finite sets, and the mark of a row that is gone
  is not a key;
- `AttachAssumption`, `NoneAssumption`, `LookupAssumption`: the null value is neither a
  client nor a record of the caches nor a lookup, the bounds are numbers.

The bounds of the runs on changes, executions, held entries, partitions and slots
are parameters of the theorems: they hold for each value.

*Parking.* `Inv` strengthens the three safety properties. `NoStrayCallback` alone
is not inductive: that a callback is for a sleeper follows because only a parked
parking calls back (`CallbacksWoken`), because a parked and unwoken parking's task
still sleeps on it (`ParkedSleeps`), and because a parking is parked only by the
pull it belongs to (`PullParkings`). `CancelReaches` needs to know, while blocking is
still possible, that each sleeper is in the list (`SleepersListed`). From `Inv`, a
lemma per action gives `NextInv`, and `SpecInv` follows. The same invariant
carries `ParkingImplementsWaking`: a lemma says how the mapped status and signal
change when a task's entry changes, and each action is then a step of
`CrossingWaking` or leaves its variables alone.

*Sessions.* `Inv` says who has an address: a client in a transaction has a live
address of its own (`AddressesApart`), a slot exists only there (`SlotsInUse`), a
session is alive exactly while its opener has it in a slot or released
(`SessionsHad`), workers are inside their statement and the slot's lock
(`WorkersInside`), and the mark of a DDL follows it from the slot to `settling`
(`DdlMarked`). The properties are corollaries, and `Inv` is all that
`SessionsImplementTransactions` needs. That a `Begin` of the attach is the promised one
is `SessionsHad` (the client has no session yet) with the lock of `WorkersInside`; that
entering a slot is using one's own session, the same; that `Settled` refreshes exactly
for the client's DDL, `DdlMarked`; that what `Destroy` destroys is the only session
and in nobody's use, `SessionsHad` and `WorkersInside`. `Release` is a step of the
promise only where there is no session to resolve, and `AskSession`, `BeginThrows` and
`Forget` are none.

*Columns.* `Inv` says what the ids mean at every stage: in a frozen scan, table
columns and the row id of a fragment as bound (`AsBound`, `FrozenSlots`); in a folded
one, positions of what is emitted (`FoldedSlots`); in one that is neither and lost no
slot, the table columns that are emitted in that very order (`WholeSlots`). That the
read takes the *first* position of a column rests on `FirstPosition`, from the least
element of a set of numbers: a key alias beside its own column makes two positions.
`SpecTypeOK` adds `Typed`: no step makes more slots than the bound, so that a position
is a number in range, and what an open scan means before the optimizers run is columns
and computed values only (`MeansColumns`), so that a fold emits nothing else.

*Scan.* None of the four properties but `PlaceNeverDown` speaks of the partitions,
readers and counters that make it true. `Delivered(u, k)` says, in one way for each
kind of source, that chunk k of unit u was handed out. `OutputDelivered` and
`DeliveredOutput` say that what DuckDB has is exactly that, each chunk once and placed
by its unit; the rest of `Inv` is about `Delivered`. A chunk is handed out once because
each reader is inside a unit nobody else is in (`UnitsHeld`): for units drawn from the
counter since it only grows, for units dealt in turn since unit u is that of partition
`u % n`, where the next unit of a partition is n further on and none is between
(`NextDealt`, `DealtApart`). None is left out because a partition is let go of only
when its reader has nothing left, and no thread stops before the claims went past the
last partition (`Drained`, `AllDelivered`). Order needs `UnitInOrder`, and that a
thread's batch index is at least that of each chunk it gave. `RowIdsTile` counts the
chunks that have an id; `IdsReserved` says there is one of them and no other.

*Write.* Most of `Inv` says what an execution has *not* done at each phase (`NotYet`)
and where the seam is while a write has it (`SeamInPlace`). The two halves of the key
check are arguments on cardinalities. With more changed rows than keys sent, two rows
share a key (`MoreRowsThanKeys`, the pigeonhole principle): `AlarmMeansAmbiguous`. With
no more rows than keys and a row for each key, the rows' keys are a map onto a set that
is not smaller, so no two rows share one (`ARowForEachKey`): `AmbiguityRefused`, which a
conjunct of its own carries through `output`. Both need that `keys_sent` counts the keys
gathered and that a changed row has one of these (`KeyChecked`); neither needs the
changed rows to be those the feed read, which may have gone or been rekeyed.

*Attach.* `FreshLookups` is the hard one. It follows from `FloorKept` (what a lookup
finds once it applied the refreshes is not below its `floor`, or is marked stale), and
that from `PromisesKept`: of each schema, whatever is remembered from before a promised
change is `Forgotten`, which is to say stale or queued. `Forgotten` has to speak of
replies under way too (`listed`, `described`): the source's old answer is stored after
the refresh that should have dropped it. `ApplyRefreshes` empties the queue and keeps
the promise because it runs with `schemas_lock` free: then nobody has an old listing in
hand (`LocksHeld`), and a state that it marks stale stays so until the next lookup, even
if a description comes back in between. A commit owes a promise from the moment it
queued the schema, one schema at a time: the second half of `PromisesKept`, about
`owed`. `OthersIsolated` needs that replies are committed snapshots
(`RepliesCommitted`), `SeesOwnDdl` that an overlay exists as long as the session's
change does, up to the release, and shows its last state (`OverlayOwn`).
`PointersStayGood` holds because each action that gives an entry up retires it where it
is pointed to, from lemmas on what `Owned` and `Pointed` become.

*The catalog.* `FreshLookups` says that an answer is not too old; that it is a state the
table was ever in, that a lookup throws only when the table is gone, that a commit
publishes all of a transaction's changes at once, takes effect when the source commits and
is promised when it returns, is `AttachImplementsCatalog`. Two facts are needed beside
`Inv`, and `SpecLogInv` proves them with it: every listing, description and reply under
way is in the log, which ends with what is committed (`Recorded`), and a DDL that has
looked nothing up yet has no answer to lose (`NoAnswerYet`). A lookup is one step of
the catalog at its answer and none before: `SharedAnswer` gets from `FloorKept`,
`PromisesKept` and `Recorded` that what is found is an allowed answer, `OwnAnswer` the
same of overlays, and `ReturnAnswers` does the mapping for every place a lookup can
return from. The remaining steps of a lookup, of fetching and of retiring are hidden
(`HiddenStep`), and the end of a transaction is the catalog's at three of its steps.

| theorem | says |
|---|---|
| `CrossingParkingProofs!SpecInv`, `SpecNoStrayCallback`, `SpecNoLostWake`, `SpecCancelReaches` | parking is safe for any number of tasks and parkings |
| `CrossingParkingProofs!ParkingImplementsWaking` | the safety half of the refinement |
| `CrossingSessionsProofs!SpecInv`, `SpecOwnSession`, `SpecNoSessionLost`, `SpecSettlesItsOwn` | one session per transaction, for any number of clients and threads |
| `CrossingSessionsProofs!SessionsImplementTransactions` | the attach's slots, locks and reused addresses do what a source is promised of transactions |
| `CrossingColumnsProofs!ColumnsInv`, `SpecTypeOK`, `SlotsCorrect`, `FrozenKept`, `ShipsWhatIsRead` | a slot reads what is meant, for a table of any width |
| `CrossingScanProofs!SpecInv`, `SpecTypeOK`, `SpecPlaceNeverDown`, `SpecEveryChunkOnce`, `SpecOrderKept`, `SpecRowIdsTile` | each chunk once, in order, with its own ids, for any threads, partitions and units |
| `CrossingWriteProofs!SpecInv`, `SpecAskedOnce`, `SpecSeamIsBack`, `SpecAlarmMeansAmbiguous`, `SpecAmbiguityRefused` | one writer per execution, the seam is back, the key check is right, for any rows and keys |
| `CrossingAttachProofs!SpecInv`, `SpecTypeOK`, `SpecFreshLookups`, `SpecOthersIsolated`, `SpecSeesOwnDdl`, `SpecPointersStayGood` | the catalog cache is fresh, isolated and owns what is pointed to, for any clients, schemas and entries |
| `CrossingAttachLogProofs!SpecLogInv`, `AttachImplementsCatalog` | behind its caches the attach is a catalog: each lookup answers with its own change or a recent enough state |

Every safety property that the runs of these six components check is a theorem, and
so are two of the three refinements; of the third, `ImplementsWaking`, the safety half
is. Only model-checked: all liveness (`CancelResumes`, `ScanEnds`, `WriteEnds`,
`CallsReturn`) and the fairness half of `ImplementsWaking`, which are outside what the
prover does; and the passes, fill, execute and Substrait, whose plans are trees: what a
recursive operator computes for every tree cannot be proved here, so these modules are
for TLC alone.

## What is not modelled

- The list of schemas itself (the models' sources always serve each schema) and the
  map of schema entries above it, each use of which is one step under a lock;
  `Tables` of several tables in a schema; `ScanTables`, which calls back under the
  state's lock; the rollbacks of the attach's destructor; DDL of embedding catalogs;
  `CREATE VIEW`, which crosses whole or not at all by the labels modelled here.
- `MERGE`'s joint `Finalize` of several write operators (DuckDB calls them one after
  another). Its actions are modelled one to a statement.
- Data: outside the plans a row is its key or its place, a table is one snapshot
  number. In the plans types have no width: `AcceptsType` is part of what a source
  refuses, and a cast changes nothing.
- Operators that go by the same rule as one that is there: in the passes `UNNEST`,
  `DISTINCT`, windows and set operations; in Substrait `UNNEST`, `SAMPLE`, `PIVOT`, ASOF
  joins, casts, `struct_pack`, literals as text, nested types other than lists, grouping
  sets, and joins with projection maps or eliminated duplicates. The wording of reasons.
- `PlanRelation`, the check of a floor's schema and the contexts a source opens, in
  `execute.cpp`; statistics; the wire format, which is DuckDB's serializer.
- DuckDB itself and the sources, modelled only by how `src/` uses them and named
  external in the map. A source that throws from a reader is covered for writes, where
  state survives it; a failed scan's state is destroyed with it.

## Plan

Done: parking, the attach and sessions, each with its abstract specification; scan;
write; scan columns; all six with proofs; the passes, fill, execute and the Substrait
renderer.

Left: *the list of schemas*, `Schemas`, its refresh and `ScanSchemas` over it; and the
same states behind `CrossingCatalog`, whose schemas are fixed.

## Running

    tlc -workers 2 -config Scan.cfg MCCrossingScan
    tlapm CrossingParkingProofs.tla
