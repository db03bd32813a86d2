----------------------------- MODULE CrossingFill ----------------------------
(***************************************************************************)
(* The pass over plans that may write.  A write to a source is a fragment  *)
(* with a seam, the place its rows come in.  FillWrites puts the feed into *)
(* the seam as far as the source computes it; the rest runs on the target, *)
(* which gathers the rows and puts those into the seam when it executes.   *)
(*                                                                         *)
(* An insert, update, delete or merge has as info                          *)
(*   src, table   what it writes to                                        *)
(*   returning    return_chunk                                             *)
(*   columns      of an update, the columns it sets; of an insert,         *)
(*                column_index_map (0: the default; <<>>: all in order)    *)
(*   defaults     bound_defaults                                           *)
(*   row_id       of a merge, where its feed holds the row's key           *)
(*   action       of a merge, what it does with the matched rows           *)
(* and as exprs the set values or, of a delete, the key.                   *)
(***************************************************************************)
EXTENDS CrossingExecute

CONSTANTS KeyOf,     \* for each table, its key columns
          KeyUnique  \* the tables whose source vouches for the key

Verbs == {"insert", "update", "delete"}
IsWrite(p) == p.op \in Verbs \cup {"merge"}
VerbOf(p) == IF p.op = "merge" THEN p.info.action ELSE p.op

Key(p) == KeyOf[p.info.table]
Default == Expr("default", 0, <<>>)

\* SetColumnsOf and SeamOf: what a write is to do to which columns; not keyed, to all rows.
SeamOf(p, keyed) ==
    [verb |-> VerbOf(p), keys |-> IF keyed THEN Key(p) ELSE <<>>,
     sets |-> CASE VerbOf(p) = "insert" -> [c \in 1 .. Width(p.info.table) |-> c]
                [] VerbOf(p) = "update" -> p.info.columns
                [] VerbOf(p) = "delete" -> <<>>]

\* SetValueOf
SetValueOf(p, i) == IF p.exprs[i] = Default THEN p.info.defaults[p.info.columns[i]] ELSE p.exprs[i]
SetValues(p) == [i \in DOMAIN p.exprs |-> SetValueOf(p, i)]

RefTo(below, position) == Col(Bindings(below)[position][1], Bindings(below)[position][2])
RefsTo(below, positions) == [i \in DOMAIN positions |-> RefTo(below, positions[i])]

-----------------------------------------------------------------------------
(* The feed of a write: a projection to the row its seam takes, and, when  *)
(* the write returns rows, the table row below it (the image).             *)

ProjectionOver(index, exprs, child) == Project(index, exprs, child)

InsertFeed(p, feed) ==
    LET map == p.info.columns
        row == IF map = <<>> THEN Refs(Bindings(feed))
               ELSE [c \in DOMAIN map |-> IF map[c] = 0 THEN p.info.defaults[c] ELSE RefTo(feed, map[c])]
    IN  [plan |-> ProjectionOver(Fresh(3, p.t), row, feed),
         image |-> IF p.info.returning THEN Fresh(3, p.t) ELSE 0]

KeysThenSetFromImage(image, keys, columns) == RefsTo(image, keys \o columns)

\* A bug: the keys are looked for at the front of the feed.
KeysInFront(feed, keys) == [k \in DOMAIN keys |-> RefTo(feed, k)]

\* The binder puts the key of the row to update behind the set values.
KeysBehind(feed, keys) ==
    LET first == Len(Bindings(feed)) - Len(keys) IN [k \in DOMAIN keys |-> RefTo(feed, first + k)]

UpdateFeed(p, feed) ==
    LET ofColumn == [c \in 1 .. Width(p.info.table) |-> SetValueOf(p, PlaceOf(p.info.columns, c))]
        image == ProjectionOver(Fresh(4, p.t), ofColumn, feed)
    IN  IF ~p.info.returning
        THEN [plan |-> ProjectionOver(Fresh(3, p.t), KeysBehind(feed, Key(p)) \o SetValues(p), feed), image |-> 0]
        ELSE [plan |-> ProjectionOver(Fresh(3, p.t), KeysThenSetFromImage(image, Key(p), p.info.columns), image),
              image |-> Fresh(4, p.t)]

DeleteFeed(p, feed) ==
    LET count == Len(Key(p))
        image == ProjectionOver(Fresh(4, p.t), SubSeq(p.exprs, count + 1, Len(p.exprs)), feed)
    IN  IF ~p.info.returning
        THEN [plan |-> ProjectionOver(Fresh(3, p.t), SubSeq(p.exprs, 1, count), feed), image |-> 0]
        ELSE [plan |-> ProjectionOver(Fresh(3, p.t), KeysThenSetFromImage(image, Key(p), <<>>), image),
              image |-> Fresh(4, p.t)]

FeedOf(p, feed) ==
    CASE p.op = "insert" -> InsertFeed(p, feed)
      [] p.op = "update" -> UpdateFeed(p, feed)
      [] p.op = "delete" -> DeleteFeed(p, feed)

-----------------------------------------------------------------------------

RECURSIVE SplitAgainst(_, _), Boundary(_, _, _), WithAt(_, _, _), Adopted(_, _)

\* SplitFiltersAgainst: in a feed the half that crosses is the upper one.
SplitAgainst(p, source) ==
    LET q == Rebuilt(p, [c \in DOMAIN p.kids |-> SplitAgainst(p.kids[c], source)])
    IN  IF p.op = "filter" THEN SplitOneFilter(q, source, TRUE) ELSE q

\* Whether a subtree of the feed crosses as a whole, with LabelSubtreesUnder.
CrossesWhole(p, source) ==
    LET label == LabelSubtree(p, <<>>, source)
    IN  /\ ~Unlabelled(label) /\ label.open = {}
        /\ label.source # Target => Group[label.source] = Group[source]
        /\ ~HoldsFrozenScan(p)

\* WhyItStays has an answer.
Stays(p, source) == p.op = "scan" \/ Len(p.kids) # 1 \/ ~NodeCanCross(p, source)

(***************************************************************************)
(* How far down the feed FillSeamFromFeed goes: to the node that must run  *)
(* on the target, the first that crosses whole, or the first that stays.   *)
(***************************************************************************)
Boundary(p, source, stop) ==
    CASE stop # 0 /\ p.t = stop -> [whole |-> FALSE, place |-> <<>>]
      [] stop = 0 /\ CrossesWhole(p, source) -> [whole |-> TRUE, place |-> <<>>]
      [] Stays(p, source) -> [whole |-> FALSE, place |-> <<>>]
      [] OTHER -> LET below == Boundary(p.kids[1], source, stop)
                  IN  [below EXCEPT !.place = <<1>> \o @]

WithAt(p, place, q) ==
    IF place = <<>> THEN q ELSE [p EXCEPT !.kids[Head(place)] = WithAt(@, Tail(place), q)]

\* AdoptSeamIndex, on the first node below that has an index.
Adopted(p, index) ==
    IF p.t = 0 /\ Len(p.kids) = 1 THEN Rebuilt(p, <<Adopted(p.kids[1], index)>>)
    ELSE [p EXCEPT !.t = index]

\* The feed with a seam in place of a part that emits some columns; what read those reads the seam.
SeamInstead(feed, place, index, emitted) ==
    RewiredIn(WithAt(feed, place, Seam(index, Len(emitted))),
              [e \in Range(emitted) |-> <<index, PlaceOf(emitted, e)>>])

(***************************************************************************)
(* FillSeamFromFeed: what stands in the seam's place in the fragment, and  *)
(* the remainder for the target, if there is one.  A part of the feed that *)
(* crosses above a remainder reads it from a second seam.                  *)
(***************************************************************************)
FilledUpTo(boundary, feed, t) ==
    LET node == At(feed, boundary.place)
        seam == Fresh(6, t)
    IN  CASE boundary.whole ->
               [slot |-> Rejoined(Adopted(WithAt(feed, boundary.place, UnfoldScansIntoPlace(node)), seam)),
                remainder |-> <<>>]
          [] ~boundary.whole /\ boundary.place = <<>> ->
               [slot |-> Seam(seam, Len(Bindings(feed))), remainder |-> <<Rejoined(feed)>>]
          [] OTHER ->
               [slot |-> Rejoined(Adopted(SeamInstead(feed, boundary.place, Fresh(5, t), Bindings(node)), seam)),
                remainder |-> <<Rejoined(node)>>]

FilledFrom(feed, t, source, stop) == FilledUpTo(Boundary(feed, source, stop), feed, t)

FillSeamFromFeed(feed, t, source, stop) == FilledFrom(SplitAgainst(feed, source), t, source, stop)

\* InSeamOrder: a projection holds the order of the columns.
InSeamOrder(p, rows) == Project(Fresh(7, p.t), Refs(Bindings(rows)), rows)

\* MakeFence, or SeamInsert if there is a remainder.
WriteOf(p, filled, keyed, positions) ==
    LET info == [src |-> p.info.src, table |-> p.info.table, target |-> SeamOf(p, keyed),
                 slot |-> filled.slot, returning |-> p.info.returning, positions |-> positions]
    IN  IF filled.remainder = <<>> THEN Node("fence", p.t, <<>>, <<>>, info)
        ELSE Node("seam insert", p.t, <<>>, <<InSeamOrder(p, filled.remainder[1])>>, info)

\* A bug: with RETURNING the keys are still looked for at the front of the row.
FrontPositions(p) == [k \in DOMAIN Key(p) |-> k]

\* Where a gathered row holds the key: the image has it in the table's columns.
KeyPositions(p) == [k \in DOMAIN Key(p) |-> IF p.info.returning THEN Key(p)[k] ELSE k]

Ambiguous(p) == p.op # "insert" /\ p.info.table \notin KeyUnique

FillWith(p, feed) ==
    LET stop == IF p.info.returning THEN feed.image ELSE IF Ambiguous(p) THEN feed.plan.t ELSE 0
    IN  WriteOf(p, FillSeamFromFeed(feed.plan, p.t, p.info.src, stop), p.op # "insert",
                IF Ambiguous(p) THEN KeyPositions(p) ELSE <<>>)

FillWrite(p) == FillWith(p, FeedOf(p, MaterialiseConstantRows(p.kids[1])))

RECURSIVE FillWrites(_)
FillWrites(p) ==
    LET q == Rebuilt(p, [c \in DOMAIN p.kids |-> FillWrites(p.kids[c])])
    IN  IF p.op \in Verbs THEN FillWrite(q) ELSE q

-----------------------------------------------------------------------------
(* Writes that read none of their rows.                                    *)

\* OwnScan
OwnScan(p, write) == p.op = "scan" /\ p.info.src = write.info.src /\ p.info.table = write.info.table

\* The values of ValuesReadingNoRow, as far as each is one.
BareValue(p, i) ==
    LET below == p.kids[1]
        e == p.exprs[i]
    IN  CASE e = Default -> SetValueOf(p, i)
          [] e # Default /\ e.f = "column" /\ e.v[1] = below.t -> below.exprs[e.v[2]]
          [] OTHER -> Col(0, 0)

IsBare(p) ==
    /\ p.op \in {"update", "delete"} /\ ~p.info.returning
    /\ IF p.op = "delete" THEN OwnScan(p.kids[1], p)
       ELSE /\ p.kids[1].op = "projection" /\ OwnScan(p.kids[1].kids[1], p)
            /\ \A i \in DOMAIN p.exprs : IsFoldable(BareValue(p, i))

\* OneRowOf; a bare delete carries a placeholder.
OneRowOf(p) ==
    Rows(Fresh(8, p.t), <<IF p.op = "delete" THEN <<>>
                          ELSE [i \in DOMAIN p.exprs |-> Eval(BareValue(p, i), <<>>, <<0>>)]>>)

FillBareWrite(p) ==
    IF IsBare(p) THEN WriteOf(p, FillSeamFromFeed(OneRowOf(p), p.t, p.info.src, 0), FALSE, <<>>) ELSE p

RECURSIVE FillBareWrites(_), AddRowImageForReturning(_), WithIds(_, _, _), PlanMerges(_)

FillBareWrites(p) == FillBareWrite(Rebuilt(p, [c \in DOMAIN p.kids |-> FillBareWrites(p.kids[c])]))

-----------------------------------------------------------------------------
(* The image of the rows that RETURNING shows: an update's feed holds it,  *)
(* a delete's scan has to read it.                                         *)

\* The column ids of the scan after RowImageFrom: the columns it lacks come last.
ImageIds(scan) ==
    LET ids == scan.info.ids
    IN  ids \o SelectSeq([c \in 1 .. Width(scan.info.table) |-> c], LAMBDA c : c \notin Range(ids))

\* A bug: the scan is taken to hold the table's columns in their order.
InTableOrder(scan) == [c \in 1 .. Width(scan.info.table) |-> Col(scan.t, c)]

\* RowImageFrom: where a scan has each column of its table.
RowImageFrom(scan) ==
    [c \in 1 .. Width(scan.info.table) |-> Col(scan.t, PlaceOf(ImageIds(scan), c))]

WithIds(p, t, ids) ==
    IF p.op = "scan" /\ p.t = t THEN [p EXCEPT !.info.ids = ids]
    ELSE Rebuilt(p, [c \in DOMAIN p.kids |-> WithIds(p.kids[c], t, ids)])

\* FindGetWithIndex, among the scans.
GetWithIndex(p, t) == SelectSeq(ScansOf(p), LAMBDA scan : scan.t = t)[1]

\* AddRowImage, to a delete or to the projection below a merge that deletes.
AddRowImage(p) ==
    LET feed == p.kids[1]
        key == IF p.op = "delete" THEN p.exprs[1].v[1] ELSE feed.exprs[p.info.row_id].v[1]
        scan == GetWithIndex(feed, key)
        wider == WithIds(feed, key, ImageIds(scan))
    IN  IF ~(IsWrite(p) /\ VerbOf(p) = "delete" /\ p.info.returning) THEN p
        ELSE IF p.op = "delete" THEN [p EXCEPT !.exprs = @ \o RowImageFrom(scan), !.kids = <<wider>>]
        ELSE Rebuilt(p, <<[wider EXCEPT !.exprs = @ \o RowImageFrom(scan)]>>)

AddRowImageForReturning(p) ==
    AddRowImage(Rebuilt(p, [c \in DOMAIN p.kids |-> AddRowImageForReturning(p.kids[c])]))

-----------------------------------------------------------------------------
(* A merge is not filled: it is planned after the optimizers, and each of  *)
(* its actions computes the row for its seam from the feed's.              *)

\* ImageFromSetValues
ImageFromSetValues(p) ==
    [c \in 1 .. Width(p.info.table) |-> SetValueOf(p, PlaceOf(p.info.columns, c))]

\* PlanCrossingMergeAction
PlanCrossingMergeAction(p) ==
    LET feed == p.kids[1]
        width == Len(Bindings(feed))
        columns == Width(p.info.table)
        keys == [k \in DOMAIN Key(p) |-> p.info.row_id + k - 1]
        map == p.info.columns
        inserted == IF map = <<>> THEN p.exprs
                    ELSE [c \in DOMAIN map |-> IF map[c] = 0 THEN p.info.defaults[c] ELSE p.exprs[map[c]]]
        verb == p.info.action
        seam_row == IF verb = "insert" THEN inserted ELSE RefsTo(feed, keys) \o SetValues(p)
        returned_row == CASE ~p.info.returning -> <<>>
                          [] verb = "insert" -> inserted
                          [] verb = "update" -> ImageFromSetValues(p)
                          [] verb = "delete" -> RefsTo(feed, [c \in 1 .. columns |-> width - columns + c])
    IN  Node("merge write", p.t, <<>>, <<feed>>,
             [src |-> p.info.src, table |-> p.info.table, target |-> SeamOf(p, verb # "insert"),
              slot |-> Seam(Fresh(6, p.t), Len(seam_row)), returning |-> p.info.returning,
              seam_row |-> seam_row, returned_row |-> returned_row,
              positions |-> IF verb = "insert" \/ p.info.table \in KeyUnique THEN <<>> ELSE keys])

PlanMerges(p) ==
    IF p.op = "merge" THEN PlanCrossingMergeAction(p)
    ELSE Rebuilt(p, [c \in DOMAIN p.kids |-> PlanMerges(p.kids[c])])

-----------------------------------------------------------------------------
(* What a write does: the changes its source makes (the rows that match,   *)
(* what they have then), the rows it returns, and the keys it gathered.    *)

BagOf(seq) == [x \in Range(seq) |-> Cardinality({i \in DOMAIN seq : seq[i] = x})]

Effect(changes, returned, keys) == [changes |-> BagOf(changes), returned |-> BagOf(returned), keys |-> keys]

KeyPart(p, row) == [k \in DOMAIN Key(p) |-> row[Key(p)[k]]]

\* The values of the key columns, by column.
Matching(p, key) == [c \in Range(Key(p)) |-> key[PlaceOf(Key(p), c)]]

\* As SQL means a bound write whose feed emits the rows below.
Ordered(p, below) ==
    LET feed == p.kids[1]
        Values(r) == [i \in DOMAIN p.exprs |-> Eval(SetValueOf(p, i), Bindings(feed), r)]
        Mapped(given) == IF p.info.columns = <<>> THEN given
                         ELSE [c \in DOMAIN p.info.columns |->
                                  IF p.info.columns[c] = 0 THEN Eval(p.info.defaults[c], <<>>, <<0>>)
                                  ELSE given[p.info.columns[c]]]
        count == Len(Key(p))
        KeyFrom(r) == CASE p.op = "update" -> SubSeq(r, Len(r) - count + 1, Len(r))
                        [] p.op = "delete" -> Prefix([i \in DOMAIN p.exprs |-> Eval(p.exprs[i], Bindings(feed), r)], count)
                        [] p.op = "merge" -> SubSeq(r, p.info.row_id, p.info.row_id + count - 1)
        InTable(key) == CHOOSE row \in Range(Stored[p.info.table]) : KeyPart(p, row) = key
        Inserted(r) == IF p.op = "merge" THEN Mapped(Values(r)) ELSE Mapped(r)
        Change(r) == CASE VerbOf(p) = "insert" -> [match |-> <<>>, set |-> Inserted(r)]
                       [] VerbOf(p) = "update" ->
                            [match |-> Matching(p, KeyFrom(r)),
                             set |-> [c \in Range(p.info.columns) |-> Values(r)[PlaceOf(p.info.columns, c)]]]
                       [] VerbOf(p) = "delete" -> [match |-> Matching(p, KeyFrom(r)), set |-> <<>>]
        Image(r) == CASE VerbOf(p) = "insert" -> Inserted(r)
                      [] VerbOf(p) = "update" -> [c \in 1 .. Width(p.info.table) |-> Values(r)[PlaceOf(p.info.columns, c)]]
                      [] VerbOf(p) = "delete" -> InTable(KeyFrom(r))
    IN  Effect([r \in DOMAIN below |-> Change(below[r])],
               IF p.info.returning THEN [r \in DOMAIN below |-> Image(below[r])] ELSE <<>>,
               IF VerbOf(p) = "insert" \/ p.info.table \in KeyUnique THEN {}
               ELSE {KeyFrom(below[r]) : r \in DOMAIN below})

\* Sink, with SeeKey: what a write gathers of the rows it is given.
SinkOf(p, chunk) ==
    LET scope == Bindings(p.kids[1])
        merging == p.op = "merge write"
    IN  [rows |-> IF merging THEN [r \in DOMAIN chunk |-> EvalAll(p.info.seam_row, scope, chunk[r])] ELSE chunk,
         returned |-> CASE ~p.info.returning -> <<>>
                        [] p.info.returning /\ merging ->
                             [r \in DOMAIN chunk |-> EvalAll(p.info.returned_row, scope, chunk[r])]
                        [] OTHER -> chunk,
         keys |-> IF p.info.positions = <<>> THEN {}
                  ELSE {[k \in DOMAIN p.info.positions |-> chunk[r][p.info.positions[k]]] : r \in DOMAIN chunk}]

(***************************************************************************)
(* CrossingSeamFilledWrite: the gathered rows stand in the seam, and the   *)
(* source runs the fragment.  A write that reads no row addresses every    *)
(* row of its table, and gathers no key.                                   *)
(***************************************************************************)
Carried(p, sunk, rows) ==
    LET target == p.info.target
        reads_rows == target.verb = "insert" \/ target.keys # <<>>
        stored == Stored[p.info.table]
    IN  Effect(IF reads_rows THEN [r \in DOMAIN rows |-> BuildWriteStatement(target, rows[r])]
               ELSE [r \in DOMAIN stored |-> [match |-> Matching(p, KeyPart(p, stored[r])),
                                              set |-> SetFrom(target, rows[1])]],
               sunk.returned,
               IF reads_rows \/ p.info.table \in KeyUnique THEN sunk.keys
               ELSE {KeyPart(p, stored[r]) : r \in DOMAIN stored})

\* The rows of its fragment when those it gathered stand in the seam.
RowsOfSlot(p, gathered) ==
    Means(p.info.slot, 0 :> p.info.src @@ Fresh(5, p.t) :> gathered @@ Fresh(6, p.t) :> gathered)

CarriedOut(p, sunk) == Carried(p, sunk, RowsOfSlot(p, sunk.rows))

GatheredBy(p, env) ==
    IF p.op = "fence" THEN [rows |-> <<>>, returned |-> <<>>, keys |-> {}]
    ELSE SinkOf(p, Means(p.kids[1], env))

HasSlot(p) == p.op \in {"fence", "seam insert", "merge write"}

RECURSIVE EffectOf(_, _)
EffectOf(p, env) ==
    CASE p.op = "cte" -> EffectOf(p.kids[2], p.info :> Means(p.kids[1], env) @@ env)
      [] IsWrite(p) -> Ordered(p, Means(p.kids[1], env))
      [] HasSlot(p) -> CarriedOut(p, GatheredBy(p, env))
      [] OTHER -> Effect(<<>>, <<>>, {})

\* Every node of a plan, those in fragments left out.
RECURSIVE NodesOf(_)
NodesOf(p) == <<p>> \o FlattenSeq([c \in DOMAIN p.kids |-> NodesOf(p.kids[c])])

Writes(p) == LET Has(n) == IsWrite(n) \/ HasSlot(n) IN SelectSeq(NodesOf(p), Has) # <<>>

\* The fragment of a write can be run: it emits the seam's columns under the seam's index.
SlotRuns(p) ==
    LET slot == p.info.slot
    IN  /\ Runs(slot, p.info.src, {Fresh(5, p.t), Fresh(6, p.t)})
        /\ IsInjective(IndicesOf(slot))
        /\ Bindings(slot) = Places(Fresh(6, p.t), Len(Bindings(slot)))

-----------------------------------------------------------------------------

\* An optimizer of DuckDB's: it may swap the sides of an inner join, and with them its columns.
RECURSIVE Swapped(_)
Swapped(p) ==
    LET kids == [c \in DOMAIN p.kids |-> Swapped(p.kids[c])]
    IN  CASE IsInnerJoin(p) -> Rebuilt(p, Reverse(kids))
          [] p.op \in {"filter", "projection", "seam insert"} -> Rebuilt(p, kids)
          [] p.op = "cte" -> Rebuilt(p, <<p.kids[1], kids[2]>>)
          [] OTHER -> p

FillBare ==
    /\ Step("materialised", "bare")
    /\ plan' = FillBareWrites(plan)
    /\ UNCHANGED <<folds, rewired>>

AddImage ==
    /\ Step("bare", "imaged")
    /\ plan' = AddRowImageForReturning(plan)
    /\ UNCHANGED <<folds, rewired>>

Fill ==
    /\ Step("rejoined", "filled")
    /\ Writes(plan)
    /\ plan' = FillWrites(plan)
    /\ UNCHANGED <<folds, rewired>>

Optimise ==
    /\ Step("filled", "optimised")
    /\ plan' = Swapped(plan)
    /\ UNCHANGED <<folds, rewired>>

Plan ==
    /\ Step("optimised", "planned")
    /\ plan' = PlanMerges(plan)
    /\ UNCHANGED <<folds, rewired>>

\* What the sources are sent, with their tables in it.
RECURSIVE WithFloorsBound(_)
WithFloorsBound(p) ==
    LET q == Rebuilt(p, [c \in DOMAIN p.kids |-> WithFloorsBound(p.kids[c])])
    IN  CASE p.op = "scan" -> [p EXCEPT !.info.plan = BindFloors(@)]
          [] HasSlot(p) -> [q EXCEPT !.info.slot = BindFloors(@)]
          [] OTHER -> q

Bind ==
    /\ Step(IF Writes(plan) THEN "planned" ELSE "rejoined", "bound to tables")
    /\ plan' = WithFloorsBound(plan)
    /\ UNCHANGED <<folds, rewired>>

Next == Materialise \/ FillBare \/ AddImage \/ FoldNext \/ Fill \/ Optimise \/ Plan \/ Bind

Spec == Init /\ [][Next]_vars

\* A plan as it can be read: between a fold and the rewiring some readers name what is gone.
Readable == stage # "folded"

(***************************************************************************)
(* Every part of the plan can be run by whom it was given to: a source     *)
(* reads its own store and computes nothing it refused and nothing         *)
(* volatile, and nobody reads a column that is no longer below.  A write's *)
(* fragment emits the columns of its seam under the seam's index.          *)
(***************************************************************************)
EveryPartRuns ==
    Readable =>
        /\ Runs(plan, Target, {})
        /\ LET nodes == NodesOf(plan) IN \A n \in DOMAIN nodes : HasSlot(nodes[n]) => SlotRuns(nodes[n])

\* A read changes no answer: after each step the plan emits the rows it was bound for.
SameRows ==
    Readable /\ ~Writes(asked) => Means(plan, 0 :> Target) = Means(asked, 0 :> Target)

(***************************************************************************)
(* A write changes what it was bound to: whatever part of its feed the     *)
(* source computes, and in whatever order the columns come to it, it sets  *)
(* the columns SQL means to the values SQL means where the key is that of  *)
(* the row SQL means.                                                      *)
(***************************************************************************)
WritesAsMeant ==
    Readable /\ Writes(asked) =>
        EffectOf(plan, 0 :> Target).changes = EffectOf(asked, 0 :> Target).changes

\* RETURNING shows the rows SQL means: as inserted, after the update, before the delete.
ReturnsAsMeant ==
    Readable /\ Writes(asked) =>
        EffectOf(plan, 0 :> Target).returned = EffectOf(asked, 0 :> Target).returned

(***************************************************************************)
(* Where the source does not vouch for the key, a write gathers the keys   *)
(* of its rows on the target: its count of them is what ThrowIfKeyNotUnique*)
(* compares with the number of rows the source changed.                    *)
(***************************************************************************)
KeysGathered ==
    Readable /\ Writes(asked) =>
        EffectOf(plan, 0 :> Target).keys = EffectOf(asked, 0 :> Target).keys

(***************************************************************************)
(* The pass leaves nothing behind that a scan could have taken: no         *)
(* operator that its source computes stands directly on scans of one group *)
(* and constant rows, and no conjunct that it computes directly on a scan. *)
(***************************************************************************)
LeftBehind(p) ==
    LET scans == SelectSeq(p.kids, LAMBDA k : k.op = "scan")
        source == scans[1].info.src
    IN  /\ scans # <<>>
        /\ \A c \in DOMAIN p.kids : p.kids[c].op \in {"scan", "rows"}
        /\ \A s \in DOMAIN scans : ~scans[s].info.frozen /\ Group[scans[s].info.src] = Group[source]
        /\ IF p.op = "filter" THEN \E i \in DOMAIN p.exprs : VerdictOn(p.exprs[i], source)
           ELSE NodeCanCross(p, source) /\ (IsSingleJoin(p) => SingleJoinsRaise)

NothingLeftBehind ==
    stage = "rejoined" => LET nodes == NodesOf(plan) IN \A n \in DOMAIN nodes : ~LeftBehind(nodes[n])

\* ReadingCatalog: the attach whose session a read goes through, when the transaction wrote to written.
ReadThrough(scan, written) == IF written \in scan.info.folded THEN written ELSE scan.info.src

(***************************************************************************)
(* A read sees the transaction's own writes: whichever attach it wrote to, *)
(* every scan that reads one of its tables goes through its session.       *)
(***************************************************************************)
OwnWritesSeen ==
    stage = "rejoined" =>
        LET scans == ScansOf(plan)
        IN  \A s \in DOMAIN scans : \A written \in FloorsOf(scans[s].info.plan) :
               ReadThrough(scans[s], written) = written
=============================================================================
