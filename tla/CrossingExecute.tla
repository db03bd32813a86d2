---------------------------- MODULE CrossingExecute ---------------------------
(***************************************************************************)
(* What a source that is a DuckDB does with what it is sent: BindFloors    *)
(* puts its tables and views where a fragment has floors, and ExecuteWrite *)
(* builds an INSERT, UPDATE or DELETE that reads its rows from the seam.   *)
(***************************************************************************)
EXTENDS CrossingPass

CONSTANTS ViewOf \* for each table that is a view on its source, what its name is bound to there

Base(t, info) == Node("base", t, <<>>, <<>>, info)

RECURSIVE MaxTableIndex(_), Shifted(_, _), BindFloorsBelow(_, _)

MaxTableIndex(p) == Max(Range(IndicesOf(p)) \cup {0} \cup {MaxTableIndex(p.kids[c]) : c \in DOMAIN p.kids})

\* The indices of a plan after RemapTableIndices, for those that map has.
Shifted(p, map) ==
    LET Now(t) == IF t \in DOMAIN map THEN map[t] ELSE t
        Moved(e) == Replaced(e, [b \in ColumnsIn(e) |-> <<Now(b[1]), b[2]>>])
    IN  [p EXCEPT !.t = Now(@),
                  !.exprs = [i \in DOMAIN @ |-> Moved(@[i])],
                  !.info = IF p.op = "aggregate" THEN [@ EXCEPT !.index = Now(@)] ELSE @,
                  !.kids = [c \in DOMAIN @ |-> Shifted(@[c], map)]]

\* The floor's name, bound: the indices are of a binder of its own, which counts from 1.
BoundFloor(floor) ==
    IF floor.table \in DOMAIN ViewOf THEN ViewOf[floor.table] ELSE Base(1, floor)

\* AdoptFloorIndex: a scan or a projection answers to the floor's index.
AdoptFloorIndex(root, t) == [root EXCEPT !.t = t]

\* BindFloorsBelow; next is the first table index that is free.
BindFloorsBelow(p, next) ==
    LET Then(done, kid) == LET bound == BindFloorsBelow(kid, done.next)
                           IN  [plans |-> Append(done.plans, bound.plan), next |-> bound.next]
        kids == FoldLeft(Then, [plans |-> <<>>, next |-> next], p.kids)
        bound == BoundFloor(p.info)
        taken == IndicesOf(bound)
        fresh == [t \in Range(taken) |-> next + PlaceOf(taken, t) - 1]
    IN  IF p.op # "floor" THEN [plan |-> Rebuilt(p, kids.plans), next |-> kids.next]
        ELSE [plan |-> AdoptFloorIndex(Shifted(bound, fresh), p.t), next |-> next + Len(taken)]

BindFloors(p) == BindFloorsBelow(p, MaxTableIndex(p) + 1).plan

-----------------------------------------------------------------------------
(* A target is [verb, keys, sets]: what to do, and to which columns.  The  *)
(* seam's columns are, by position, the keys and then the set columns.     *)

\* KeysMatch: which rows of the table a row of the seam reaches, by their key.
KeysMatch(target, seam) == [column \in Range(target.keys) |-> seam[PlaceOf(target.keys, column)]]

\* The columns that a row of the seam sets, in an UPDATE or, without keys, an INSERT.
SetFrom(target, seam) ==
    [column \in Range(target.sets) |-> seam[Len(target.keys) + PlaceOf(target.sets, column)]]

\* What a row of the seam changes: the rows that match, and what they have then.
BuildWriteStatement(target, seam) == [match |-> KeysMatch(target, seam), set |-> SetFrom(target, seam)]
=============================================================================
