--------------------------- MODULE CrossingColumns ---------------------------
(***************************************************************************)
(* Which column of the source each slot of one scan reads, from the        *)
(* binding of the scan to its execution.  DuckDB numbers a scan's output   *)
(* slots and keeps for each slot a column id; the fragment emits columns   *)
(* by position.  Four places relate the two: the pass before the           *)
(* optimizers, a fold, the pass after them, and the read itself.           *)
(* Columns of the table are 1 .. Width, expressions that a fold computes   *)
(* are told apart from them.                                               *)
(***************************************************************************)
EXTENDS Integers, Sequences, SequencesExt

CONSTANTS Width,     \* columns of the table
          Key,       \* its key columns, which key aliases stand for
          MaxSlots,  \* bound: slots of one scan
          Unread,    \* a slot kept for the number of rows alone, which nobody reads
          Computed,  \* what a fold computes from the columns below it
          NULL

ASSUME ColumnsAssumption ==
    /\ Width \in Nat \ {0}
    /\ MaxSlots \in Nat
    /\ Key \subseteq 1 .. Width
    /\ Unread \notin Int /\ Computed \notin Int /\ NULL \notin Int
    /\ Unread # Computed /\ NULL \notin {Unread, Computed}

Columns == 1 .. Width

\* The virtual columns: the row id, and one alias for each key column.
RowId == 0
Alias(c) == -c
Virtual == {RowId} \cup {Alias(c) : c \in Key}

VARIABLES
    stage,      \* bound, resolved, aligned, pruned, narrowed, read
    ids,        \* get.column_ids
    meant,      \* for each slot, what the plan above reads it as
    emitted,    \* for each position, what fragment.plan emits
    projected,  \* fragment.projected_columns
    frozen,     \* fragment.frozen
    folded,     \* a subtree was folded into the fragment
    dropped,    \* the optimizers dropped a slot
    output      \* for each slot, what the read hands out

vars == <<stage, ids, meant, emitted, projected, frozen, folded, dropped, output>>

Identity(n) == [i \in 1 .. n |-> i]

SlotSeqs(S) == UNION {[1 .. n -> S] : n \in 0 .. MaxSlots}

TypeOK ==
    /\ stage \in {"bound", "resolved", "aligned", "pruned", "narrowed", "read"}
    /\ ids \in Seq(Columns \cup Virtual \cup 1 .. MaxSlots)
    /\ meant \in Seq(Columns \cup {RowId, Unread, Computed})
    /\ emitted \in Seq(Columns \cup {Computed})
    /\ projected \in Seq(Columns \cup 1 .. MaxSlots)
    /\ {frozen, folded, dropped} \subseteq BOOLEAN
    /\ output \in Seq(Columns \cup {RowId, Computed, NULL})
    /\ Len(meant) = Len(ids)
    /\ Len(projected) = Len(emitted)

-----------------------------------------------------------------------------

\* KeyColumnOfAlias: the column a key alias stands for.
Resolved(id) == IF id \in Virtual \ {RowId} THEN -id ELSE id

(***************************************************************************)
(* DuckDB's binder gives a scan a slot for each column a query names, in   *)
(* the order it names them, each column id once.                           *)
(***************************************************************************)
Init ==
    /\ stage = "bound"
    /\ ids \in {s \in SlotSeqs(Columns \cup Virtual) : IsInjective(s)}
    /\ meant = [k \in DOMAIN ids |-> Resolved(ids[k])]
    /\ emitted = Identity(Width)
    /\ projected = Identity(Width)
    /\ frozen = FALSE
    /\ folded = FALSE
    /\ dropped = FALSE
    /\ output = <<>>

(***************************************************************************)
(* ResolveKeyAliases: an alias becomes the key column it stands for; a     *)
(* scan asked for any other virtual column is frozen.                      *)
(***************************************************************************)
ResolveKeyAliases ==
    /\ stage = "bound"
    /\ stage' = "resolved"
    /\ ids' = [k \in DOMAIN ids |-> Resolved(ids[k])]
    /\ frozen' = (RowId \in ToSet(ids))
    /\ UNCHANGED <<meant, emitted, projected, folded, dropped, output>>

\* A bug: the passes do not ask whether a fragment is frozen.
MayNarrowAny == TRUE

\* Both passes leave a frozen fragment alone.
MayNarrow == ~frozen

\* The columns RebuildPlanForColumns puts into the fragment's projection.
Selected(columns) == IF columns = <<>> THEN <<1>> ELSE columns

(***************************************************************************)
(* NarrowEveryFragmentToItsScan, with NarrowFragmentToScan: the fragment   *)
(* of a scan that is not frozen emits the columns the scan names.  Such a  *)
(* scan names no virtual column, so that none has to be passed over.       *)
(***************************************************************************)
NarrowFragmentToScan ==
    /\ stage = "resolved"
    /\ stage' = "aligned"
    /\ IF MayNarrow
       THEN emitted' = Selected(ids) /\ projected' = Selected(ids)
       ELSE UNCHANGED <<emitted, projected>>
    /\ UNCHANGED <<ids, meant, frozen, folded, dropped, output>>

\* A bug: the loop that numbers the columns stops before the last.
RenumberedShort(n) == Identity(n - 1)

\* The scan's columns, numbered anew after a fold or a narrowing.
Renumbered(n) == Identity(n)

(***************************************************************************)
(* Fold: work above the scan, with the slots of its own that it emits,     *)
(* goes into the fragment.  The scan takes its place: the ids are          *)
(* positions from now on.                                                  *)
(***************************************************************************)
Fold(shape) ==
    /\ stage = "aligned"
    /\ frozen = FALSE
    /\ folded' = TRUE
    /\ emitted' = shape
    /\ meant' = shape
    /\ ids' = Renumbered(Len(shape))
    /\ projected' = Renumbered(Len(shape))
    /\ UNCHANGED <<stage, frozen, dropped, output>>

\* What an operator over the scan can emit.
Shapes == {s \in SlotSeqs(ToSet(meant) \cup {Computed}) : s # <<>>}

(***************************************************************************)
(* DuckDB's optimizers drop the slots nobody reads; a scan left with none  *)
(* gets one for the count of rows.                                         *)
(***************************************************************************)
DropUnread(kept) ==
    LET Left(s) == [i \in 1 .. Len(kept) |-> s[kept[i]]]
    IN  /\ stage = "aligned"
        /\ stage' = "pruned"
        /\ dropped' = (kept # Identity(Len(ids)))
        /\ IF kept = <<>>
           THEN ids' = <<RowId>> /\ meant' = <<Unread>>
           ELSE ids' = Left(ids) /\ meant' = Left(meant)
        /\ UNCHANGED <<emitted, projected, frozen, folded, output>>

\* The choices of slots that stay, in their order.
Kept == {s \in UNION {[1 .. n -> DOMAIN ids] : n \in 0 .. Len(ids)} :
            \A i, j \in DOMAIN s : i < j => s[i] < s[j]}

\* A bug: the last position is not taken for one.
WantedBelowLast(column_ids, bindings) ==
    \A k \in DOMAIN column_ids : column_ids[k] \in 1 .. (Len(bindings) - 1)

(***************************************************************************)
(* NarrowFragmentAndScanToRequestedColumns takes the ids for positions,    *)
(* and bails unless all of them are, or when there is nothing to gain.     *)
(***************************************************************************)
Wanted(column_ids, bindings) == \A k \in DOMAIN column_ids : column_ids[k] \in 1 .. Len(bindings)

\* A bug: a fragment that emits as many columns as are wanted is rebuilt too.
NarrowsAlways(column_ids, bindings) ==
    Wanted(column_ids, bindings) /\ column_ids # <<>>

Narrows(column_ids, bindings) ==
    /\ Wanted(column_ids, bindings)
    /\ column_ids # <<>>
    /\ Len(column_ids) # Len(bindings)

NarrowFragmentAndScanToRequestedColumns ==
    /\ stage = "pruned"
    /\ stage' = "narrowed"
    /\ IF MayNarrow /\ Narrows(ids, emitted)
       THEN /\ emitted' = [i \in DOMAIN ids |-> emitted[ids[i]]]
            /\ ids' = Renumbered(Len(ids))
            /\ projected' = Renumbered(Len(ids))
       ELSE UNCHANGED <<emitted, ids, projected>>
    /\ UNCHANGED <<meant, frozen, folded, dropped, output>>

(***************************************************************************)
(* PrepareReadState and EmitChunk: a slot reads the first position         *)
(* projected for its id, and is NULL when there is none.                   *)
(***************************************************************************)
SourcePosition(columns, column) ==
    CHOOSE p \in DOMAIN columns :
        /\ columns[p] = column
        /\ \A q \in 1 .. (p - 1) : columns[q] # column

Slot(bindings, columns, column) ==
    IF column = RowId THEN RowId
    ELSE IF \A p \in DOMAIN columns : columns[p] # column THEN NULL
    ELSE bindings[SourcePosition(columns, column)]

Read ==
    /\ stage = "narrowed"
    /\ stage' = "read"
    /\ output' = [k \in DOMAIN ids |-> Slot(emitted, projected, ids[k])]
    /\ UNCHANGED <<ids, meant, emitted, projected, frozen, folded, dropped>>

Next ==
    \/ ResolveKeyAliases
    \/ NarrowFragmentToScan
    \/ \E shape \in Shapes : Fold(shape)
    \/ \E kept \in Kept : DropUnread(kept)
    \/ NarrowFragmentAndScanToRequestedColumns
    \/ Read

Spec == Init /\ [][Next]_vars

-----------------------------------------------------------------------------

\* Each slot the plan above reads holds what the plan means by it.
SlotsAsMeant == \A k \in DOMAIN meant : meant[k] # Unread => output[k] = meant[k]

\* A scan that no operator was folded into and that lost a slot afterwards.
LostSlotUnfolded == ~folded /\ ~frozen /\ dropped

(***************************************************************************)
(* crossing_read.cpp:218 says that column_ids is the map from output slots *)
(* to source columns that the scan reads it as: whatever the passes and    *)
(* the optimizers did, a slot reads the column the plan above means.       *)
(***************************************************************************)
ColumnIdsMapSlots == stage = "read" => SlotsAsMeant

(***************************************************************************)
(* The same for the scans the code gets right: those with work folded into *)
(* them, those that are frozen, and those that keep every slot.  No slot   *)
(* moves when a column beside it is dropped, whether the ids name table    *)
(* columns or positions at the time.                                       *)
(***************************************************************************)
FoldedSlotsAsMeant == stage = "read" /\ ~LostSlotUnfolded => SlotsAsMeant

(***************************************************************************)
(* A frozen fragment stays as it was bound: neither pass narrows it and    *)
(* nothing is folded into it, so that the row id can still be answered.    *)
(***************************************************************************)
FrozenAsBound ==
    [][frozen' => /\ emitted' = Identity(Width)
                  /\ projected' = Identity(Width)
                  /\ ~folded']_vars

(***************************************************************************)
(* Nothing is shipped that nobody reads: when a folded scan is executed,   *)
(* the source emits exactly the slots left after pruning, except for a     *)
(* scan that counts rows.                                                  *)
(***************************************************************************)
OnlyReadColumnsShipped ==
    stage = "read" /\ folded /\ RowId \notin ToSet(ids) => Len(emitted) = Len(ids)

=============================================================================
