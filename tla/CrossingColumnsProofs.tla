------------------------ MODULE CrossingColumnsProofs ------------------------
(***************************************************************************)
(* For a table of any width: a frozen fragment stays as bound, the slots   *)
(* of every scan but the one the finding is about hold what the plan above *)
(* means by them, a folded scan ships nothing that nobody reads, and       *)
(* every variable keeps its type.                                          *)
(***************************************************************************)
EXTENDS CrossingColumns, SequenceTheorems, WellFoundedInduction, TLAPS

\* Until its fragment is narrowed, and for good when it is frozen.
AsBound ==
    stage = "bound" \/ frozen =>
        emitted = Identity(Width) /\ projected = Identity(Width) /\ ~folded

\* What the slots of a frozen scan name: table columns and the row id.
FrozenSlots ==
    frozen => \A k \in DOMAIN ids : /\ ids[k] \in Columns \cup {RowId}
                                    /\ meant[k] \in {ids[k], Unread}

BoundSlots ==
    stage = "bound" =>
        /\ ids \in Seq(Columns \cup Virtual)
        /\ meant = [k \in DOMAIN ids |-> Resolved(ids[k])]

CountsRows == /\ stage \notin {"bound", "resolved", "aligned"}
              /\ ids = <<RowId>>
              /\ meant = <<Unread>>

\* A scan that only exists for its columns, with none lost so far.
WholeSlots ==
    /\ ~frozen /\ ~folded /\ ~dropped /\ stage # "bound" =>
          \/ CountsRows
          \/ ids \in Seq(Columns) /\ meant = ids
    /\ ~frozen /\ ~folded /\ ~dropped /\ stage \notin {"bound", "resolved"} =>
          \/ CountsRows
          \/ ids = <<>>
          \/ emitted = ids /\ projected = ids

\* A folded scan's ids are positions of its fragment.
FoldedSlots ==
    folded =>
        /\ stage \notin {"bound", "resolved"}
        /\ projected = Identity(Len(emitted))
        /\ \/ CountsRows
           \/ \A k \in DOMAIN ids : /\ ids[k] \in 1 .. Len(emitted)
                                    /\ meant[k] = emitted[ids[k]]
        /\ ids # <<>>

Handed == stage = "read" => output = [k \in DOMAIN ids |-> Slot(emitted, projected, ids[k])]

\* A folded scan that was narrowed emits what is asked for.
Shipped ==
    folded /\ stage \in {"narrowed", "read"} => CountsRows \/ Len(emitted) = Len(ids)

Shape ==
    /\ stage \in {"bound", "resolved", "aligned", "pruned", "narrowed", "read"}
    /\ frozen \in BOOLEAN /\ folded \in BOOLEAN /\ dropped \in BOOLEAN
    /\ ids \in Seq(Int)
    /\ meant \in Seq(Int \cup {Unread, Computed})
    /\ emitted \in Seq(Int \cup {Unread, Computed})
    /\ projected \in Seq(Int)
    /\ Len(meant) = Len(ids)
    /\ Len(projected) = Len(emitted)
    /\ frozen => stage # "bound"
    /\ dropped => stage \notin {"bound", "resolved", "aligned"}

Inv ==
    /\ Shape
    /\ AsBound
    /\ BoundSlots
    /\ FrozenSlots
    /\ WholeSlots
    /\ FoldedSlots
    /\ Shipped
    /\ Handed

-----------------------------------------------------------------------------

\* A value that a sequence holds has a first position in it.
LEMMA FirstPosition ==
    ASSUME NEW S, NEW s \in Seq(S), NEW p \in DOMAIN s
    PROVE  \E i \in DOMAIN s : s[i] = s[p] /\ \A q \in 1 .. (i - 1) : s[q] # s[p]
<1> DEFINE T == {i \in DOMAIN s : s[i] = s[p]}
<1>1. T \subseteq Nat /\ T # {}
  BY DEF T
<1> DEFINE Less == OpToRel(<, Nat)
<1>2. \A x, y \in Nat : x < y => <<x, y>> \in Less
  BY Zenon DEF OpToRel
<1>3. IsWellFoundedOn(Less, Nat)
  BY Zenon, NatLessThanWellFounded
<1> HIDE DEF Less
<1>4. PICK i \in T : \A y \in T : ~(<<y, i>> \in Less)
  BY <1>1, <1>3, WFMin
<1>5. \A y \in T : ~(y < i)
  BY <1>1, <1>2, <1>4
<1>6. i \in DOMAIN s /\ s[i] = s[p] /\ DOMAIN s = 1 .. Len(s) /\ Len(s) \in Nat
  BY DEF T
<1>7. ASSUME NEW q \in 1 .. (i - 1) PROVE s[q] # s[p]
  <2>1. q < i /\ q \in DOMAIN s
    BY <1>6, <1>7
  <2>2. QED
    BY <1>5, <2>1 DEF T
<1>8. QED
  BY <1>6, <1>7

\* A function on an initial segment is a sequence.
LEMMA SegmentSeq ==
    ASSUME NEW S, NEW n \in Nat, NEW f \in [1 .. n -> S]
    PROVE  f \in Seq(S) /\ Len(f) = n /\ DOMAIN f = 1 .. n
<1>1. f \in Seq(S)
  BY IsASeq
<1>2. QED
  BY <1>1

\* The inputs of the model are sequences.
LEMMA SlotSeqsAreSeqs ==
    ASSUME ColumnsAssumption, NEW S, NEW s \in SlotSeqs(S) PROVE s \in Seq(S)
<1>1. PICK n \in 0 .. MaxSlots : s \in [1 .. n -> S]
  BY DEF SlotSeqs
<1>2. QED
  BY <1>1, SegmentSeq DEF ColumnsAssumption

LEMMA KeptAreSeqs ==
    ASSUME ids \in Seq(Int), NEW kept \in Kept PROVE kept \in Seq(DOMAIN ids)
<1>1. PICK n \in 0 .. Len(ids) : kept \in [1 .. n -> DOMAIN ids]
  BY DEF Kept
<1>2. QED
  BY <1>1, SegmentSeq

\* Key aliases resolve to key columns; the columns and the row id to themselves.
LEMMA ResolvedColumns ==
    ASSUME ColumnsAssumption, NEW id \in Columns \cup Virtual
    PROVE  /\ id \in Int
           /\ Resolved(id) \in Columns \cup {RowId}
           /\ id # RowId => Resolved(id) \in Columns
BY DEF ColumnsAssumption, Columns, Virtual, RowId, Alias, Resolved

LEMMA InitInv == ASSUME ColumnsAssumption, Init PROVE Inv
<1> USE ColumnsAssumption DEF ColumnsAssumption
<1>1. ids \in Seq(Columns \cup Virtual)
  BY SlotSeqsAreSeqs DEF Init
<1>2. \A k \in DOMAIN ids : ids[k] \in Int /\ Resolved(ids[k]) \in Int
  <2>1. SUFFICES ASSUME NEW k \in DOMAIN ids PROVE ids[k] \in Int /\ Resolved(ids[k]) \in Int
    OBVIOUS
  <2>2. ids[k] \in Columns \cup Virtual
    BY <1>1
  <2>3. QED
    BY <2>2, ResolvedColumns DEF Columns, RowId
<1>3. ids \in Seq(Int) /\ meant \in Seq(Int) /\ Len(meant) = Len(ids)
  BY <1>1, <1>2 DEF Init
<1>4. Identity(Width) \in Seq(Int) /\ Len(Identity(Width)) = Width
  BY SegmentSeq DEF Identity
<1>5. emitted \in Seq(Int \cup {Unread, Computed}) /\ projected \in Seq(Int)
  BY <1>4 DEF Init
<1>6. Shape
  <2>1. meant \in Seq(Int \cup {Unread, Computed})
    BY <1>3
  <2>2. Len(projected) = Len(emitted)
    BY DEF Init
  <2>3. QED
    BY <1>3, <1>5, <2>1, <2>2 DEF Init, Shape
<1>7. QED
  BY <1>1, <1>6 DEF Init, Inv, AsBound, BoundSlots, FrozenSlots, WholeSlots, FoldedSlots, Shipped, Handed

LEMMA ResolveInv == ASSUME ColumnsAssumption, Inv, ResolveKeyAliases PROVE Inv'
<1> USE ColumnsAssumption DEF ColumnsAssumption, Inv, ResolveKeyAliases
<1>1. /\ ids \in Seq(Columns \cup Virtual)
      /\ meant = [k \in DOMAIN ids |-> Resolved(ids[k])]
  BY DEF BoundSlots
<1>2. \A k \in DOMAIN ids : /\ Resolved(ids[k]) \in Columns \cup {RowId}
                            /\ ids[k] # RowId => Resolved(ids[k]) \in Columns
  BY <1>1, ResolvedColumns
<1>3. ids' \in Seq(Columns \cup {RowId}) /\ meant = ids' /\ DOMAIN ids' = DOMAIN ids
  BY <1>1, <1>2
<1>4. ids' \in Seq(Int) /\ Len(meant') = Len(ids')
  BY <1>3 DEF Columns, RowId
<1>5. Shape'
  BY <1>3, <1>4 DEF Shape
<1>6. ~frozen' => ids' \in Seq(Columns)
  <2>1. SUFFICES ASSUME ~frozen' PROVE \A k \in DOMAIN ids : Resolved(ids[k]) \in Columns
    BY <1>1
  <2>2. \A k \in DOMAIN ids : ids[k] # RowId
    BY <2>1, <1>1 DEF ToSet
  <2>3. QED
    BY <1>2, <2>2
<1>7. QED
  BY <1>3, <1>5, <1>6 DEF AsBound, BoundSlots, FrozenSlots, WholeSlots, FoldedSlots, Shipped, Handed, CountsRows

LEMMA AlignInv == ASSUME ColumnsAssumption, Inv, NarrowFragmentToScan PROVE Inv'
<1> USE ColumnsAssumption DEF ColumnsAssumption, Inv, NarrowFragmentToScan, MayNarrow
<1>1. ~frozen => Selected(ids) \in Seq(Int)
  BY DEF Shape, Selected
<1>2. Shape'
  BY <1>1 DEF Shape
<1>3. AsBound'
  BY DEF AsBound, Shape
<1>4. WholeSlots'
  BY DEF WholeSlots, CountsRows, Selected, Shape
<1>5. QED
  BY <1>2, <1>3, <1>4 DEF BoundSlots, FrozenSlots, FoldedSlots, Shipped, Handed, CountsRows

LEMMA FoldInv ==
    ASSUME ColumnsAssumption, Inv, NEW shape \in Shapes, Fold(shape) PROVE Inv'
<1> USE ColumnsAssumption DEF ColumnsAssumption, Inv, Fold, Renumbered, Identity
<1>1. shape \in Seq(Int \cup {Unread, Computed}) /\ shape # <<>>
  <2>1. ToSet(meant) \cup {Computed} \subseteq Int \cup {Unread, Computed}
    BY DEF Shape, ToSet
  <2>2. QED
    BY <2>1, SlotSeqsAreSeqs DEF Shapes
<1>2. Len(shape) \in Nat \ {0}
  BY <1>1
<1>3. Shape'
  BY <1>1, <1>2 DEF Shape
<1>4. FoldedSlots'
  BY <1>1, <1>2 DEF FoldedSlots
<1>5. QED
  BY <1>3, <1>4 DEF AsBound, BoundSlots, FrozenSlots, WholeSlots, Shipped, Handed

LEMMA DropInv ==
    ASSUME ColumnsAssumption, Inv, NEW kept \in Kept, DropUnread(kept) PROVE Inv'
<1> USE ColumnsAssumption DEF ColumnsAssumption, Inv, DropUnread
<1>1. /\ kept \in Seq(DOMAIN ids)
      /\ kept # <<>> => Len(kept) \in Nat \ {0}
  BY KeptAreSeqs DEF Shape
<1>2. \A k \in DOMAIN kept : kept[k] \in DOMAIN ids
  BY <1>1
<1>3. CASE kept = <<>>
  <2>1. CountsRows'
    BY <1>3 DEF CountsRows
  <2>2. Shape'
    <3>1. ids' = <<RowId>> /\ meant' = <<Unread>> /\ stage' = "pruned" /\ dropped' \in BOOLEAN
      BY <1>3
    <3>2. ids' \in Seq(Int) /\ meant' \in Seq(Int \cup {Unread, Computed}) /\ Len(meant') = Len(ids')
      BY <3>1 DEF RowId
    <3>3. QED
      BY <3>1, <3>2 DEF Shape
  <2>3. QED
    BY <2>1, <2>2, <1>3 DEF AsBound, BoundSlots, FrozenSlots, WholeSlots, FoldedSlots, Shipped, Handed,
                            CountsRows, RowId
<1>4. CASE kept # <<>>
  <2>1. /\ ids' = [i \in 1 .. Len(kept) |-> ids[kept[i]]]
        /\ meant' = [i \in 1 .. Len(kept) |-> meant[kept[i]]]
    BY <1>4
  <2>2. /\ Len(kept) \in Nat \ {0}
        /\ \A k \in 1 .. Len(kept) : kept[k] \in DOMAIN ids
        /\ DOMAIN ids = 1 .. Len(ids) /\ DOMAIN meant = 1 .. Len(ids) /\ Len(ids) \in Nat
    BY <1>1, <1>2, <1>4 DEF Shape
  <2>3. /\ \A k \in 1 .. Len(kept) : ids[kept[k]] \in Int
        /\ \A k \in 1 .. Len(kept) : meant[kept[k]] \in Int \cup {Unread, Computed}
    BY <2>2 DEF Shape
  <2>4. /\ ids' \in Seq(Int) /\ Len(ids') = Len(kept)
        /\ meant' \in Seq(Int \cup {Unread, Computed}) /\ Len(meant') = Len(kept)
    BY <2>1, <2>2, <2>3, SegmentSeq
  <2>5. Shape'
    <3>1. stage' = "pruned" /\ dropped' \in BOOLEAN
      OBVIOUS
    <3>2. QED
      BY <2>4, <3>1 DEF Shape
  <2>6. /\ DOMAIN ids' = 1 .. Len(kept)
        /\ \A k \in 1 .. Len(kept) : ids'[k] = ids[kept[k]] /\ meant'[k] = meant[kept[k]]
    BY <2>1
  <2>7. ~dropped' => ids' = ids /\ meant' = meant
    <3>1. SUFFICES ASSUME ~dropped' PROVE ids' = ids /\ meant' = meant
      OBVIOUS
    <3>2. kept = [i \in 1 .. Len(ids) |-> i]
      BY <3>1 DEF Identity
    <3>3. Len(kept) = Len(ids) /\ \A i \in 1 .. Len(kept) : kept[i] = i
      BY <3>2, <2>2
    <3>4. \A i \in 1 .. Len(ids) : ids'[i] = ids[i] /\ meant'[i] = meant[i]
      BY <3>3, <2>6
    <3>5. QED
      BY <3>3, <3>4, <2>4, SeqEqual DEF Shape
  <2>8. FrozenSlots'
    BY <2>2, <2>6 DEF FrozenSlots
  <2>9. WholeSlots'
    <3>1. ~frozen /\ ~folded /\ ~dropped' =>
             /\ ids \in Seq(Columns) /\ meant = ids
             /\ ids = <<>> \/ (emitted = ids /\ projected = ids)
      BY <2>4, <2>7, <2>2 DEF Shape, WholeSlots, CountsRows
    <3>2. QED
      BY <3>1, <2>7 DEF WholeSlots
  <2>10. FoldedSlots'
    <3>1. folded => \A k \in DOMAIN ids : ids[k] \in 1 .. Len(emitted) /\ meant[k] = emitted[ids[k]]
      BY DEF FoldedSlots, CountsRows
    <3>2. folded => \A k \in DOMAIN ids' : ids'[k] \in 1 .. Len(emitted) /\ meant'[k] = emitted[ids'[k]]
      BY <3>1, <2>2, <2>6
    <3>3. ids' # <<>>
      BY <2>2, <2>4
    <3>4. QED
      BY <3>2, <3>3 DEF FoldedSlots
  <2>11. QED
    BY <2>5, <2>8, <2>9, <2>10 DEF AsBound, BoundSlots, Shipped, Handed
<1>5. QED
  BY <1>3, <1>4

LEMMA NarrowInv ==
    ASSUME ColumnsAssumption, Inv, NarrowFragmentAndScanToRequestedColumns PROVE Inv'
<1> USE ColumnsAssumption DEF ColumnsAssumption, Inv, NarrowFragmentAndScanToRequestedColumns, MayNarrow
<1>1. CASE frozen \/ ~Narrows(ids, emitted)
  <2>1. UNCHANGED <<ids, meant, emitted, projected, frozen, folded, dropped, output>>
        /\ stage = "pruned" /\ stage' = "narrowed"
    BY <1>1
  <2>2. folded => CountsRows \/ Len(emitted) = Len(ids)
    BY <1>1 DEF AsBound, FoldedSlots, Narrows, Wanted
  <2>3. QED
    BY <2>1, <2>2 DEF Shape, AsBound, BoundSlots, FrozenSlots, WholeSlots, FoldedSlots, Shipped, Handed,
                      CountsRows
<1>2. CASE ~frozen /\ Narrows(ids, emitted)
  <2>1. /\ emitted' = [i \in DOMAIN ids |-> emitted[ids[i]]]
        /\ ids' = Identity(Len(ids)) /\ projected' = Identity(Len(ids))
    BY <1>2 DEF Renumbered
  <2>2. /\ Len(ids) \in Nat \ {0} /\ DOMAIN ids = 1 .. Len(ids)
        /\ \A k \in DOMAIN ids : ids[k] \in 1 .. Len(emitted)
        /\ Len(ids) # Len(emitted)
    BY <1>2 DEF Narrows, Wanted, Shape
  <2>3. \A k \in 1 .. Len(ids) : emitted[ids[k]] \in Int \cup {Unread, Computed}
    BY <2>2 DEF Shape
  <2>4. emitted' \in Seq(Int \cup {Unread, Computed}) /\ Len(emitted') = Len(ids)
    BY <2>1, <2>2, <2>3, SegmentSeq
  <2>5. ids' \in Seq(Int) /\ Len(ids') = Len(ids) /\ projected' = ids'
    BY <2>1, <2>2, SegmentSeq DEF Identity
  <2>6. Shape'
    BY <2>4, <2>5 DEF Shape
  <2>7. /\ DOMAIN ids' = 1 .. Len(ids)
        /\ \A k \in 1 .. Len(ids) : ids'[k] = k /\ emitted'[k] = emitted[ids[k]]
    BY <2>1, <2>2 DEF Identity
  <2>8. ~CountsRows
    BY <2>2 DEF CountsRows, RowId
  <2>9. folded => FoldedSlots'
    <3>1. folded => \A k \in DOMAIN ids : meant[k] = emitted[ids[k]]
      BY <2>8 DEF FoldedSlots
    <3>2. folded => \A k \in DOMAIN ids' : ids'[k] \in 1 .. Len(emitted') /\ meant'[k] = emitted'[ids'[k]]
      BY <3>1, <2>2, <2>4, <2>7
    <3>3. QED
      BY <3>2, <2>1, <2>2, <2>4, <2>5 DEF FoldedSlots
  <2>10. folded \/ dropped
    BY <1>2, <2>2, <2>8 DEF WholeSlots
  <2>11. QED
    BY <1>2, <2>4, <2>5, <2>6, <2>9, <2>10
    DEF AsBound, BoundSlots, FrozenSlots, WholeSlots, FoldedSlots, Shipped, Handed
<1>3. QED
  BY <1>1, <1>2

LEMMA ReadInv == ASSUME ColumnsAssumption, Inv, Read PROVE Inv'
<1> USE DEF Inv, Read
<1>1. Handed'
  BY DEF Handed
<1>2. QED
  BY <1>1 DEF Shape, AsBound, BoundSlots, FrozenSlots, WholeSlots, FoldedSlots, Shipped, CountsRows

LEMMA NextInv == ASSUME ColumnsAssumption, Inv, [Next]_vars PROVE Inv'
<1>1. CASE ResolveKeyAliases
  BY <1>1, ResolveInv
<1>2. CASE NarrowFragmentToScan
  BY <1>2, AlignInv
<1>3. CASE \E shape \in Shapes : Fold(shape)
  BY <1>3, FoldInv
<1>4. CASE \E kept \in Kept : DropUnread(kept)
  BY <1>4, DropInv
<1>5. CASE NarrowFragmentAndScanToRequestedColumns
  BY <1>5, NarrowInv
<1>6. CASE Read
  BY <1>6, ReadInv
<1>7. CASE UNCHANGED vars
  BY <1>7 DEF vars, Inv, Shape, AsBound, BoundSlots, FrozenSlots, WholeSlots, FoldedSlots, Shipped, Handed,
              CountsRows
<1>8. QED
  BY <1>1, <1>2, <1>3, <1>4, <1>5, <1>6, <1>7 DEF Next

\* Inv holds of every scan, whatever the width of its table: the ids, the
\* emitted columns and what the plan means stay related as Inv says.
THEOREM ColumnsInv == ASSUME ColumnsAssumption PROVE Spec => []Inv
<1>1. Init => Inv
  BY InitInv
<1>2. Inv /\ [Next]_vars => Inv'
  BY NextInv
<1>3. QED
  BY <1>1, <1>2, PTL DEF Spec

-----------------------------------------------------------------------------

\* A slot whose column is projected reads what its first position emits.
LEMMA SlotReads ==
    ASSUME Shape, NEW p \in DOMAIN projected, projected[p] # RowId
    PROVE  \E i \in DOMAIN projected : /\ projected[i] = projected[p]
                                       /\ Slot(emitted, projected, projected[p]) = emitted[i]
<1>1. \E i \in DOMAIN projected : projected[i] = projected[p]
                                 /\ \A q \in 1 .. (i - 1) : projected[q] # projected[p]
  BY FirstPosition DEF Shape
<1>2. /\ SourcePosition(projected, projected[p]) \in DOMAIN projected
      /\ projected[SourcePosition(projected, projected[p])] = projected[p]
  BY <1>1 DEF SourcePosition
<1>3. Slot(emitted, projected, projected[p]) = emitted[SourcePosition(projected, projected[p])]
  BY DEF Slot
<1>4. QED
  BY <1>2, <1>3

\* What a slot reads is what the plan above means by it, but for the scan of
\* the finding.
LEMMA InvSlots ==
    ASSUME ColumnsAssumption, Inv, stage = "read", ~LostSlotUnfolded PROVE SlotsAsMeant
<1> USE ColumnsAssumption DEF ColumnsAssumption, Inv
<1> SUFFICES ASSUME NEW k \in DOMAIN meant, meant[k] # Unread PROVE output[k] = meant[k]
  BY DEF SlotsAsMeant
<1>1. /\ k \in DOMAIN ids /\ output[k] = Slot(emitted, projected, ids[k])
      /\ DOMAIN ids = 1 .. Len(ids)
      /\ DOMAIN projected = 1 .. Len(projected) /\ Len(projected) \in Nat /\ Len(emitted) \in Nat
  <2>1. DOMAIN meant = DOMAIN ids /\ DOMAIN ids = 1 .. Len(ids)
    BY DEF Shape
  <2>2. DOMAIN projected = 1 .. Len(projected) /\ Len(projected) \in Nat /\ Len(emitted) \in Nat
    BY DEF Shape
  <2>3. output = [i \in DOMAIN ids |-> Slot(emitted, projected, ids[i])]
    BY DEF Handed
  <2>4. QED
    BY <2>1, <2>2, <2>3
<1>2. ~CountsRows
  <2>1. SUFFICES ASSUME CountsRows PROVE FALSE
    OBVIOUS
  <2>2. DOMAIN meant = {1}
    BY <2>1 DEF CountsRows
  <2>3. QED
    BY <2>1, <2>2 DEF CountsRows
<1>3. CASE frozen
  <2>1. ids[k] = meant[k] /\ meant[k] \in Columns \cup {RowId}
    BY <1>1, <1>3 DEF FrozenSlots
  <2>2. CASE meant[k] = RowId
    BY <1>1, <2>1, <2>2 DEF Slot
  <2>3. CASE meant[k] # RowId
    <3>1. /\ meant[k] \in 1 .. Width
          /\ projected = [i \in 1 .. Width |-> i] /\ emitted = projected
      BY <1>3, <2>1, <2>3 DEF AsBound, Identity, Columns
    <3>2. meant[k] \in DOMAIN projected /\ projected[meant[k]] = meant[k]
      BY <3>1
    <3>3. PICK i \in DOMAIN projected : projected[i] = meant[k] /\ Slot(emitted, projected, meant[k]) = emitted[i]
      BY <3>2, <2>3, SlotReads
    <3>4. QED
      BY <1>1, <2>1, <3>1, <3>3
  <2>4. QED
    BY <2>2, <2>3
<1>4. CASE ~frozen /\ folded
  <2>1. /\ ids[k] \in 1 .. Len(emitted) /\ meant[k] = emitted[ids[k]]
        /\ projected = [i \in 1 .. Len(emitted) |-> i]
    BY <1>1, <1>2, <1>4 DEF FoldedSlots, Identity
  <2>2. /\ ids[k] \in DOMAIN projected /\ projected[ids[k]] = ids[k] /\ ids[k] # RowId
    BY <2>1, <1>1 DEF RowId
  <2>3. PICK i \in DOMAIN projected : projected[i] = ids[k] /\ Slot(emitted, projected, ids[k]) = emitted[i]
    BY <2>2, SlotReads
  <2>4. QED
    BY <1>1, <2>1, <2>3
<1>5. CASE ~frozen /\ ~folded
  <2>1. ~dropped
    BY <1>5 DEF LostSlotUnfolded
  <2>2. /\ ids \in Seq(Columns) /\ meant = ids
        /\ emitted = ids /\ projected = ids
    BY <1>1, <1>2, <1>5, <2>1 DEF WholeSlots
  <2>3. projected[k] = ids[k] /\ k \in DOMAIN projected /\ projected[k] # RowId
    BY <1>1, <2>2 DEF Columns, RowId
  <2>4. PICK i \in DOMAIN projected : projected[i] = ids[k] /\ Slot(emitted, projected, ids[k]) = emitted[i]
    BY <2>3, SlotReads
  <2>5. QED
    BY <1>1, <2>2, <2>4
<1>6. QED
  BY <1>3, <1>4, <1>5

\* Every slot holds what the plan above means by it, except in a scan that
\* nothing was folded into and that lost a slot between the two passes.
THEOREM SlotsCorrect == ASSUME ColumnsAssumption PROVE Spec => []FoldedSlotsAsMeant
<1>1. Inv => FoldedSlotsAsMeant
  BY InvSlots DEF FoldedSlotsAsMeant
<1>2. QED
  BY <1>1, ColumnsInv, PTL

\* A frozen fragment stays as it was bound, so that its row id can be answered.
THEOREM FrozenKept == ASSUME ColumnsAssumption PROVE Spec => FrozenAsBound
<1>1. Inv /\ [Next]_vars => [frozen' => /\ emitted' = Identity(Width)
                                       /\ projected' = Identity(Width)
                                       /\ ~folded']_vars
  <2>1. SUFFICES ASSUME Inv, [Next]_vars, frozen'
                 PROVE emitted' = Identity(Width) /\ projected' = Identity(Width) /\ ~folded'
    OBVIOUS
  <2>2. QED
    BY <2>1, NextInv DEF Inv, AsBound
<1>2. QED
  BY <1>1, ColumnsInv, PTL DEF Spec, FrozenAsBound

\* A folded scan that reads any column ships exactly the columns it reads.
THEOREM ShipsWhatIsRead == ASSUME ColumnsAssumption PROVE Spec => []OnlyReadColumnsShipped
<1>1. Inv => OnlyReadColumnsShipped
  <2>1. SUFFICES ASSUME Inv, stage = "read", folded, RowId \notin ToSet(ids)
                 PROVE Len(emitted) = Len(ids)
    BY DEF OnlyReadColumnsShipped
  <2>2. ~CountsRows
    BY <2>1 DEF CountsRows, ToSet
  <2>3. QED
    BY <2>1, <2>2 DEF Inv, Shipped
<1>2. QED
  BY <1>1, ColumnsInv, PTL

-----------------------------------------------------------------------------

\* What TypeOK needs to be inductive: no more slots than the scan began with.
Typed == TypeOK /\ (CountsRows \/ Len(ids) <= MaxSlots)

LEMMA SeqWithin == ASSUME NEW S, NEW T, S \subseteq T, NEW s \in Seq(S) PROVE s \in Seq(T)
<1>1. s \in [1 .. Len(s) -> T] /\ Len(s) \in Nat
  OBVIOUS
<1>2. QED
  BY <1>1, SegmentSeq

\* A chosen sequence of slots is no longer than the bound.
LEMMA SlotSeqsBounded ==
    ASSUME ColumnsAssumption, NEW S, NEW s \in SlotSeqs(S) PROVE Len(s) \in 0 .. MaxSlots
<1>1. PICK n \in 0 .. MaxSlots : s \in [1 .. n -> S]
  BY DEF SlotSeqs
<1>2. QED
  BY <1>1, SegmentSeq DEF ColumnsAssumption

LEMMA IdentityTyped ==
    ASSUME NEW n \in Nat
    PROVE  Identity(n) \in Seq(1 .. n) /\ Len(Identity(n)) = n
BY SegmentSeq DEF Identity

LEMMA InitTyped == ASSUME ColumnsAssumption, Init PROVE Typed
<1> USE ColumnsAssumption DEF ColumnsAssumption
<1>1. ids \in Seq(Columns \cup Virtual) /\ Len(ids) \in 0 .. MaxSlots
  BY SlotSeqsAreSeqs, SlotSeqsBounded DEF Init
<1>2. ids \in Seq(Columns \cup Virtual \cup 1 .. MaxSlots)
  BY <1>1, SeqWithin
<1>3. meant \in Seq(Columns \cup {RowId, Unread, Computed}) /\ Len(meant) = Len(ids)
  <2>1. \A k \in 1 .. Len(ids) : Resolved(ids[k]) \in Columns \cup {RowId, Unread, Computed}
    BY <1>1, ResolvedColumns
  <2>2. meant = [k \in 1 .. Len(ids) |-> Resolved(ids[k])]
    BY <1>1 DEF Init
  <2>3. QED
    BY <1>1, <2>1, <2>2, SegmentSeq
<1>4. Identity(Width) \in Seq(Columns) /\ Len(Identity(Width)) = Width
  BY IdentityTyped DEF Columns
<1>5. /\ Identity(Width) \in Seq(Columns \cup {Computed})
      /\ Identity(Width) \in Seq(Columns \cup 1 .. MaxSlots)
  BY <1>4, SeqWithin
<1>6. output \in Seq(Columns \cup {RowId, Computed, NULL})
  BY DEF Init
<1>7. /\ stage = "bound" /\ {frozen, folded, dropped} \subseteq BOOLEAN
      /\ emitted = Identity(Width) /\ projected = Identity(Width)
  BY DEF Init
<1>8. QED
  BY <1>1, <1>2, <1>3, <1>5, <1>6, <1>7 DEF Typed, TypeOK

LEMMA ResolveTyped ==
    ASSUME ColumnsAssumption, Inv, Typed, ResolveKeyAliases PROVE Typed'
<1> USE ColumnsAssumption DEF ColumnsAssumption, ResolveKeyAliases
<1>1. ids \in Seq(Columns \cup Virtual) /\ Len(ids) \in Nat /\ Len(ids) <= MaxSlots
  BY DEF Inv, BoundSlots, Typed, CountsRows
<1>2. \A k \in 1 .. Len(ids) : Resolved(ids[k]) \in Columns \cup Virtual \cup 1 .. MaxSlots
  <2>1. SUFFICES ASSUME NEW k \in 1 .. Len(ids)
                 PROVE  Resolved(ids[k]) \in Columns \cup Virtual \cup 1 .. MaxSlots
    OBVIOUS
  <2>2. ids[k] \in Columns \cup Virtual
    BY <1>1
  <2>3. Resolved(ids[k]) \in Columns \cup {RowId}
    BY <2>2, ResolvedColumns
  <2>4. QED
    BY <2>3 DEF Virtual
<1>3. ids' \in Seq(Columns \cup Virtual \cup 1 .. MaxSlots) /\ Len(ids') = Len(ids)
  BY <1>1, <1>2, SegmentSeq
<1>4. stage' = "resolved" /\ {frozen', folded', dropped'} \subseteq BOOLEAN
  BY DEF Typed, TypeOK
<1>5. Len(ids') <= MaxSlots /\ UNCHANGED <<meant, emitted, projected, output>>
  BY <1>1, <1>3
<1>6. QED
  BY <1>3, <1>4, <1>5 DEF Typed, TypeOK

LEMMA AlignTyped ==
    ASSUME ColumnsAssumption, Inv, Typed, NarrowFragmentToScan PROVE Typed'
<1> USE ColumnsAssumption DEF ColumnsAssumption, NarrowFragmentToScan, MayNarrow
<1>1. ~CountsRows /\ Len(ids) <= MaxSlots
  BY DEF Typed, CountsRows
<1>2. CASE frozen
  BY <1>1, <1>2 DEF Typed, TypeOK
<1>3. CASE ~frozen
  <2>1. ids \in Seq(Columns)
    <3>1. ~folded /\ ~dropped
      BY DEF Inv, Shape, FoldedSlots
    <3>2. QED
      BY <1>1, <1>3, <3>1 DEF Inv, WholeSlots
  <2>2. Selected(ids) \in Seq(Columns)
    <3>1. 1 \in Columns
      BY DEF Columns
    <3>2. <<1>> \in Seq(Columns)
      BY <3>1
    <3>3. QED
      BY <2>1, <3>2 DEF Selected
  <2>3. /\ Selected(ids) \in Seq(Columns \cup {Computed})
        /\ Selected(ids) \in Seq(Columns \cup 1 .. MaxSlots)
    BY <2>2, SeqWithin
  <2>4. QED
    BY <1>1, <1>3, <2>3 DEF Typed, TypeOK
<1>4. QED
  BY <1>2, <1>3, <1>1 DEF Typed, TypeOK

\* Before a slot can be lost, an open scan means columns and what was computed.
LEMMA MeansColumns ==
    ASSUME ColumnsAssumption, Inv, Typed, stage = "aligned", ~frozen
    PROVE  ToSet(meant) \subseteq Columns \cup {Computed}
<1>1. ~CountsRows /\ ~dropped
  BY DEF CountsRows, Inv, Shape
<1>2. CASE folded
  <2>1. \A k \in DOMAIN meant : k \in DOMAIN ids
    BY DEF Inv, Shape
  <2>2. \A k \in DOMAIN ids : ids[k] \in DOMAIN emitted /\ meant[k] = emitted[ids[k]]
    BY <1>1, <1>2 DEF Inv, FoldedSlots, Shape
  <2>3. QED
    BY <2>1, <2>2 DEF ToSet, Typed, TypeOK
<1>3. CASE ~folded
  <2>1. meant \in Seq(Columns)
    BY <1>1, <1>3 DEF Inv, WholeSlots
  <2>2. QED
    BY <2>1 DEF ToSet
<1>4. QED
  BY <1>2, <1>3

LEMMA FoldTyped ==
    ASSUME ColumnsAssumption, Inv, Typed, NEW shape \in Shapes, Fold(shape) PROVE Typed'
<1> USE ColumnsAssumption DEF ColumnsAssumption, Fold, Renumbered
<1>1. shape \in Seq(ToSet(meant) \cup {Computed}) /\ Len(shape) \in 0 .. MaxSlots
  BY SlotSeqsAreSeqs, SlotSeqsBounded DEF Shapes
<1>2. ToSet(meant) \cup {Computed} \subseteq Columns \cup {Computed}
  BY MeansColumns
<1>3. /\ shape \in Seq(Columns \cup {Computed})
      /\ shape \in Seq(Columns \cup {RowId, Unread, Computed})
  BY <1>1, <1>2, SeqWithin
<1>4. Identity(Len(shape)) \in Seq(1 .. Len(shape)) /\ Len(Identity(Len(shape))) = Len(shape)
  BY <1>1, IdentityTyped
<1>5. /\ Identity(Len(shape)) \in Seq(Columns \cup Virtual \cup 1 .. MaxSlots)
      /\ Identity(Len(shape)) \in Seq(Columns \cup 1 .. MaxSlots)
  <2>1. 1 .. Len(shape) \subseteq 1 .. MaxSlots
    BY <1>1
  <2>2. QED
    BY <1>4, <2>1, SeqWithin
<1>6. QED
  BY <1>1, <1>3, <1>4, <1>5 DEF Typed, TypeOK

LEMMA DropTyped ==
    ASSUME ColumnsAssumption, Inv, Typed, NEW kept \in Kept, DropUnread(kept) PROVE Typed'
<1> USE ColumnsAssumption DEF ColumnsAssumption, DropUnread
<1>1. Len(ids) \in Nat /\ Len(ids) <= MaxSlots /\ ids \in Seq(Int)
  BY DEF Typed, CountsRows, Inv, Shape
<1>2. stage' = "pruned" /\ dropped' \in BOOLEAN
  OBVIOUS
<1>3. CASE kept = <<>>
  <2>1. ids' = <<RowId>> /\ meant' = <<Unread>>
    BY <1>3
  <2>2. /\ ids' \in Seq(Columns \cup Virtual \cup 1 .. MaxSlots)
        /\ meant' \in Seq(Columns \cup {RowId, Unread, Computed})
        /\ Len(meant') = Len(ids')
    BY <2>1 DEF Virtual
  <2>3. QED
    BY <1>2, <2>1, <2>2 DEF Typed, TypeOK, CountsRows
<1>4. CASE kept # <<>>
  <2>1. PICK n \in 0 .. Len(ids) : kept \in [1 .. n -> DOMAIN ids]
    BY DEF Kept
  <2>2. Len(kept) = n /\ DOMAIN ids = 1 .. Len(ids) /\ DOMAIN meant = 1 .. Len(ids)
    BY <2>1, <1>1, SegmentSeq DEF Typed, TypeOK
  <2>3. /\ ids' = [i \in 1 .. n |-> ids[kept[i]]]
        /\ meant' = [i \in 1 .. n |-> meant[kept[i]]]
    BY <1>4, <2>2
  <2>4. /\ \A i \in 1 .. n : ids[kept[i]] \in Columns \cup Virtual \cup 1 .. MaxSlots
        /\ \A i \in 1 .. n : meant[kept[i]] \in Columns \cup {RowId, Unread, Computed}
    BY <2>1, <2>2 DEF Typed, TypeOK
  <2>5. /\ ids' \in Seq(Columns \cup Virtual \cup 1 .. MaxSlots) /\ Len(ids') = n
        /\ meant' \in Seq(Columns \cup {RowId, Unread, Computed}) /\ Len(meant') = n
    BY <2>1, <2>3, <2>4, SegmentSeq
  <2>6. QED
    BY <1>1, <1>2, <2>1, <2>5 DEF Typed, TypeOK
<1>5. QED
  BY <1>3, <1>4

LEMMA NarrowTyped ==
    ASSUME ColumnsAssumption, Inv, Typed, NarrowFragmentAndScanToRequestedColumns PROVE Typed'
<1> USE ColumnsAssumption DEF ColumnsAssumption, NarrowFragmentAndScanToRequestedColumns, MayNarrow
<1>1. CASE frozen \/ ~Narrows(ids, emitted)
  BY <1>1 DEF Typed, TypeOK, CountsRows
<1>2. CASE ~frozen /\ Narrows(ids, emitted)
  <2>1. /\ emitted' = [i \in 1 .. Len(ids) |-> emitted[ids[i]]]
        /\ ids' = Identity(Len(ids)) /\ projected' = Identity(Len(ids))
    BY <1>2 DEF Renumbered, Typed, TypeOK
  <2>2. ~CountsRows
    BY <1>2 DEF CountsRows, RowId, Narrows, Wanted
  <2>3. Len(ids) \in Nat /\ Len(ids) <= MaxSlots
    BY <2>2 DEF Typed, TypeOK
  <2>4. \A k \in 1 .. Len(ids) : emitted[ids[k]] \in Columns \cup {Computed}
    <3>1. \A k \in 1 .. Len(ids) : ids[k] \in 1 .. Len(emitted)
      BY <1>2 DEF Narrows, Wanted, Typed, TypeOK
    <3>2. QED
      BY <3>1 DEF Typed, TypeOK
  <2>5. emitted' \in Seq(Columns \cup {Computed}) /\ Len(emitted') = Len(ids)
    BY <2>1, <2>3, <2>4, SegmentSeq
  <2>6. Identity(Len(ids)) \in Seq(1 .. Len(ids)) /\ Len(Identity(Len(ids))) = Len(ids)
    BY <2>3, IdentityTyped
  <2>7. /\ ids' \in Seq(Columns \cup Virtual \cup 1 .. MaxSlots)
        /\ projected' \in Seq(Columns \cup 1 .. MaxSlots)
    <3>1. 1 .. Len(ids) \subseteq 1 .. MaxSlots
      BY <2>3
    <3>2. \A S : 1 .. MaxSlots \subseteq S => Identity(Len(ids)) \in Seq(S)
      <4>1. SUFFICES ASSUME NEW S, 1 .. MaxSlots \subseteq S PROVE Identity(Len(ids)) \in Seq(S)
        OBVIOUS
      <4>2. 1 .. Len(ids) \subseteq S
        BY <3>1, <4>1
      <4>3. QED
        BY <2>6, <4>2, SeqWithin
    <3>3. ids' = Identity(Len(ids)) /\ projected' = Identity(Len(ids))
      BY <2>1
    <3>4. QED
      BY <3>2, <3>3
  <2>8. QED
    BY <2>1, <2>3, <2>5, <2>6, <2>7 DEF Typed, TypeOK
<1>3. QED
  BY <1>1, <1>2

LEMMA ReadTyped == ASSUME ColumnsAssumption, Inv, Typed, Read PROVE Typed'
<1> USE DEF Read
<1>1. \A k \in 1 .. Len(ids) : Slot(emitted, projected, ids[k]) \in Columns \cup {RowId, Computed, NULL}
  <2>1. SUFFICES ASSUME NEW k \in 1 .. Len(ids)
                 PROVE  Slot(emitted, projected, ids[k]) \in Columns \cup {RowId, Computed, NULL}
    OBVIOUS
  <2>2. CASE ids[k] = RowId \/ \A p \in DOMAIN projected : projected[p] # ids[k]
    BY <2>2 DEF Slot
  <2>3. CASE ids[k] # RowId /\ \E p \in DOMAIN projected : projected[p] = ids[k]
    <3>1. PICK p \in DOMAIN projected : projected[p] = ids[k]
      BY <2>3
    <3>2. PICK i \in DOMAIN projected : Slot(emitted, projected, ids[k]) = emitted[i]
      BY <2>3, <3>1, SlotReads DEF Inv
    <3>3. i \in DOMAIN emitted
      BY DEF Typed, TypeOK
    <3>4. QED
      BY <3>2, <3>3 DEF Typed, TypeOK
  <2>4. QED
    BY <2>2, <2>3
<1>2. output' \in Seq(Columns \cup {RowId, Computed, NULL})
  <2>1. output' = [k \in 1 .. Len(ids) |-> Slot(emitted, projected, ids[k])] /\ Len(ids) \in Nat
    BY DEF Typed, TypeOK
  <2>2. QED
    BY <1>1, <2>1, SegmentSeq
<1>3. QED
  BY <1>2 DEF Typed, TypeOK, CountsRows

LEMMA NextTyped == ASSUME ColumnsAssumption, Inv, Typed, [Next]_vars PROVE Typed'
<1>1. CASE UNCHANGED vars
  BY <1>1 DEF vars, Typed, TypeOK, CountsRows
<1>2. QED
  BY <1>1, ResolveTyped, AlignTyped, FoldTyped, DropTyped, NarrowTyped, ReadTyped DEF Next

\* Every variable keeps its type: ids stay columns, virtual columns or positions,
\* a fragment emits nothing but columns and what was computed from them, and no
\* slot reads past what its fragment emits.
THEOREM SpecTypeOK == ASSUME ColumnsAssumption PROVE Spec => []TypeOK
<1>1. Init => Typed
  BY InitTyped
<1>2. Inv /\ Typed /\ [Next]_vars => Typed'
  BY NextTyped
<1>3. Typed => TypeOK
  BY DEF Typed
<1>4. QED
  BY <1>1, <1>2, <1>3, ColumnsInv, PTL DEF Spec

=============================================================================
