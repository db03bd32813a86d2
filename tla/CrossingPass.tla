----------------------------- MODULE CrossingPass ----------------------------
(***************************************************************************)
(* The first half of the pass before DuckDB's optimizers:                  *)
(* FoldCrossableWorkIntoFragments moves as much of a bound plan as the     *)
(* sources compute into the fragments of their scans.  One action per step *)
(* of the pass, in the code's order.  CrossingFill adds what the pass does *)
(* to writes, before these steps and after them.                           *)
(***************************************************************************)
EXTENDS CrossingPlans

CONSTANTS Shapes,     \* the bound plans to start from
          PlanOf(_)   \* the plan of a shape

VARIABLES
    plan,    \* the plan
    stage,   \* the step that was taken last
    folds,   \* the places of the plan that LabelSubtrees found to fold
    rewired, \* ReplacementBindings: what reads a folded subtree has to read instead
    asked    \* the plan as it was bound

vars == <<plan, stage, folds, rewired, asked>>

\* Fresh table indices: no bound plan has one as high, and no two uses of one kind share t.
Fresh(kind, t) == 100 * kind + t

RECURSIVE HoldsScan(_), FirstScanBelow(_), MaterialiseConstantRows(_), Narrowed(_), Pushed(_)

\* PlanHoldsCrossing
HoldsScan(p) == p.op = "scan" \/ \E c \in DOMAIN p.kids : HoldsScan(p.kids[c])

\* SourceOfFirstScanBelow, or Target.
FirstScanBelow(p) ==
    IF p.op = "scan" THEN p.info.src
    ELSE LET found == SelectSeq([c \in DOMAIN p.kids |-> FirstScanBelow(p.kids[c])], LAMBDA s : s # Target)
         IN  IF found = <<>> THEN Target ELSE found[1]

Rebuilt(p, kids) == [p EXCEPT !.kids = kids]

-----------------------------------------------------------------------------

IsColumnFree(e) == ColumnsIn(e) = {}

\* IsFoldable, of DuckDB: the same value whenever it is computed.
IsFoldable(e) == IsColumnFree(e) /\ "volatile" \notin CallsIn(e)

\* A VALUES list of constants becomes rows; any other stays as it is.
MaterialiseConstantRows(p) ==
    IF p.op = "values" /\ \A r \in DOMAIN p.info : \A c \in DOMAIN p.info[r] : IsFoldable(p.info[r][c])
    THEN Rows(p.t, Means(p, 0 :> Target))
    ELSE Rebuilt(p, [c \in DOMAIN p.kids |-> MaterialiseConstantRows(p.kids[c])])

-----------------------------------------------------------------------------

\* A bug: fragments keep the indices they were built with, which start at 0 in each.
NotRemapped(scan) == 0

\* RemapTableIndices: the index of the fragment's floor becomes one that no other node has.
RemapTableIndices(scan) == Fresh(1, scan.t)

\* NarrowFragmentToScan, with RebuildPlanForColumns and AdoptTableIndex.
NarrowFragmentToScan(scan) ==
    LET floor == RemapTableIndices(scan)
        columns == IF scan.info.ids = <<>> THEN <<1>> ELSE scan.info.ids
        select == [k \in DOMAIN columns |-> Col(floor, columns[k])]
    IN  [scan EXCEPT !.info.plan = Project(scan.t, select, [@.kids[1] EXCEPT !.t = floor]),
                     !.info.projected = columns]

\* NarrowEveryFragmentToItsScan
Narrowed(p) ==
    IF p.op = "scan" THEN IF p.info.frozen THEN p ELSE NarrowFragmentToScan(p)
    ELSE Rebuilt(p, [c \in DOMAIN p.kids |-> Narrowed(p.kids[c])])

-----------------------------------------------------------------------------

IsInnerJoin(p) == p.op = "join" /\ p.info = "inner"

BindsOnlyTo(e, tables) == \A b \in ColumnsIn(e) : b[1] \in tables

TableIndicesOf(p) == {b[1] : b \in Range(Bindings(p))}

\* A bug: a volatile conjunct is pushed below the join like any other.
PushesAny(e, branch) ==
    /\ FirstScanBelow(branch) # Target
    /\ BindsOnlyTo(e, TableIndicesOf(branch))

\* Whether a conjunct above a join is of one branch, which reads a source.
Pushes(e, branch) ==
    /\ "volatile" \notin CallsIn(e)
    /\ FirstScanBelow(branch) # Target
    /\ BindsOnlyTo(e, TableIndicesOf(branch))

\* The branch PushOneFilter moves a conjunct into: the first it fits, or none.
SideOf(e, join) ==
    SelectInSeq(join.kids, LAMBDA branch : Pushes(e, branch))

PushOneFilter(p) ==
    LET join == p.kids[1]
        ToSide(s) == SelectSeq(p.exprs, LAMBDA e : SideOf(e, join) = s)
        Below(s) == IF ToSide(s) = <<>> THEN join.kids[s] ELSE Filter(ToSide(s), join.kids[s])
        under == Rebuilt(join, [s \in DOMAIN join.kids |-> Below(s)])
    IN  IF ~IsInnerJoin(join) THEN p
        ELSE IF ToSide(0) = <<>> THEN under ELSE Filter(ToSide(0), under)

\* PushFiltersIntoJoinBranches
Pushed(p) ==
    LET q == Rebuilt(p, [c \in DOMAIN p.kids |-> Pushed(p.kids[c])])
    IN  IF p.op = "filter" THEN PushOneFilter(q) ELSE q

-----------------------------------------------------------------------------

\* The forms DuckDB binds as functions and a source takes as its own.
EngineForms == {"column", "="}

\* VerdictOn, with the source's AcceptsType and AcceptsCall.
VerdictOn(e, source) ==
    /\ (CallsIn(e) \ EngineForms) \cap Refused[source] = {}
    /\ "volatile" \notin CallsIn(e)

\* A bug: the half that stays goes below the half that crosses.
SplitUpsideDown(p, source, evaluable_above) ==
    LET evaluable == SelectSeq(p.exprs, LAMBDA e : VerdictOn(e, source))
        kept == SelectSeq(p.exprs, LAMBDA e : ~VerdictOn(e, source))
    IN  IF source = Target \/ evaluable = <<>> \/ kept = <<>> THEN p
        ELSE Filter(evaluable, Filter(kept, p.kids[1]))

\* SplitOneFilter: the half that crosses goes below the half that stays, or above it.
SplitOneFilter(p, source, evaluable_above) ==
    LET evaluable == SelectSeq(p.exprs, LAMBDA e : VerdictOn(e, source))
        kept == SelectSeq(p.exprs, LAMBDA e : ~VerdictOn(e, source))
    IN  IF source = Target \/ Len(p.exprs) < 2 THEN p
        ELSE IF evaluable = <<>> \/ kept = <<>> THEN [p EXCEPT !.exprs = evaluable \o kept]
        ELSE IF evaluable_above THEN Filter(evaluable, Filter(kept, p.kids[1]))
        ELSE Filter(kept, Filter(evaluable, p.kids[1]))

RECURSIVE SplitAtEvaluableHalf(_), RejoinOne(_), Rejoined(_)

SplitAtEvaluableHalf(p) ==
    LET q == Rebuilt(p, [c \in DOMAIN p.kids |-> SplitAtEvaluableHalf(p.kids[c])])
    IN  IF p.op = "filter" THEN SplitOneFilter(q, FirstScanBelow(q.kids[1]), FALSE) ELSE q

\* RejoinOneFilter, as often as it goes: a filter takes in the one directly below it.
RejoinOne(p) ==
    IF p.op = "filter" /\ p.kids[1].op = "filter"
    THEN RejoinOne(Filter(p.exprs \o p.kids[1].exprs, p.kids[1].kids[1]))
    ELSE p

\* RejoinAdjacentFiltersEverywhere, in the fragments too.
Rejoined(p) ==
    IF p.op = "scan" THEN [p EXCEPT !.info.plan = Rejoined(@)]
    ELSE RejoinOne(Rebuilt(p, [c \in DOMAIN p.kids |-> Rejoined(p.kids[c])]))

-----------------------------------------------------------------------------

\* The operators RuleKindFor knows a rule for; of the others none crosses.
Evaluable == {"filter", "projection", "aggregate", "join", "union", "cte", "cteref"}
RuleKindFor(op) ==
    CASE op \in Evaluable -> "evaluable"
      [] op = "limit" -> "limit"
      [] op = "order" -> "order"
      [] op \in {"insert", "update", "delete"} -> "never"
      [] OTHER -> "none"

IsSingleJoin(p) == p.op = "join" /\ p.info = "single"

\* NodeVerdict: the rule of its kind, all its expressions, and the source's AcceptsOperator.
NodeCanCross(p, source) ==
    /\ RuleKindFor(p.op) \in {"evaluable", "limit", "order"}
    /\ p.op = "limit" => IsColumnFree(p.exprs[1])
    /\ p.op = "order" => p.exprs # <<>>
    /\ \A i \in DOMAIN p.exprs : VerdictOn(p.exprs[i], source)
    /\ p.op \notin Refused[source]

(***************************************************************************)
(* A label: the source a subtree crosses to, or Target; whether it crosses *)
(* to any, reading none; and the definitions above it that it refers to.   *)
(***************************************************************************)
Label(source, anywhere, open) == [source |-> source, anywhere |-> anywhere, open |-> open]
NoLabel == Label(Target, FALSE, {})
Unlabelled(label) == label.source = Target /\ ~label.anywhere

RECURSIVE SubtreeCrossesTo(_, _), LabelSubtree(_, _, _), LabelledPlaces(_, _, _, _)

SubtreeCrossesTo(p, source) ==
    p.op = "rows" \/ (NodeCanCross(p, source) /\ \A c \in DOMAIN p.kids : SubtreeCrossesTo(p.kids[c], source))

\* What a node makes of its children's labels.
Judged(p, labels, fence) ==
    LET reading == SelectSeq(labels, LAMBDA l : l.source # Target)
        source == IF reading = <<>> THEN Target ELSE reading[Len(reading)].source
        asked_of == IF source = Target THEN fence ELSE source
        unasked == IF fence = Target THEN {c \in DOMAIN labels : labels[c].source = Target} ELSE {}
        open == UNION {labels[c].open : c \in DOMAIN labels}
    IN  IF /\ labels # <<>>
           /\ \A c \in DOMAIN labels : ~Unlabelled(labels[c])
           /\ \A c \in DOMAIN reading : Group[reading[c].source] = Group[source]
           /\ source # Target => \A c \in unasked : SubtreeCrossesTo(p.kids[c], source)
           /\ RuleKindFor(p.op) # "none"
           /\ (IsSingleJoin(p) => SingleJoinsRaise)
           /\ asked_of # Target => NodeCanCross(p, asked_of)
        THEN Label(source, source = Target, IF p.op = "cte" THEN open \ {p.info} ELSE open)
        ELSE NoLabel

\* A reference has the label of its definition, and stays open.
OpenRef(cte, label) == [label EXCEPT !.open = @ \cup {cte}]

\* The definitions a child may refer to: the first child of a CTE defines what the second reads.
Defining(p, c, defs, fence) ==
    IF p.op = "cte" /\ c = 2 THEN p.info :> LabelSubtree(p.kids[1], defs, fence) @@ defs ELSE defs

LabelSubtree(p, defs, fence) ==
    CASE p.op = "scan" -> Label(p.info.src, FALSE, {})
      [] p.op = "rows" -> Label(Target, TRUE, {})
      [] p.op = "cteref" ->
           IF p.info.cte \in DOMAIN defs /\ ~Unlabelled(defs[p.info.cte])
           THEN OpenRef(p.info.cte, defs[p.info.cte]) ELSE NoLabel
      [] OTHER -> Judged(p, [c \in DOMAIN p.kids |-> LabelSubtree(p.kids[c], Defining(p, c, defs, fence), fence)],
                         fence)

\* SubtreeHoldsFrozenScan
RECURSIVE HoldsFrozenScan(_)
HoldsFrozenScan(p) ==
    (p.op = "scan" /\ p.info.frozen) \/ \E c \in DOMAIN p.kids : HoldsFrozenScan(p.kids[c])

(***************************************************************************)
(* The places FoldEveryLabelledSubtree folds: the topmost ones that are    *)
(* labelled with a source, closed, and hold no frozen scan.                *)
(***************************************************************************)
LabelledPlaces(p, place, defs, fence) ==
    LET label == LabelSubtree(p, defs, fence)
    IN  IF label.source # Target /\ label.open = {} /\ ~HoldsFrozenScan(p) THEN {place}
        ELSE UNION {LabelledPlaces(p.kids[c], Append(place, c), Defining(p, c, defs, fence), fence) :
                       c \in DOMAIN p.kids}

-----------------------------------------------------------------------------

RECURSIVE At(_, _), ScansOf(_), UnfoldScansIntoPlace(_), FoldedAt(_, _, _), RewiredIn(_, _)

At(p, place) == IF place = <<>> THEN p ELSE At(p.kids[Head(place)], Tail(place))

\* CollectScanSlots
ScansOf(p) == IF p.op = "scan" THEN <<p>> ELSE FlattenSeq([c \in DOMAIN p.kids |-> ScansOf(p.kids[c])])

UnfoldScansIntoPlace(p) ==
    IF p.op = "scan" THEN p.info.plan
    ELSE Rebuilt(p, [c \in DOMAIN p.kids |-> UnfoldScansIntoPlace(p.kids[c])])

SpansTables(p) == \E b \in Range(Bindings(p)) : b[1] # Bindings(p)[1][1]

\* What a fold of a subtree that emits several tables' columns answers to.
FoldIndex(p) == IF SpansTables(p) THEN Fresh(2, ScansOf(p)[1].t) ELSE Bindings(p)[1][1]

\* A bug: only what the host itself took in before is kept.
FoldedOfHost(scans) == scans[1].info.folded

\* The sources of the scans, without the host.
FoldedSources(scans) ==
    UNION {{scans[s].info.src} \cup scans[s].info.folded : s \in DOMAIN scans} \ {scans[1].info.src}

\* Fold: the subtree goes into the fragment of its first scan, which takes its place.
FoldSubtreeIntoItsFragment(p) ==
    LET scans == ScansOf(p)
        root == FoldIndex(p)
        inner == UnfoldScansIntoPlace(p)
        positions == [i \in DOMAIN Bindings(p) |-> i]
    IN  IF p.op = "scan" THEN p
        ELSE [scans[1] EXCEPT !.t = root, !.info.ids = positions, !.info.projected = positions,
                 !.info.plan = IF SpansTables(p) THEN Project(root, Refs(Bindings(p)), inner) ELSE inner,
                 !.info.folded = FoldedSources(scans)]

FoldedAt(p, place, places) ==
    IF place \in places THEN FoldSubtreeIntoItsFragment(p)
    ELSE Rebuilt(p, [c \in DOMAIN p.kids |-> FoldedAt(p.kids[c], Append(place, c), places)])

\* What the readers of a folded subtree read instead.
Rewirings(p) ==
    IF p.op = "scan" \/ ~SpansTables(p) THEN <<>>
    ELSE LET emitted == Bindings(p)
         IN  [b \in Range(emitted) |-> <<FoldIndex(p), PlaceOf(emitted, b)>>]

\* ColumnBindingReplacer, on a plan.  It does not look into fragments.
RewiredIn(p, map) ==
    [p EXCEPT !.exprs = [i \in DOMAIN @ |-> Replaced(@[i], map)],
              !.kids = [c \in DOMAIN @ |-> RewiredIn(@[c], map)]]

-----------------------------------------------------------------------------

Init ==
    /\ \E shape \in Shapes : asked = PlanOf(shape)
    /\ plan = asked
    /\ stage = "bound"
    /\ folds = {}
    /\ rewired = <<>>

Step(from, to) == stage = from /\ stage' = to /\ UNCHANGED asked

\* Without a scan there is nothing for these two to do.
Materialise ==
    /\ Step("bound", "materialised")
    /\ plan' = IF HoldsScan(plan) THEN MaterialiseConstantRows(plan) ELSE plan
    /\ UNCHANGED <<folds, rewired>>

PassOver ==
    /\ Step("imaged", "rejoined")
    /\ ~HoldsScan(plan)
    /\ UNCHANGED <<plan, folds, rewired>>

Narrow ==
    /\ Step("imaged", "narrowed")
    /\ HoldsScan(plan)
    /\ plan' = Narrowed(plan)
    /\ UNCHANGED <<folds, rewired>>

Push ==
    /\ Step("narrowed", "pushed")
    /\ plan' = Pushed(plan)
    /\ UNCHANGED <<folds, rewired>>

Split ==
    /\ Step("pushed", "split")
    /\ plan' = SplitAtEvaluableHalf(plan)
    /\ UNCHANGED <<folds, rewired>>

LabelSubtrees ==
    /\ Step("split", "labelled")
    /\ folds' = LabelledPlaces(plan, <<>>, <<>>, Target)
    /\ UNCHANGED <<plan, rewired>>

Fold ==
    /\ Step("labelled", "folded")
    /\ plan' = FoldedAt(plan, <<>>, folds)
    /\ rewired' = FoldSet(LAMBDA place, map : Rewirings(At(plan, place)) @@ map, <<>>, folds)
    /\ UNCHANGED folds

Rewire ==
    /\ Step("folded", "rewired")
    /\ plan' = RewiredIn(plan, rewired)
    /\ UNCHANGED <<folds, rewired>>

Rejoin ==
    /\ Step("rewired", "rejoined")
    /\ plan' = Rejoined(plan)
    /\ UNCHANGED <<folds, rewired>>

FoldNext == PassOver \/ Narrow \/ Push \/ Split \/ LabelSubtrees \/ Fold \/ Rewire \/ Rejoin
=============================================================================
