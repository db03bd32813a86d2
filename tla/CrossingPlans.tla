---------------------------- MODULE CrossingPlans ----------------------------
(***************************************************************************)
(* Logical plans and what they mean: which columns a node emits, which     *)
(* rows, and whether whoever runs a part of a plan is able to.  The passes *)
(* rewrite plans; these operators say what a rewriting must not change.    *)
(*                                                                         *)
(* A node is a record [op, t, exprs, kids, info].  t is its table index (0 *)
(* if it has none); exprs are its expressions whatever it uses them for:   *)
(* conjuncts, select list, join conditions, groups, sort keys, a bound.    *)
(* An expression is a record [f, v, args]: a column of the child by its    *)
(* binding <<t, i>>, a constant, or a call.                                *)
(***************************************************************************)
EXTENDS Integers, Sequences, FiniteSets, SequencesExt, FiniteSetsExt, TLC

CONSTANTS Sources,  \* what is attached
          Group,    \* Group: sources of one group serve one store
          Refused,  \* for each source, the calls and operators it says no to
          Stored,   \* for each table, its rows
          SingleJoinsRaise, \* the setting scalar_subquery_error_on_multiple_rows
          Target,   \* DuckDB itself, which runs what did not cross
          Null, Raised  \* no value; the error of a single join

\* Sources of one group answer the Accepts calls alike, as CrossingSource::Group demands.
ASSUME PlansAssumption ==
    /\ Target \notin Sources
    /\ \A s, r \in Sources : Group[s] = Group[r] => Refused[s] = Refused[r]

Node(op, t, exprs, kids, info) ==
    [op |-> op, t |-> t, exprs |-> exprs, kids |-> kids, info |-> info]

Expr(f, v, args) == [f |-> f, v |-> v, args |-> args]
Col(t, i) == Expr("column", <<t, i>>, <<>>)
Const(v) == Expr("constant", v, <<>>)
Call(f, args) == Expr(f, 0, args)

\* The same sequence; TLC computes its elements once and not whenever they are read.
Computed(seq) == <<>> \o seq

Places(t, n) == Computed([i \in 1 .. n |-> <<t, i>>])
Refs(bindings) == [i \in DOMAIN bindings |-> Col(bindings[i][1], bindings[i][2])]

Filter(exprs, kid) == Node("filter", 0, exprs, <<kid>>, {})
Project(t, exprs, kid) == Node("projection", t, exprs, <<kid>>, {})
Rows(t, rows) == Node("rows", t, <<>>, <<>>, rows)
Join(kind, exprs, left, right) == Node("join", 0, exprs, <<left, right>>, kind)
Seam(t, width) == Node("seam", t, <<>>, <<>>, width)
Floor(t, src, table) == Node("floor", t, <<>>, <<>>, [src |-> src, table |-> table])

Width(table) == Len(Stored[table][1])

(***************************************************************************)
(* A scan of a source.  Its fragment is what the source is sent; ids is    *)
(* get.column_ids, projected what each of the fragment's columns is to     *)
(* them.  BuildScanFragment numbers every fragment's indices from 0.       *)
(***************************************************************************)
BuildScanFragment(src, table) ==
    Project(1, Refs(Places(0, Width(table))), Floor(0, src, table))

Scan(t, src, table, ids, frozen) ==
    Node("scan", t, <<>>, <<>>,
         [src |-> src, table |-> table, ids |-> ids, frozen |-> frozen,
          projected |-> [i \in 1 .. Width(table) |-> i],
          plan |-> BuildScanFragment(src, table), folded |-> {}])

-----------------------------------------------------------------------------

Prefix(seq, n) == SubSeq(seq, 1, Min({n, Len(seq)}))

PlaceOf(seq, x) == SelectInSeq(seq, LAMBDA y : y = x)

RECURSIVE CallsIn(_), ColumnsIn(_), Replaced(_, _), Eval(_, _, _)

\* Every form an expression is made of, and every binding it reads.
CallsIn(e) == {e.f} \cup UNION {CallsIn(e.args[i]) : i \in DOMAIN e.args}

ColumnsIn(e) ==
    (IF e.f = "column" THEN {e.v} ELSE {}) \cup UNION {ColumnsIn(e.args[i]) : i \in DOMAIN e.args}

\* ColumnBindingReplacer, on one expression.
Replaced(e, map) ==
    [e EXCEPT !.v = IF e.f = "column" /\ e.v \in DOMAIN map THEN map[e.v] ELSE @,
              !.args = [i \in DOMAIN @ |-> Replaced(@[i], map)]]

Truth(b) == IF b THEN 1 ELSE 0
Negated(v) == IF v = Null THEN Null ELSE 1 - v
AllOf(values) ==
    IF 0 \in Range(values) THEN 0 ELSE IF Null \in Range(values) THEN Null ELSE 1
AnyOf(values) == Negated(AllOf([i \in DOMAIN values |-> Negated(values[i])]))

Compared(f, a, b) ==
    IF {a, b} \cap {Null, Raised} # {} THEN Null
    ELSE Truth(CASE f = "=" -> a = b [] f = "<" -> a < b [] f = "<=" -> a <= b [] f = ">" -> a > b [] f = ">=" -> a >= b)

FirstOf(values) == IF values = <<>> THEN Null ELSE values[1]
NonNull(values) == SelectSeq(values, LAMBDA v : v # Null)

IsAmong(arg) == AnyOf([i \in 1 .. Len(arg) - 1 |-> Compared("=", arg[1], arg[i + 1])])

\* What DuckDB's functions make of numbers.
Arithmetic(f, arg) ==
    CASE f = "big" -> Truth(arg[1] > 1)
      [] f = "odd" -> arg[1] % 2
      [] f = "+" -> arg[1] + arg[2]
      [] f = "-" -> arg[1] - arg[2]
      [] f \in {"%", "mod"} -> arg[1] % arg[2]
      [] f = "//" -> arg[1] \div arg[2]

\* A form over the values of its arguments; v is what else an expression holds.
Applied(f, v, arg) ==
    CASE f = "and" -> AllOf(arg)
      [] f = "or" -> AnyOf(arg)
      [] f = "not" -> Negated(arg[1])
      [] f = "is_null" -> Truth(arg[1] = Null)
      [] f = "coalesce" -> FirstOf(NonNull(arg))
      [] f = "case" -> IF arg[1] = 1 THEN arg[2] ELSE arg[3]
      [] f = "in" -> IsAmong(arg)
      [] f = "not_in" -> Negated(IsAmong(arg))
      [] f = "between" -> AllOf(<<Compared(v[1], arg[1], arg[2]), Compared(v[2], arg[1], arg[3])>>)
      [] f \in {"=", "<", "<=", ">", ">="} -> Compared(f, arg[1], arg[2])
      [] OTHER -> IF Range(arg) \cap {Null, Raised} # {} THEN Null ELSE Arithmetic(f, arg)

\* A volatile call shows where it was evaluated: it answers by the width of the row it saw.
Eval(e, scope, row) ==
    CASE e.f = "column" -> IF e.v \in Range(scope) THEN row[PlaceOf(scope, e.v)] ELSE Raised
      [] e.f = "constant" -> e.v
      [] e.f = "volatile" -> (Len(row) \div 2) % 2
      [] OTHER -> Applied(e.f, e.v, Computed([i \in DOMAIN e.args |-> Eval(e.args[i], scope, row)]))

EvalAll(exprs, scope, row) == Computed([i \in DOMAIN exprs |-> Eval(exprs[i], scope, row)])
Holds(exprs, scope, row) == AllOf(EvalAll(exprs, scope, row)) = 1

-----------------------------------------------------------------------------
(* What operators make of rows, whose columns scope names.                 *)

\* The elements of a sequence at some places, and at those that pass a test.
Picked(seq, places) == Computed([k \in DOMAIN places |-> seq[places[k]]])
AtPlaces(seq, Test(_)) == Picked(seq, SelectSeq([i \in DOMAIN seq |-> i], Test))

\* The rows whose keys no row before them has.
FirstsBy(rows, key) == AtPlaces(rows, LAMBDA r : \A j \in 1 .. r - 1 : key[j] # key[r])
Distinct(rows) == FirstsBy(rows, rows)

KeysOfRows(rows, exprs, scope) == Computed([r \in DOMAIN rows |-> EvalAll(exprs, scope, rows[r])])
FirstsOn(rows, exprs, scope) == FirstsBy(rows, KeysOfRows(rows, exprs, scope))

Nulls(n) == [i \in 1 .. n |-> Null]

\* What a single join puts beside a row.  Several matches are an error wherever a source runs
\* the join, and on the target unless its setting is off; then the first of them is taken.
TheOne(matches, atTarget) ==
    IF Len(matches) > 1 /\ (SingleJoinsRaise \/ ~atTarget)
    THEN <<[i \in DOMAIN matches[1] |-> Raised]>> ELSE Prefix(matches, 1)

\* The rows of a join's right side that a row of its left is put beside.
RightsOf(kind, matches, width, atTarget) ==
    CASE kind \in {"left", "outer", "single"} /\ matches = <<>> -> <<Nulls(width)>>
      [] kind = "single" /\ matches # <<>> -> TheOne(matches, atTarget)
      [] OTHER -> matches

MarkOf(values) == IF 1 \in values THEN 1 ELSE IF Null \in values THEN Null ELSE 0

RowOr(side, i, width) == IF i \in DOMAIN side THEN side[i] ELSE Nulls(width)

\* What conjuncts say of each row of one side and each of the other.
Conditions(exprs, scope, left, right) ==
    Computed([i \in DOMAIN left |-> Computed([j \in DOMAIN right |-> AllOf(EvalAll(exprs, scope, left[i] \o right[j]))])])

\* The rows of a join; widths are its sides', on[i][j] is what its condition says of two rows.
JoinedRows(kind, left, right, widths, on, atTarget) ==
    LET Matches(i) == AtPlaces(right, LAMBDA j : on[i][j] = 1)
        Beside(i, rights) == [k \in DOMAIN rights |-> left[i] \o rights[k]]
        pairs == FlattenSeq(Computed([i \in DOMAIN left |-> Beside(i, RightsOf(kind, Matches(i), widths[2], atTarget))]))
        lonely == AtPlaces(right, LAMBDA j : \A i \in DOMAIN left : on[i][j] # 1)
    IN  CASE kind \in {"semi", "anti"} -> AtPlaces(left, LAMBDA i : (1 \in Range(on[i])) = (kind = "semi"))
          [] kind = "right_semi" -> SelectSeq(right, LAMBDA r : r \notin Range(lonely))
          [] kind = "right_anti" -> lonely
          [] kind = "mark" -> Computed([i \in DOMAIN left |-> Append(left[i], MarkOf(Range(on[i])))])
          [] kind = "positional" -> Computed([i \in 1 .. Max({Len(left), Len(right)}) |->
                                        RowOr(left, i, widths[1]) \o RowOr(right, i, widths[2])])
          [] OTHER -> pairs \o (IF kind \in {"right", "outer"}
                                THEN [j \in DOMAIN lonely |-> Nulls(widths[1]) \o lonely[j]] ELSE <<>>)

\* What an aggregate makes of the values it is of.
Aggregated(f, values) ==
    CASE f = "count" -> Len(NonNull(values))
      [] f \in {"sum", "sum_no_overflow"} ->
           IF NonNull(values) = <<>> THEN Null ELSE FoldSeq(LAMBDA x, y : x + y, 0, NonNull(values))
      [] f = "first" -> FirstOf(values)
      [] f = "any_value" -> FirstOf(NonNull(values))

RECURSIVE MeasureOf(_, _, _)

\* An aggregate over rows; its v is 1 if it is of the distinct values.
MeasureOf(m, scope, rows) ==
    LET all == Computed([r \in DOMAIN rows |-> Eval(m.args[1], scope, rows[r])])
    IN  CASE m.f = "filtered" ->
               MeasureOf(m.args[1], scope, SelectSeq(rows, LAMBDA r : Eval(m.args[2], scope, r) = 1))
          [] m.f = "count_star" \/ (m.f = "count" /\ m.args = <<>>) -> Len(rows)
          [] OTHER -> Aggregated(m.f, IF m.v = 1 THEN Distinct(all) ELSE all)

Measured(measures, scope, rows) ==
    Computed([m \in DOMAIN measures |-> MeasureOf(measures[m], scope, rows)])

\* One row for each group, the groups as they first appear; key has the groups' values by row.
RowsOfGroups(measures, scope, rows, key) ==
    LET groups == Distinct(key)
    IN  Computed([g \in DOMAIN groups |->
            groups[g] \o Measured(measures, scope, AtPlaces(rows, LAMBDA r : key[r] = groups[g]))])

\* Without groups there is one row in all.
GroupedRows(groups, measures, scope, rows) ==
    IF groups = <<>> THEN <<Measured(measures, scope, rows)>>
    ELSE RowsOfGroups(measures, scope, rows, KeysOfRows(rows, groups, scope))

Direction(desc, first) == [desc |-> desc, nulls_first |-> first]
Ascending == Direction(FALSE, FALSE)

Less(a, b, dir) ==
    /\ a # b
    /\ IF a = Null THEN dir.nulls_first
       ELSE IF b = Null THEN ~dir.nulls_first
       ELSE IF dir.desc THEN a > b ELSE a < b

Ahead(one, two, dirs) ==
    \E k \in DOMAIN dirs : (\A m \in 1 .. k - 1 : one[m] = two[m]) /\ Less(one[k], two[k], dirs[k])

\* The places of rows in the order of their keys.
OrderOf(key, dirs) ==
    SortSeq([r \in DOMAIN key |-> r],
            LAMBDA i, j : Ahead(key[i], key[j], dirs) \/ (~Ahead(key[j], key[i], dirs) /\ i < j))

SortedRows(rows, keys, dirs, scope) == Picked(rows, OrderOf(KeysOfRows(rows, keys, scope), dirs))

Occurrence(rows, i) == Cardinality({j \in 1 .. i : rows[j] = rows[i]})
Times(rows, row) == Cardinality({j \in DOMAIN rows : rows[j] = row})

SetRows(op, all, one, two) ==
    LET Kept(i) == CASE op = "except" -> Occurrence(one, i) > Times(two, one[i])
                     [] op = "intersect" -> Occurrence(one, i) <= Times(two, one[i])
    IN  IF op = "union" THEN IF all THEN one \o two ELSE Distinct(one \o two)
        ELSE IF all THEN AtPlaces(one, Kept)
        ELSE SelectSeq(Distinct(one), LAMBDA r : (r \in Range(two)) = (op = "intersect"))

(***************************************************************************)
(* The values of a window function, row by row.  Its v says how its        *)
(* arguments are divided (its own, then v.parts partitions, then one key   *)
(* for each of v.dirs) and gives the two bounds of its frame.              *)
(***************************************************************************)
EdgeOf(bound, at, outermost, of_peers) ==
    CASE bound.edge = "unbounded" -> outermost
      [] bound.edge = "current" -> IF bound.unit = "range" THEN of_peers ELSE at
      [] bound.edge = "preceding" -> at - bound.offset
      [] bound.edge = "following" -> at + bound.offset

\* The rows of a partition that are in the frame of the one at a place.
FrameOf(v, sorted, at, peers) ==
    SubSeq(sorted, Max({1, EdgeOf(v.lower, at, 1, Min(peers))}),
           Min({Len(sorted), EdgeOf(v.upper, at, Len(sorted), Max(peers))}))

\* The value beside the row at a place of its partition, sorted; peers are the places as far as it.
ValueAt(e, own, scope, rows, sorted, at, peers) ==
    CASE e.f = "row_number" -> at
      [] e.f = "rank" -> Min(peers)
      [] OTHER -> MeasureOf(Call(e.f, SubSeq(e.args, 1, own)), scope, Picked(rows, FrameOf(e.v, sorted, at, peers)))

ValueBeside(i, e, own, scope, rows, key, sorted) ==
    ValueAt(e, own, scope, rows, sorted, PlaceOf(sorted, i), {k \in DOMAIN sorted : key[sorted[k]] = key[i]})

ValuesOver(e, own, scope, rows, part, key, order) ==
    Computed([i \in DOMAIN rows |->
        ValueBeside(i, e, own, scope, rows, key, SelectSeq(order, LAMBDA j : part[j] = part[i]))])

ValuesSorted(e, own, scope, rows, part, key) == ValuesOver(e, own, scope, rows, part, key, OrderOf(key, e.v.dirs))

WindowValues(e, scope, rows) ==
    LET own == Len(e.args) - e.v.parts - Len(e.v.dirs)
    IN  ValuesSorted(e, own, scope, rows,
                     KeysOfRows(rows, SubSeq(e.args, own + 1, own + e.v.parts), scope),
                     KeysOfRows(rows, SubSeq(e.args, own + e.v.parts + 1, Len(e.args)), scope))

\* Rows, each beside its values.
WithValues(rows, values) == Computed([r \in DOMAIN rows |-> rows[r] \o [i \in DOMAIN values |-> values[i][r]]])

-----------------------------------------------------------------------------

RECURSIVE Bindings(_), Means(_, _)

\* GetColumnBindings
Bindings(p) ==
    CASE p.op = "scan" -> Places(p.t, Len(p.info.ids))
      [] p.op \in {"floor", "base"} -> Places(p.t, Width(p.info.table))
      [] p.op = "local" -> Places(p.t, Width(p.info))
      [] p.op = "seam" -> Places(p.t, p.info)
      [] p.op \in {"rows", "values"} -> Places(p.t, Len(p.info[1]))
      [] p.op = "cteref" -> Places(p.t, p.info.width)
      [] p.op \in {"insert", "update", "delete", "fence", "seam insert"} -> Places(p.t, 1)
      [] p.op = "projection" -> Places(p.t, Len(p.exprs))
      [] p.op = "empty" -> Places(p.t, p.info)
      [] p.op = "aggregate" -> Places(p.t, p.info.groups) \o Places(p.info.index, Len(p.exprs) - p.info.groups)
      [] p.op \in {"union", "except", "intersect"} -> Places(p.t, Len(Bindings(p.kids[1])))
      [] p.op = "window" -> Bindings(p.kids[1]) \o Places(p.t, Len(p.exprs))
      [] p.op = "join" /\ p.info \in {"semi", "anti"} -> Bindings(p.kids[1])
      [] p.op = "join" /\ p.info \in {"right_semi", "right_anti"} -> Bindings(p.kids[2])
      [] p.op = "join" /\ p.info = "mark" -> Append(Bindings(p.kids[1]), <<p.t, 1>>)
      [] p.op = "join" -> Bindings(p.kids[1]) \o Bindings(p.kids[2])
      [] p.op = "cte" -> Bindings(p.kids[2])
      [] OTHER -> Bindings(p.kids[1])

Scope(p) == Computed(FlattenSeq([c \in DOMAIN p.kids |-> Bindings(p.kids[c])]))

\* An aggregate's expressions are its groups and its measures, a distinct on's its targets and keys.
GroupsOf(p) == SubSeq(p.exprs, 1, p.info.groups)
MeasuresOf(p) == SubSeq(p.exprs, p.info.groups + 1, Len(p.exprs))
TargetsOf(p) == SubSeq(p.exprs, 1, p.info.targets)
KeysOf(p) == SubSeq(p.exprs, p.info.targets + 1, Len(p.exprs))

\* A limit's expressions are its count and, if it has one, its offset; a count may be Null, for none.
Fetched(rows, bounds) ==
    LET from == IF Len(bounds) = 2 THEN bounds[2] ELSE 0
        rest == SubSeq(rows, from + 1, Len(rows))
    IN  IF bounds[1] = Null THEN rest ELSE Prefix(rest, bounds[1])

(***************************************************************************)
(* The rows of a plan.  env holds who runs it and the rows of the common   *)
(* table expressions and seams in scope, by their index.                   *)
(***************************************************************************)
Means(p, env) ==
    LET one == Means(p.kids[1], env)
        two == Means(p.kids[2], env)
        scope == Scope(p)
    IN  CASE p.op \in {"floor", "base"} -> Stored[p.info.table]
          [] p.op = "local" -> Stored[p.info]
          [] p.op = "scan" ->
               LET out == Means(p.info.plan, 0 :> p.info.src)
               IN  Computed([r \in DOMAIN out |-> Computed([k \in DOMAIN p.info.ids |->
                       out[r][PlaceOf(p.info.projected, p.info.ids[k])]])])
          [] p.op = "rows" -> p.info
          [] p.op = "values" -> Computed([r \in DOMAIN p.info |-> EvalAll(p.info[r], <<>>, <<0>>)])
          [] p.op = "cteref" -> env[p.info.cte]
          [] p.op = "seam" -> env[p.t]
          [] p.op = "filter" -> SelectSeq(one, LAMBDA r : Holds(p.exprs, scope, r))
          [] p.op = "projection" -> Computed([r \in DOMAIN one |-> EvalAll(p.exprs, scope, one[r])])
          [] p.op = "empty" -> <<>>
          [] p.op = "limit" -> Fetched(one, EvalAll(p.exprs, <<>>, <<0>>))
          [] p.op = "order" -> SortedRows(one, p.exprs, p.info, scope)
          [] p.op = "top n" -> Fetched(SortedRows(one, p.exprs, p.info.dirs, scope), p.info.bounds)
          [] p.op = "distinct" -> Distinct(one)
          [] p.op = "distinct on" ->
               FirstsOn(SortedRows(one, KeysOf(p), p.info.dirs, scope), TargetsOf(p), scope)
          [] p.op = "window" ->
               WithValues(one, Computed([i \in DOMAIN p.exprs |-> WindowValues(p.exprs[i], scope, one)]))
          [] p.op = "aggregate" -> GroupedRows(GroupsOf(p), MeasuresOf(p), scope, one)
          [] p.op = "join" ->
               JoinedRows(p.info, one, two, <<Len(Bindings(p.kids[1])), Len(Bindings(p.kids[2]))>>,
                          Conditions(p.exprs, Computed(Bindings(p.kids[1]) \o Bindings(p.kids[2])), one, two), env[0] = Target)
          [] p.op \in {"union", "except", "intersect"} ->
               FoldLeft(LAMBDA rows, kid : SetRows(p.op, p.info = "all", rows, Means(kid, env)), one, Tail(p.kids))
          [] p.op = "cte" -> Means(p.kids[2], p.info :> one @@ env)

-----------------------------------------------------------------------------

RECURSIVE IndicesOf(_), FloorsOf(_), Runs(_, _, _)

\* The table indices a plan defines, once for each definition.
IndicesOf(p) ==
    (IF p.t = 0 /\ p.op # "floor" THEN <<>> ELSE <<p.t>>)
    \o (IF p.op = "aggregate" THEN <<p.info.index>> ELSE <<>>)
    \o FlattenSeq([c \in DOMAIN p.kids |-> IndicesOf(p.kids[c])])

\* The sources whose tables a fragment reads.
FloorsOf(p) ==
    (IF p.op = "floor" THEN {p.info.src} ELSE {}) \cup UNION {FloorsOf(p.kids[c]) : c \in DOMAIN p.kids}

(***************************************************************************)
(* Whether who is able to run p, with the indices in known defined above   *)
(* it: every binding is of a column below, every index is defined once, a  *)
(* floor is in the hands of its store, and a source computes nothing it    *)
(* refused, nothing volatile and nothing that lives on the target.         *)
(***************************************************************************)
Runs(p, who, known) ==
    LET below == Range(Scope(p))
        read == UNION {ColumnsIn(p.exprs[i]) : i \in DOMAIN p.exprs}
        called == UNION {CallsIn(p.exprs[i]) : i \in DOMAIN p.exprs}
    IN  /\ \A c \in DOMAIN p.kids :
              Runs(p.kids[c], who, IF p.op = "cte" /\ c = 2 THEN known \cup {p.info} ELSE known)
        /\ read \subseteq below
        /\ p.op = "cteref" => p.info.cte \in known
        /\ p.op = "seam" => p.t \in known
        /\ IF who = Target
           THEN /\ p.op \notin {"floor", "base"}
                /\ p.op = "scan" => /\ Runs(p.info.plan, p.info.src, {})
                                    /\ IsInjective(IndicesOf(p.info.plan))
           ELSE /\ p.op \notin {"scan", "local", "values"}
                /\ p.op \in {"floor", "base"} => Group[p.info.src] = Group[who]
                /\ Refused[who] \cap ({p.op} \cup called) = {}
                /\ "volatile" \notin called
=============================================================================
