-------------------------- MODULE CrossingSubstrait --------------------------
(***************************************************************************)
(* The wire format: RenderSubstraitJson turns a fragment into Substrait,   *)
(* DecodeSubstraitJson turns that into SQL on the source.  A plan names    *)
(* columns by bindings, the wire by their position below, the SQL by the   *)
(* names c0, c1, ... that every subquery gives its columns.  The source's  *)
(* tables may change between any two of planning, decoding and running.    *)
(***************************************************************************)
EXTENDS CrossingPlans

CONSTANTS Shapes,        \* what fragments to send
          FragmentOf(_), \* the fragment of a shape
          Planned,       \* for each table, its columns when it was described: [name, type]
          Gathered       \* the rows in a seam

VARIABLES
    fragment, \* the plan that a source is sent
    stage,
    columns,  \* for each table, the columns it has now: [name, type, data]
    message,  \* the wire plan and the seams that were staged with it
    query,    \* what was decoded
    answer    \* the rows

vars == <<fragment, stage, columns, message, query, answer>>

-----------------------------------------------------------------------------
(* Names and types. *)

ComparisonName ==
    "=" :> "equal" @@ "<" :> "lt" @@ "<=" :> "lte" @@ ">" :> "gt" @@ ">=" :> "gte"

ToSubstraitNames ==
    "+" :> "add" @@ "-" :> "subtract" @@ "//" :> "divide_int" @@ "%" :> "modulus" @@ "mod" :> "modulus"
    @@ "sum_no_overflow" :> "sum" @@ "count_star" :> "count" @@ "first" :> "any_value"

\* One of the names for each; then those that several were turned into.
FromSubstraitNames ==
    "modulus" :> "%" @@ "sum" :> "sum" @@ "count" :> "count" @@ "any_value" :> "first"
    @@ [name \in Range(ToSubstraitNames) |-> CHOOSE f \in DOMAIN ToSubstraitNames : ToSubstraitNames[f] = name]

Renamed(map, name) == IF name \in DOMAIN map THEN map[name] ELSE name
SubstraitFunctionName(name) == Renamed(ToSubstraitNames, name)
DuckDBFunctionName(name) == Renamed(FromSubstraitNames, name)

SimpleTypeKey ==
    "BOOLEAN" :> "bool" @@ "INTEGER" :> "i32" @@ "BIGINT" :> "i64" @@ "VARCHAR" :> "string"
    @@ "TIMESTAMP" :> "timestamp" @@ "TIMESTAMP_TZ" :> "timestampTz"
SimpleTypeOf ==
    "bool" :> "BOOLEAN" @@ "i32" :> "INTEGER" @@ "i64" :> "BIGINT" @@ "string" :> "VARCHAR"
    @@ "timestamp" :> "TIMESTAMP" @@ "timestampTz" :> "TIMESTAMP_TZ"

\* A type is [id, of]; of holds what a list or decimal is made of, or the text of any other.
Type(id, of) == [id |-> id, of |-> of]

RECURSIVE TypeToJson(_), TypeFromJson(_)
TypeToJson(type) ==
    CASE type.id \in DOMAIN SimpleTypeKey -> Type(SimpleTypeKey[type.id], <<>>)
      [] type.id = "DECIMAL" -> Type("decimal", type.of)
      [] type.id = "LIST" -> Type("list", <<TypeToJson(type.of[1])>>)
      [] OTHER -> Type("userDefined", type.id)

TypeFromJson(wire) ==
    CASE wire.id \in DOMAIN SimpleTypeOf -> Type(SimpleTypeOf[wire.id], <<>>)
      [] wire.id = "decimal" -> Type("DECIMAL", wire.of)
      [] wire.id = "list" -> Type("LIST", <<TypeFromJson(wire.of[1])>>)
      [] wire.id = "userDefined" -> Type(wire.of, <<>>)

ColumnName(i) == "c" \o ToString(i)
SeamTableName(index) == "seam_" \o ToString(index)
CteName(index) == "crossing_cte_" \o ToString(index)

-----------------------------------------------------------------------------
(* Rendering. *)

Rel(rel, inputs, body) == [rel |-> rel, inputs |-> inputs, body |-> body]

RECURSIVE Positional(_, _), Rendered(_), SeamsOf(_), Accepts(_)

Selection(scope, binding) == Expr("selection", PlaceOf(scope, binding) - 1, <<>>)

\* Renderer::Expr
Positional(e, scope) ==
    LET args == [i \in DOMAIN e.args |-> Positional(e.args[i], scope)]
    IN  CASE e.f = "column" -> Selection(scope, e.v)
          [] e.f = "constant" -> Expr("literal", e.v, <<>>)
          [] e.f = "case" -> Call("ifThen", args)
          [] e.f = "in" -> Call("singularOrList", args)
          [] e.f = "not_in" -> Call("not", <<Call("singularOrList", args)>>)
          [] e.f = "between" -> Call("and", <<Call(ComparisonName[e.v[1]], <<args[1], args[2]>>),
                                              Call(ComparisonName[e.v[2]], <<args[1], args[3]>>)>>)
          [] OTHER -> Call(Renamed(ComparisonName @@ ToSubstraitNames, e.f), args)

AllPositional(exprs, scope) == [i \in DOMAIN exprs |-> Positional(exprs[i], scope)]

Conjunction(exprs, scope) ==
    IF Len(exprs) = 1 THEN Positional(exprs[1], scope) ELSE Call("and", AllPositional(exprs, scope))

SortDirection(dir) ==
    {IF dir.desc THEN "DESC" ELSE "ASC", IF dir.nulls_first THEN "NULLS_FIRST" ELSE "NULLS_LAST"}

Sorts(keys, dirs, scope) ==
    [k \in DOMAIN keys |-> [expr |-> Positional(keys[k], scope), direction |-> SortDirection(dirs[k])]]

\* An aggregate, which may have a filter.
Measure(m, scope) ==
    LET plain == IF m.f = "filtered" THEN m.args[1] ELSE m
    IN  [name |-> SubstraitFunctionName(plain.f), distinct |-> plain.v = 1,
         args |-> AllPositional(plain.args, scope),
         filter |-> IF m.f = "filtered" THEN <<Positional(m.args[2], scope)>> ELSE <<>>]

\* On the wire only the whole frame says whether it is of rows or a range.
Window(e, scope) ==
    LET own == Len(e.args) - e.v.parts - Len(e.v.dirs)
        Bound(bound) == [edge |-> bound.edge, offset |-> bound.offset]
    IN  [name |-> SubstraitFunctionName(e.f),
         args |-> AllPositional(SubSeq(e.args, 1, own), scope),
         partitions |-> AllPositional(SubSeq(e.args, own + 1, own + e.v.parts), scope),
         sorts |-> Sorts(SubSeq(e.args, own + e.v.parts + 1, Len(e.args)), e.v.dirs, scope),
         range |-> "range" \in {e.v.lower.unit, e.v.upper.unit},
         lower |-> Bound(e.v.lower), upper |-> Bound(e.v.upper)]

BaseSchema(columns_) ==
    [names |-> [i \in DOMAIN columns_ |-> columns_[i].name],
     types |-> [i \in DOMAIN columns_ |-> TypeToJson(columns_[i].type)]]

Fields(n) == [i \in 1 .. n |-> i - 1]

Read(table) ==
    Rel("read", <<>>, [names |-> <<"main", table>>, base |-> BaseSchema(Planned[table]),
                       fields |-> Fields(Len(Planned[table]))])

SeamRead(p) ==
    Rel("read", <<>>, [names |-> <<SeamTableName(p.t)>>, base |-> <<>>, fields |-> Fields(p.info)])

JoinTypeName ==
    "inner" :> "INNER" @@ "left" :> "LEFT" @@ "right" :> "RIGHT" @@ "outer" :> "OUTER" @@ "semi" :> "LEFT_SEMI"
    @@ "anti" :> "LEFT_ANTI" @@ "right_semi" :> "RIGHT_SEMI" @@ "right_anti" :> "RIGHT_ANTI"
    @@ "mark" :> "LEFT_MARK" @@ "single" :> "LEFT_SINGLE"

RenderedJoin(p, inputs) ==
    CASE p.info = "positional" -> Rel("PositionalJoin", inputs, <<>>)
      [] p.info = "inner" /\ p.exprs = <<>> -> Rel("cross", inputs, <<>>)
      [] OTHER -> Rel("join", inputs, [type |-> JoinTypeName[p.info],
                                       on |-> IF p.exprs = <<>> THEN <<>> ELSE <<Conjunction(p.exprs, Scope(p))>>])

RenderedAggregate(inputs, groups, measures, scope) ==
    Rel("aggregate", inputs, [groups |-> AllPositional(groups, scope),
                              measures |-> [m \in DOMAIN measures |-> Measure(measures[m], scope)]])

\* ProjectOver: a projection emits its expressions alone, which stand behind its input's columns.
EmitMapping(p) == [i \in DOMAIN p.exprs |-> Len(Scope(p)) + i - 1]

SetOpName ==
    <<"union", "all">> :> "UNION_ALL" @@ <<"union", "distinct">> :> "UNION_DISTINCT"
    @@ <<"except", "all">> :> "MINUS_PRIMARY_ALL" @@ <<"except", "distinct">> :> "MINUS_PRIMARY"
    @@ <<"intersect", "all">> :> "INTERSECTION_PRIMARY_ALL" @@ <<"intersect", "distinct">> :> "INTERSECTION_PRIMARY"

\* Renderer::Rel
Rendered(p) ==
    LET inputs == Computed([c \in DOMAIN p.kids |-> Rendered(p.kids[c])])
        scope == Scope(p)
    IN  CASE p.op = "floor" -> Read(p.info.table)
          [] p.op = "seam" -> SeamRead(p)
          [] p.op = "empty" -> Rel("read", <<>>, [virtual |-> p.info])
          [] p.op = "cte" -> Rel("MaterializedCte", inputs, p.info)
          [] p.op = "cteref" -> Rel("CteRef", <<>>, p.info.cte)
          [] p.op = "filter" -> Rel("filter", inputs, Conjunction(p.exprs, scope))
          [] p.op = "projection" ->
               Rel("project", inputs, [exprs |-> AllPositional(p.exprs, scope), emit |-> <<EmitMapping(p)>>])
          [] p.op = "window" ->
               Rel("project", inputs, [windows |-> [i \in DOMAIN p.exprs |-> Window(p.exprs[i], scope)]])
          [] p.op = "limit" -> Rel("fetch", inputs, EvalAll(p.exprs, <<>>, <<0>>))
          [] p.op = "order" -> Rel("sort", inputs, Sorts(p.exprs, p.info, scope))
          [] p.op = "top n" ->
               Rel("fetch", <<Rel("sort", inputs, Sorts(p.exprs, p.info.dirs, scope))>>, p.info.bounds)
          [] p.op = "aggregate" -> RenderedAggregate(inputs, GroupsOf(p), MeasuresOf(p), scope)
          [] p.op = "distinct" -> RenderedAggregate(inputs, Refs(scope), <<>>, scope)
          [] p.op = "distinct on" ->
               Rel("DistinctOn", inputs, [targets |-> AllPositional(TargetsOf(p), scope),
                                          sorts |-> Sorts(KeysOf(p), p.info.dirs, scope)])
          [] p.op = "join" -> RenderedJoin(p, inputs)
          [] p.op \in {"union", "except", "intersect"} -> Rel("set", inputs, SetOpName[<<p.op, p.info>>])

\* CollectSeams
SeamsOf(p) ==
    (IF p.op = "seam" THEN {SeamTableName(p.t)} ELSE {}) \cup UNION {SeamsOf(p.kids[c]) : c \in DOMAIN p.kids}

\* What WindowObstacle finds in a window function: a frame of groups.
WindowObstacle(e) == "groups" \in {e.v.lower.unit, e.v.upper.unit}

\* SubstraitCanRenderOperator and, on its expressions, SubstraitCanRenderCall.
CanRender(p) ==
    /\ p.op \in {"floor", "seam", "empty", "cte", "cteref", "filter", "projection", "window", "limit", "order",
                 "top n", "aggregate", "distinct", "distinct on", "join", "union", "except", "intersect"}
    /\ p.op = "limit" => \A i \in DOMAIN p.exprs : p.exprs[i].f = "constant"
    /\ \A i \in DOMAIN p.exprs : CallsIn(p.exprs[i]) \cap {"lambda", "ordered"} = {}
    /\ p.op = "window" => \A i \in DOMAIN p.exprs : ~WindowObstacle(p.exprs[i])

Accepts(p) == CanRender(p) /\ \A c \in DOMAIN p.kids : Accepts(p.kids[c])

-----------------------------------------------------------------------------
(* Decoding.  A query is SQL: a select over none, one or two tables, or a  *)
(* set operation of its kids.  A table in a from has a name, or is a query *)
(* of its own; its columns are read under its alias, those of the only     *)
(* table under "".                                                         *)

Star == <<Call("*", <<>>)>>
True == Const(1)

Select(from, list) ==
    [op |-> "select", from |-> from, join |-> "", on |-> True, list |-> list, where |-> True,
     groups |-> <<>>, aggregates |-> FALSE, modifiers |-> <<>>, with |-> <<>>, kids |-> <<>>]

Table(name) == [alias |-> "", name |-> name, query |-> <<>>]
AsRef(built, alias) == [alias |-> alias, name |-> "", query |-> <<built.node>>]

ColumnRef(alias, name) == Expr("column", <<alias, name>>, <<>>)
Columns(alias, width) == [i \in 1 .. width |-> ColumnRef(alias, ColumnName(i - 1))]

\* What Rel returns: a query that emits c0 to c(width - 1).
Built(node, width) == [node |-> node, width |-> width]

\* Numbered: the select list's items have the names c0, c1, ...
Numbered(from, list) == Built(Select(from, list), Len(list))

WrapSelect(built) == Built(Select(<<AsRef(built, "")>>, Star), built.width)

\* The names that ScalarFunction knows as more than functions, and all others.
ParsedName(name) ==
    IF name \in Range(ComparisonName) THEN CHOOSE f \in DOMAIN ComparisonName : ComparisonName[f] = name
    ELSE DuckDBFunctionName(name)

\* What the fields of a join's condition are.
JoinScope(left_width, right_width) == Columns("l", left_width) \o Columns("r", right_width)

RECURSIVE Parsed(_, _)

\* Decoder::Expr; fields holds what a field is, by its number.
Parsed(e, fields) ==
    LET args == [i \in DOMAIN e.args |-> Parsed(e.args[i], fields)]
    IN  CASE e.f = "selection" -> fields[e.v + 1]
          [] e.f = "literal" -> Const(e.v)
          [] e.f = "ifThen" -> Call("case", args)
          [] e.f = "singularOrList" -> Call("in", args)
          [] OTHER -> Call(ParsedName(e.f), args)

AllParsed(exprs, fields) == [i \in DOMAIN exprs |-> Parsed(exprs[i], fields)]

Orders(sorts, fields) ==
    [kind |-> "order", exprs |-> [k \in DOMAIN sorts |-> Parsed(sorts[k].expr, fields)],
     dirs |-> [k \in DOMAIN sorts |-> Direction("DESC" \in sorts[k].direction, "NULLS_FIRST" \in sorts[k].direction)]]

ParsedMeasure(m, fields) ==
    LET plain == Expr(DuckDBFunctionName(m.name), IF m.distinct THEN 1 ELSE 0, AllParsed(m.args, fields))
    IN  IF m.filter = <<>> THEN plain ELSE Call("filtered", <<plain>> \o AllParsed(m.filter, fields))

WindowFunction(w, fields) ==
    LET Unit(bound) == IF bound.edge = "unbounded" THEN "" ELSE IF w.range THEN "range" ELSE "rows"
        ApplyBound(bound) == [edge |-> bound.edge, offset |-> bound.offset, unit |-> Unit(bound)]
    IN  Call("over", <<Expr(DuckDBFunctionName(w.name),
                 [parts |-> Len(w.partitions), dirs |-> Orders(w.sorts, fields).dirs,
                  lower |-> ApplyBound(w.lower), upper |-> ApplyBound(w.upper)],
                 AllParsed(w.args \o w.partitions, fields) \o Orders(w.sorts, fields).exprs)>>)

\* A table's columns are selected by the names they have now.
DecodedRead(body) ==
    IF "virtual" \in DOMAIN body
    THEN Built([Select(<<>>, IF body.virtual = 0 THEN <<Const(Null)>> ELSE [i \in 1 .. body.virtual |-> Const(Null)])
                   EXCEPT !.where = Const(0)], body.virtual)
    ELSE LET name == body.names[Len(body.names)]
             NameOf(field) == IF Len(body.names) = 1 THEN ColumnName(field) ELSE columns[name][field + 1].name
         IN  Numbered(<<Table(name)>>, [i \in DOMAIN body.fields |-> ColumnRef("", NameOf(body.fields[i]))])

\* The types of joins that JoinLike has a case for.
KnownJoinTypes == {"INNER", "LEFT", "RIGHT", "OUTER", "LEFT_SINGLE", "LEFT_SEMI", "LEFT_ANTI", "LEFT_MARK"}
JoinTypeOf(type) == CHOOSE kind \in DOMAIN JoinTypeName : JoinTypeName[kind] = type

\* JoinLike; on holds the condition, if there is one.
JoinLike(left, right, kind, on) ==
    LET sides == <<AsRef(left, "l"), AsRef(right, "r")>>
        list == Columns("l", left.width)
                \o (IF kind \in {"semi", "anti", "mark"} THEN <<>> ELSE Columns("r", right.width))
                \o (IF kind = "mark" THEN <<ColumnRef("", "__mark_join_marker")>> ELSE <<>>)
    IN  Built([Select(sides, list) EXCEPT !.join = kind,
                  !.on = IF on = <<>> THEN True ELSE Parsed(on[1], JoinScope(left.width, right.width))], Len(list))

DecodedAggregate(child, body) ==
    LET fields == Columns("", child.width)
        groups == AllParsed(body.groups, fields)
        list == groups \o [m \in DOMAIN body.measures |-> ParsedMeasure(body.measures[m], fields)]
    IN  Built([Select(<<AsRef(child, "")>>, list) EXCEPT !.groups = groups, !.aggregates = TRUE], Len(list))

\* Project: the input's columns and the expressions behind them, or what the mapping picks of those.
DecodedProject(child, body) ==
    LET fields == Columns("", child.width)
        all == fields
               \o (IF "windows" \in DOMAIN body
                   THEN [i \in DOMAIN body.windows |-> WindowFunction(body.windows[i], fields)]
                   ELSE AllParsed(body.exprs, fields))
        list == IF "emit" \in DOMAIN body THEN [k \in DOMAIN body.emit[1] |-> all[body.emit[1][k] + 1]] ELSE all
    IN  Numbered(<<AsRef(child, "")>>, list)

\* MaterializedCte: the definition goes on a node of its own around the body.
MaterializedCte(definition, body, index) ==
    Built([WrapSelect(body).node EXCEPT !.with = <<[name |-> CteName(index), query |-> definition.node]>>], body.width)

AddModifier(built, modifier) == [built EXCEPT !.node.modifiers = Append(@, modifier)]

DecodedSet(op, left, right) ==
    LET kind == CHOOSE k \in DOMAIN SetOpName : SetOpName[k] = op
        distinct == IF kind[2] = "all" THEN <<>> ELSE <<[kind |-> "distinct", exprs |-> <<>>]>>
    IN  Built([Select(<<>>, Star) EXCEPT !.op = kind[1], !.join = kind[2], !.modifiers = distinct,
                  !.kids = <<left.node, right.node>>], left.width)

RECURSIVE Decoded(_, _), Throws(_, _)

\* A bug: the width of a definition is not known to the references in its body.
Forgotten(widths, index, width) == widths

\* cte_widths, in the body of a definition.
KnownWidths(widths, index, width) == index :> width @@ widths

\* Decoder::Rel; widths holds the widths of the definitions above.
Decoded(w, widths) ==
    LET first == Decoded(w.inputs[1], widths)
        second == Decoded(w.inputs[2], widths)
        body == w.body
        fields == Columns("", first.width)
    IN  CASE w.rel = "read" -> DecodedRead(body)
          [] w.rel = "filter" -> [WrapSelect(first) EXCEPT !.node.where = Parsed(body, fields)]
          [] w.rel = "project" -> DecodedProject(first, body)
          [] w.rel = "fetch" -> AddModifier(first, [kind |-> "limit", bounds |-> body])
          [] w.rel = "sort" -> AddModifier(WrapSelect(first), Orders(body, fields))
          [] w.rel = "aggregate" -> DecodedAggregate(first, body)
          [] w.rel = "join" -> JoinLike(first, second, JoinTypeOf(body.type), body.on)
          [] w.rel = "cross" -> JoinLike(first, second, "cross", <<>>)
          [] w.rel = "PositionalJoin" -> JoinLike(first, second, "positional", <<>>)
          [] w.rel = "MaterializedCte" ->
               MaterializedCte(first, Decoded(w.inputs[2], KnownWidths(widths, body, first.width)), body)
          [] w.rel = "CteRef" -> Built(Select(<<Table(CteName(body))>>, Star), widths[body])
          [] w.rel = "DistinctOn" ->
               LET unique == AddModifier(WrapSelect(first), [kind |-> "distinct", exprs |-> AllParsed(body.targets, fields)])
               IN  IF body.sorts = <<>> THEN unique ELSE AddModifier(unique, Orders(body.sorts, fields))
          [] w.rel = "set" -> DecodedSet(body, first, second)

\* A bug: only the number of columns is compared.
SameNumber(base, table) == Len(base.names) = Len(columns[table])

\* RequireSchemaUnchanged
SchemaUnchanged(base, table) ==
    /\ base.names = [i \in DOMAIN columns[table] |-> columns[table][i].name]
    /\ [i \in DOMAIN base.types |-> TypeFromJson(base.types[i])]
         = [i \in DOMAIN columns[table] |-> columns[table][i].type]

ReadThrows(body) ==
    IF "virtual" \in DOMAIN body THEN FALSE
    ELSE IF Len(body.names) = 1 THEN body.names[1] \notin message.seams
    ELSE ~SchemaUnchanged(body.base, body.names[2])

CteRefThrows(w, widths) == w.body \notin DOMAIN widths
JoinThrows(w) == w.body.type \notin KnownJoinTypes
SetThrows(w) == Len(w.inputs) # 2

\* Whether anything in the plan makes the decoder throw.
Throws(w, widths) ==
    \/ w.rel = "read" /\ ReadThrows(w.body)
    \/ w.rel = "CteRef" /\ CteRefThrows(w, widths)
    \/ w.rel = "join" /\ JoinThrows(w)
    \/ w.rel = "set" /\ SetThrows(w)
    \/ \E c \in DOMAIN w.inputs :
          Throws(w.inputs[c], IF w.rel = "MaterializedCte" /\ c = 2
                              THEN KnownWidths(widths, w.body, Decoded(w.inputs[1], widths).width) ELSE widths)

\* Decode: the root names its columns, if it has any.
DecodedRoot(w, names) ==
    LET rel == Decoded(w, <<>>)
    IN  IF names = <<>> THEN rel.node ELSE Select(<<AsRef(rel, "")>>, [i \in DOMAIN names |-> ColumnRef("", names[i])])

-----------------------------------------------------------------------------
(* What SQL means: the names and rows of a query.  env holds those of the  *)
(* tables, seams and definitions in scope.                                 *)

\* The columns of a table, under its alias in a from.
NamesUnder(ref, table) == Computed([i \in DOMAIN table.names |-> <<ref.alias, table.names[i]>>])

ScopeOf(q, sides) ==
    CASE q.from = <<>> -> <<>>
      [] q.join \in {"semi", "anti"} \/ Len(q.from) = 1 -> sides[1]
      [] q.join = "mark" -> Append(sides[1], <<"", "__mark_join_marker">>)
      [] OTHER -> sides[1] \o sides[2]

\* A source raises the error of a single join whatever the target's setting is.
FromRows(q, tables, sides) ==
    CASE q.from = <<>> -> <<<<>>>>
      [] Len(q.from) = 1 -> tables[1].rows
      [] OTHER -> JoinedRows(q.join, tables[1].rows, tables[2].rows, <<Len(sides[1]), Len(sides[2])>>,
                             Conditions(<<q.on>>, Computed(sides[1] \o sides[2]), tables[1].rows, tables[2].rows), FALSE)

\* The value of one item of a select list, row by row.
ItemValues(item, scope, rows) ==
    IF item.f = "over" THEN WindowValues(item.args[1], scope, rows)
    ELSE Computed([r \in DOMAIN rows |-> Eval(item, scope, rows[r])])

Listed(q, scope, rows) ==
    CASE q.list = Star -> rows
      [] q.list # Star /\ q.aggregates -> GroupedRows(q.groups, SubSeq(q.list, Len(q.groups) + 1, Len(q.list)), scope, rows)
      [] OTHER -> WithValues([r \in DOMAIN rows |-> <<>>], Computed([i \in DOMAIN q.list |-> ItemValues(q.list[i], scope, rows)]))

SelectOver(q, scope, rows) ==
    [names |-> IF q.list = Star THEN Computed([i \in DOMAIN scope |-> scope[i][2]])
               ELSE Computed([i \in DOMAIN q.list |-> ColumnName(i - 1)]),
     rows |-> Listed(q, scope, SelectSeq(rows, LAMBDA row : Eval(q.where, scope, row) = 1))]

SelectFrom(q, tables, sides) == SelectOver(q, Computed(ScopeOf(q, sides)), FromRows(q, tables, sides))

SelectRows(q, tables) ==
    SelectFrom(q, tables, Computed([t \in DOMAIN tables |-> NamesUnder(q.from[t], tables[t])]))

\* A DISTINCT keeps of equal rows the first, in the order that follows it.
Modified(rows, modifiers, i, scope) ==
    LET m == modifiers[i]
        ordered == i < Len(modifiers) /\ modifiers[i + 1].kind = "order"
        in_order == IF ordered THEN SortedRows(rows, modifiers[i + 1].exprs, modifiers[i + 1].dirs, scope) ELSE rows
    IN  CASE m.kind = "limit" -> Fetched(rows, m.bounds)
          [] m.kind = "order" -> SortedRows(rows, m.exprs, m.dirs, scope)
          [] m.kind = "distinct" -> IF m.exprs = <<>> THEN Distinct(rows) ELSE FirstsOn(in_order, m.exprs, scope)

ModifiedBy(modifiers, plain) ==
    LET scope == Computed([i \in DOMAIN plain.names |-> <<"", plain.names[i]>>])
    IN  [plain EXCEPT !.rows = FoldLeftDomain(LAMBDA rows, i : Modified(rows, modifiers, i, scope), @, modifiers)]

OneSet(q, one, two) == [names |-> one.names, rows |-> SetRows(q.op, q.join = "all", one.rows, two.rows)]

RECURSIVE Answer(_, _), AnswerKnowing(_, _)

\* The tables of a from: by name, or queries of their own.
AnswerKnowing(q, known) ==
    IF q.op # "select" THEN OneSet(q, Answer(q.kids[1], known), Answer(q.kids[2], known))
    ELSE SelectRows(q, Computed([t \in DOMAIN q.from |->
             IF q.from[t].query = <<>> THEN known[q.from[t].name] ELSE Answer(q.from[t].query[1], known)]))

Answer(q, env) ==
    LET Defined(known, d) == d.name :> Answer(d.query, known) @@ known
    IN  ModifiedBy(q.modifiers, AnswerKnowing(q, FoldLeft(Defined, env, q.with)))

\* The tables as they are now, and the staged seams.
Environment ==
    [t \in DOMAIN columns |->
        [names |-> [i \in DOMAIN columns[t] |-> columns[t][i].name],
         rows |-> Computed([r \in DOMAIN Stored[t] |-> Computed([i \in DOMAIN columns[t] |->
                      IF columns[t][i].data = 0 THEN Null ELSE Stored[t][r][columns[t][i].data]])])]]
    @@ [seam \in message.seams |-> [names |-> [i \in DOMAIN Gathered[1] |-> ColumnName(i - 1)], rows |-> Gathered]]

-----------------------------------------------------------------------------

Init ==
    /\ \E shape \in Shapes : fragment = FragmentOf(shape)
    /\ stage = "planned"
    /\ columns = [t \in DOMAIN Planned |-> [i \in DOMAIN Planned[t] |->
                     [name |-> Planned[t][i].name, type |-> Planned[t][i].type, data |-> i]]]
    /\ message = [plan |-> <<>>, seams |-> {}, names |-> <<>>]
    /\ query = <<>>
    /\ answer = <<>>

\* What the source refuses stays on the target.
Keep ==
    /\ stage = "planned" /\ ~Accepts(fragment)
    /\ stage' = "kept"
    /\ UNCHANGED <<fragment, columns, message, query, answer>>

\* RenderSubstraitJson, with SubstraitSeamsOf.
Render ==
    /\ stage = "planned" /\ Accepts(fragment)
    /\ stage' = "sent"
    /\ message' = [plan |-> Rendered(fragment), seams |-> SeamsOf(fragment),
                   names |-> [i \in DOMAIN Bindings(fragment) |-> ColumnName(i - 1)]]
    /\ UNCHANGED <<fragment, columns, query, answer>>

Swap(seq) == <<seq[2], seq[1]>> \o SubSeq(seq, 3, Len(seq))

\* What may become of a table: columns that trade names or places, a new one, one fewer, a new type.
Alterations(table) ==
    {[table EXCEPT ![1].name = table[2].name, ![2].name = table[1].name], Swap(table),
     Append(table, [name |-> "new", type |-> Type("BIGINT", <<>>), data |-> 0]), Tail(table),
     [table EXCEPT ![1].type = Type("VARCHAR", <<>>)]}

Unchanged(table) ==
    [i \in DOMAIN columns[table] |-> <<columns[table][i].name, columns[table][i].type>>]
        = [i \in DOMAIN Planned[table] |-> <<Planned[table][i].name, Planned[table][i].type>>]

\* A table is altered once.  After decoding only columns that no query of it names come and go.
Alter ==
    /\ stage \in {"sent", "decoded"}
    /\ \A t \in DOMAIN columns : Unchanged(t)
    /\ \E t \in DOMAIN columns : \E altered \in Alterations(columns[t]) :
          /\ stage = "decoded" => \A i \in DOMAIN columns[t] : \E j \in DOMAIN altered :
                                     altered[j].name = columns[t][i].name /\ altered[j].type = columns[t][i].type
          /\ columns' = [columns EXCEPT ![t] = altered]
    /\ UNCHANGED <<fragment, stage, message, query, answer>>

\* DecodeSubstraitJson
Decode ==
    /\ stage = "sent"
    /\ IF Throws(message.plan, <<>>)
       THEN stage' = "refused" /\ UNCHANGED query
       ELSE stage' = "decoded" /\ query' = DecodedRoot(message.plan, message.names)
    /\ UNCHANGED <<fragment, columns, message, answer>>

Run ==
    /\ stage = "decoded"
    /\ stage' = "answered"
    /\ answer' = Answer(query, Environment).rows
    /\ UNCHANGED <<fragment, columns, message, query>>

Next == Keep \/ Render \/ Alter \/ Decode \/ Run

Spec == Init /\ [][Next]_vars

-----------------------------------------------------------------------------

RECURSIVE Today(_), TablesOf(_), HasNoDecoding(_)

\* A fragment with its tables as they are now, each column found by its name and type.
Today(p) ==
    LET table == p.info.table
        PlaceNow(c) == SelectInSeq(columns[table], LAMBDA now : now.name = c.name /\ now.type = c.type)
        Cell(r, c) == IF PlaceNow(c) = 0 THEN Raised ELSE Stored[table][r][columns[table][PlaceNow(c)].data]
    IN  IF p.op = "floor"
        THEN Rows(p.t, Computed([r \in DOMAIN Stored[table] |->
                           Computed([i \in DOMAIN Planned[table] |-> Cell(r, Planned[table][i])])]))
        ELSE [p EXCEPT !.kids = Computed([c \in DOMAIN @ |-> Today(@[c])])]

TablesOf(p) == (IF p.op = "floor" THEN {p.info.table} ELSE {}) \cup UNION {TablesOf(p.kids[c]) : c \in DOMAIN p.kids}

\* The fragments that can be rendered and have a form that the decoder knows nothing of.
HasNoDecoding(p) ==
    \/ p.op = "join" /\ p.info \in {"right_semi", "right_anti"}
    \/ p.op \in {"union", "except", "intersect"} /\ Len(p.kids) # 2
    \/ \E c \in DOMAIN p.kids : HasNoDecoding(p.kids[c])

SeamRows == [t \in {t \in 0 .. 20 : SeamTableName(t) \in message.seams} |-> Gathered]

(***************************************************************************)
(* An answer is what the fragment means, over the tables as they are when  *)
(* it is run, with every column the one that was meant: positions on the   *)
(* wire and names in the SQL lead to the column the plan binds.            *)
(***************************************************************************)
AnswersAsAsked ==
    stage = "answered" => answer = Means(Today(fragment), 0 :> Null @@ SeamRows)

(***************************************************************************)
(* What of the accepted fragments is refused: those that read a table that *)
(* has changed, and those with a right semi or anti join or with a set     *)
(* operation of other than two inputs, which SubstraitCanRenderOperator    *)
(* says yes to and DecodeSubstraitJson has no form for.  The decoder takes *)
(* every other one: its references know the widths of their definitions,   *)
(* its seams are staged, the types it compares survive the wire.           *)
(***************************************************************************)
AcceptedIsDecoded ==
    stage = "refused" => HasNoDecoding(fragment) \/ \E t \in TablesOf(fragment) : ~Unchanged(t)
=============================================================================
