------------------------- MODULE MCCrossingSubstrait -------------------------
(***************************************************************************)
(* Fragments for the wire: a base, one of the joins and set operations     *)
(* over it and another, and up to two operators more, within a common      *)
(* table expression or not.  A base has two columns and its index on top.  *)
(***************************************************************************)
EXTENDS CrossingSubstrait

CONSTANTS s1

MCSources == {s1}
MCGroup == [s \in MCSources |-> 1]
MCRefused == [s \in MCSources |-> {}]

Integer == Type("INTEGER", <<>>)
MCPlanned == [ta |-> <<[name |-> "c1", type |-> Integer], [name |-> "c0", type |-> Integer]>>,
              tb |-> <<[name |-> "x", type |-> Type("TIMESTAMP_TZ", <<>>)],
                       [name |-> "y", type |-> Type("LIST", <<Type("DECIMAL", <<4, 2>>)>>)],
                       [name |-> "z", type |-> Type("ENUM", <<>>)]>>]
MCStored == [ta |-> <<<<1, 2>>, <<2, 1>>, <<2, Null>>, <<Null, 3>>, <<2, 1>>>>,
             tb |-> <<<<2, 1, 5>>, <<4, Null, 6>>, <<1, 2, 7>>>>]
MCGathered == <<<<1, 2>>, <<3, 3>>>>

Base(kind, t) ==
    CASE kind = "ta" -> Floor(t, s1, "ta")
      [] kind = "tb" -> Project(t, <<Col(t + 5, 2), Col(t + 5, 1)>>, Floor(t + 5, s1, "tb"))
      [] kind = "sum" -> Project(t, <<Call("+", <<Col(t + 5, 1), Col(t + 5, 2)>>), Col(t + 5, 2)>>,
                                 Floor(t + 5, s1, "ta"))
      [] kind = "seam" -> Seam(t, 2)
      [] kind = "empty" -> Node("empty", t, <<>>, <<>>, 2)
      [] kind = "ref" -> Node("cteref", t, <<>>, <<>>, [cte |-> 20, width |-> 2])

Bound(edge, unit, offset) == [edge |-> edge, unit |-> unit, offset |-> offset]

\* A window function: own arguments, one partition, one key.
Over(f, own, dir, lower, upper) ==
    Expr(f, [parts |-> 1, dirs |-> <<dir>>, lower |-> lower, upper |-> upper], own \o <<Col(1, 1), Col(1, 2)>>)

WholeLower == Bound("unbounded", "", 0)
Windows(kind) ==
    CASE kind = "row number" -> <<Over("row_number", <<>>, Direction(TRUE, TRUE), WholeLower, Bound("current", "range", 0))>>
      [] kind = "peers" -> <<Over("sum", <<Col(1, 2)>>, Direction(TRUE, FALSE), WholeLower, Bound("current", "range", 0)),
                             Over("rank", <<>>, Ascending, WholeLower, WholeLower)>>
      [] kind = "rows" -> <<Over("sum_no_overflow", <<Col(1, 2)>>, Direction(FALSE, TRUE), WholeLower, Bound("current", "rows", 0)),
                            Over("count_star", <<>>, Ascending, Bound("preceding", "rows", 1), Bound("following", "rows", 1)),
                            Over("first", <<Col(1, 2)>>, Direction(TRUE, FALSE), Bound("current", "rows", 0), WholeLower)>>
      [] kind = "group frame" -> <<Over("sum", <<Col(1, 2)>>, Ascending, Bound("current", "groups", 0), WholeLower)>>

Measures(kind) ==
    CASE kind = "counts" -> <<Call("count_star", <<>>), Call("count", <<Col(1, 2)>>), Expr("count", 1, <<Col(1, 2)>>)>>
      [] kind = "filtered" -> <<Call("filtered", <<Call("sum", <<Col(1, 2)>>), Call("<", <<Const(1), Col(1, 2)>>)>>),
                                Call("first", <<Col(1, 2)>>), Call("sum_no_overflow", <<Col(1, 2)>>)>>
      [] kind = "any" -> <<Call("any_value", <<Col(1, 2)>>)>>

Aggregate(groups, measures, p) ==
    Node("aggregate", 3, groups \o measures, <<p>>, [index |-> 4, groups |-> Len(groups)])

\* An operator over a plan with columns <<1, 1>> and <<1, 2>>.
Above(kind, p, t) ==
    CASE kind = "none" -> p
      [] kind = "where" -> Filter(<<Expr("between", <<">=", "<">>, <<Col(1, 2), Const(1), Const(3)>>), Call("is_null", <<Col(1, 1)>>)>>, p)
      [] kind = "strict" -> Filter(<<Expr("between", <<">", "<=">>, <<Col(1, 2), Const(1), Const(3)>>)>>, p)
      [] kind = "in" -> Filter(<<Call("or", <<Call("in", <<Col(1, 1), Const(1), Const(3)>>),
                                              Call("not_in", <<Col(1, 2), Const(1), Const(Null)>>),
                                              Call("is_null", <<Col(1, 2)>>)>>)>>, p)
      [] kind = "lambda" -> Filter(<<Call("lambda", <<Col(1, 1)>>)>>, p)
      [] kind = "exprs" -> Project(3, <<Call("case", <<Call(">=", <<Col(1, 1), Col(1, 2)>>), Call("-", <<Col(1, 1), Const(1)>>),
                                                      Call("coalesce", <<Col(1, 2), Col(1, 1)>>)>>),
                                        Call("mod", <<Col(1, 1), Const(2)>>), Call("//", <<Col(1, 2), Const(2)>>),
                                        Call("%", <<Col(1, 2), Const(2)>>)>>, p)
      [] kind = "windows 1" -> Node("window", t, Windows("row number"), <<p>>, {})
      [] kind = "windows 2" -> Node("window", t, Windows("peers"), <<p>>, {})
      [] kind = "windows 3" -> Node("window", t, Windows("rows"), <<p>>, {})
      [] kind = "window of groups" -> Node("window", t, Windows("group frame"), <<p>>, {})
      [] kind = "limit" -> Node("limit", 0, <<Const(2)>>, <<p>>, {})
      [] kind = "offset" -> Node("limit", 0, <<Const(Null), Const(1)>>, <<p>>, {})
      [] kind = "computed limit" -> Node("limit", 0, <<Call("+", <<Const(1), Const(1)>>)>>, <<p>>, {})
      [] kind = "order" -> Node("order", 0, <<Col(1, 2), Col(1, 1)>>, <<p>>, <<Direction(TRUE, FALSE), Direction(FALSE, TRUE)>>)
      [] kind = "top" -> Node("top n", 0, <<Col(1, 2), Col(1, 1)>>, <<p>>,
                              [dirs |-> <<Direction(TRUE, TRUE), Ascending>>, bounds |-> <<2, 1>>])
      [] kind = "groups" -> Aggregate(<<Col(1, 2), Col(1, 1)>>, Measures("counts"), p)
      [] kind = "one group" -> Aggregate(<<Col(1, 1)>>, Measures("filtered"), p)
      [] kind = "total" -> Aggregate(<<>>, Measures("counts"), p)
      [] kind = "any" -> Aggregate(<<Col(1, 1)>>, Measures("any"), p)
      [] kind = "distinct" -> Node("distinct", 0, <<>>, <<p>>, {})
      [] kind = "on" -> Node("distinct on", 0, <<Col(1, 1)>>, <<p>>, [targets |-> 1, dirs |-> <<>>])
      [] kind = "on order" -> Node("distinct on", 0, <<Col(1, 1), Col(1, 2)>>, <<p>>, [targets |-> 1, dirs |-> <<Direction(TRUE, TRUE)>>])

Operators == {"where", "strict", "in", "exprs", "windows 1", "windows 2", "windows 3", "limit", "offset", "order", "top",
              "groups", "one group", "total", "distinct", "on", "on order"}
Refusable == {"lambda", "window of groups", "computed limit"}
KeepsColumns == {"where", "in", "windows 2", "limit", "offset", "order", "top", "on order", "none"}

Joins == {"join"} \X {"inner", "cross", "left", "right", "outer", "semi", "anti", "mark", "single", "positional"}
SetOps == {"union", "except", "intersect"} \X {"all", "distinct"}
RightJoins == {"join"} \X {"right_semi", "right_anti"}
Unions == {"unions"} \X {"all", "distinct"}
Alone == <<"base", "">>

On == <<Call("=", <<Col(1, 1), Col(2, 1)>>), Call("<", <<Col(1, 2), Const(3)>>)>>

Body(s) ==
    CASE s.both = Alone -> Base(s.left, 1)
      [] s.both \in SetOps -> Node(s.both[1], 1, <<>>, <<Base(s.left, 9), Base(s.right, 2)>>, s.both[2])
      [] s.both \in Unions ->
           Node("union", 1, <<>>, <<Base(s.left, 9), Base(s.right, 2), Base("ta", 12)>>, s.both[2])
      [] s.both \in RightJoins -> Join(s.both[2], On, Base(s.left, 2), Base(s.right, 1))
      [] s.both[2] = "cross" -> Join("inner", <<>>, Base(s.left, 1), Base(s.right, 2))
      [] s.both[2] = "positional" -> Join("positional", <<>>, Base(s.left, 1), Base(s.right, 2))
      [] s.both[2] = "mark" -> [Join("mark", Prefix(On, 1), Base(s.left, 1), Base(s.right, 2)) EXCEPT !.t = 16]
      [] OTHER -> Join(s.both[2], On, Base(s.left, 1), Base(s.right, 2))

Cte(index, definition, body) == Node("cte", 0, <<>>, <<definition, body>>, index)

MCFragmentOf(s) ==
    LET body == Above(s.top, Above(s.below, Body(s), 17), 3)
        Definition == IF s.cte = "seam" THEN Base("seam", 10) ELSE Base("tb", 10)
    IN  CASE s.cte = "none" -> body
          [] s.cte \in {"seam", "tb"} -> Cte(20, Definition, body)
          [] s.cte = "nested" -> Cte(19, Base("tb", 10), Cte(20, Node("cteref", 11, <<>>, <<>>, [cte |-> 19, width |-> 2]), body))

Shape(ctes, tops, belows, boths, lefts, rights) ==
    [cte : ctes, top : tops, below : belows, both : boths, left : lefts, right : rights]

MCShapes ==
    Shape({"none"}, Operators \cup Refusable \cup {"none"}, KeepsColumns, {Alone}, {"ta", "tb", "sum", "empty"}, {"ta"})
    \cup Shape({"none"}, {"none", "groups", "exprs", "windows 1"}, {"none"}, Joins, {"ta", "tb", "seam"}, {"ta", "sum", "seam"})
    \cup Shape({"none"}, {"none", "where", "limit", "order"}, {"none", "limit"}, SetOps, {"ta", "tb", "seam"}, {"ta", "sum"})
    \cup Shape({"seam", "tb", "nested"}, {"none", "one group", "order", "limit"}, {"none", "where"}, {Alone, <<"join", "left">>, <<"join", "mark">>},
               {"ref", "ta"}, {"ref", "tb"})
    \cup Shape({"none", "seam", "tb"}, {"none", "where", "top", "groups"}, {"none", "limit"}, RightJoins \cup Unions,
               {"ta", "tb", "seam"}, {"ta", "sum"})

\* Fragments with an any_value.
MCNamedShapes == Shape({"none"}, {"any"}, {"none", "order"}, {Alone, <<"join", "semi">>, <<"join", "anti">>}, {"ta", "tb", "sum", "seam", "empty"}, {"ta", "tb"})
=============================================================================
