---------------------------- MODULE MCCrossingFill ---------------------------
(***************************************************************************)
(* Bound plans for the pass: joins of two branches with filters above      *)
(* them, under one more operator, and common table expressions.  a1 and a2 *)
(* are of one group, b is of another; each group refuses something.        *)
(***************************************************************************)
EXTENDS CrossingFill

CONSTANTS a1, a2, b

MCSources == {a1, a2, b}
MCGroup == [s \in MCSources |-> IF s = b THEN 2 ELSE 1]
MCRefused == [s \in MCSources |-> IF s = b THEN {"big", "aggregate"} ELSE {"odd", "union"}]
MCStored == [ta |-> <<<<1, 1>>, <<2, 3>>, <<2, 2>>>>,
             tn |-> <<<<1, 2>>, <<3, 1>>>>,
             tb |-> <<<<2, 1>>, <<3, Null>>>>,
             mine |-> <<<<1, 2>>, <<2, 2>>>>,
             base |-> <<<<1, 1>>, <<5, 0>>, <<3, 2>>, <<2, 2>>>>]

\* ta is a view of base: some of its rows, with the columns the other way round.
MCViewOf == [ta |-> Project(1, <<Col(2, 2), Col(2, 1)>>,
                            Filter(<<Call(">", <<Col(2, 2), Const(0)>>)>>, Base(2, [src |-> a1, table |-> "base"])))]

MCKeyOf == [t \in {"ta", "tn"} |-> <<2>>]

\* A branch, its table index n.  The one of two nodes has its own index on top.
Branch(kind, n) ==
    LET scan == Scan(n, a1, "ta", <<2, 1>>, FALSE)
        below == Scan(n + 5, a1, "ta", <<1, 2>>, FALSE)
    IN  CASE kind = "a1" -> scan
          [] kind = "n" -> Scan(n, a1, "tn", <<2, 1>>, FALSE)
          [] kind = "key" -> Scan(n, a1, "ta", <<2>>, FALSE)
          [] kind = "nkey" -> Scan(n, a1, "tn", <<2>>, FALSE)
          [] kind = "a2" -> Scan(n, a2, "tb", <<1, 2>>, FALSE)
          [] kind = "b" -> Scan(n, b, "tb", <<1, 2>>, FALSE)
          [] kind = "frozen" -> Scan(n, a1, "ta", <<1, 2>>, TRUE)
          [] kind = "local" -> Node("local", n, <<>>, <<>>, "mine")
          [] kind = "rows" -> Node("values", n, <<>>, <<>>,
                                   <<<<Const(2), Const(1)>>, <<Const(1), Call("+", <<Const(1), Const(2)>>)>>>>)
          [] kind = "volatile" -> Node("values", n, <<>>, <<>>, <<<<Const(2), Call("volatile", <<>>)>>>>)
          [] kind = "sum" -> Project(n, <<Call("+", <<Col(n + 5, 1), Col(n + 5, 2)>>), Col(n + 5, 1)>>, below)
          [] kind = "odd" -> Project(n, <<Call("odd", <<Col(n + 5, 1)>>), Col(n + 5, 2)>>, below)
          [] kind = "top" -> Node("limit", 0, <<Const(2)>>, <<scan>>, {})
          [] kind = "self" -> Join("inner", <<>>, scan, Scan(n + 5, a2, "ta", <<1, 2>>, FALSE))
          [] kind = "ref" -> Node("cteref", n, <<>>, <<>>, [cte |-> 9, width |-> 2])

\* The conjuncts above a join of branches 1 and 2.
Conjunct(c) ==
    CASE c = 1 -> Call("big", <<Col(1, 1)>>)
      [] c = 2 -> Call("odd", <<Col(1, 2)>>)
      [] c = 3 -> Call("big", <<Col(2, 1)>>)
      [] c = 4 -> Call("odd", <<Col(2, 1)>>)
      [] c = 5 -> Call("=", <<Col(1, 1), Col(2, 1)>>)
      [] c = 6 -> Call("volatile", <<>>)

Conjuncts(cs) == [i \in DOMAIN cs |-> Conjunct(cs[i])]

Top(kind, p) ==
    CASE kind = "none" -> p
      [] kind = "limit" -> Node("limit", 0, <<Const(2)>>, <<p>>, {})
      [] kind = "order" -> Node("order", 0, <<Col(1, 2)>>, <<p>>, <<Ascending>>)
      [] kind = "sum" -> Project(3, <<Call("+", <<Col(1, 1), Col(1, 2)>>)>>, p)
      [] kind = "odd" -> Project(3, <<Call("odd", <<Col(1, 1)>>)>>, p)
      [] kind = "groups" -> Node("aggregate", 3, <<Col(1, 1), Call("count_star", <<>>)>>, <<p>>, [index |-> 4, groups |-> 1])
      [] kind = "total" -> Node("aggregate", 3, <<Call("count_star", <<>>)>>, <<p>>, [index |-> 4, groups |-> 0])
      [] kind = "twice" -> Node("union", 3, <<>>, <<p, Scan(4, a1, "ta", <<1, 2>>, FALSE)>>, "all")
      [] kind = "cte" -> Node("cte", 0, <<>>, <<Scan(4, a1, "ta", <<1, 2>>, FALSE), p>>, 9)
      [] kind = "cterows" -> Node("cte", 0, <<>>, <<Branch("rows", 4), p>>, 9)
      [] kind = "ctejoin" -> Node("cte", 0, <<>>, <<Branch("self", 4), p>>, 9)

JoinOf(s) ==
    IF s.right = "none" THEN Branch(s.left, 1)
    ELSE Join(s.kind, Conjuncts(s.on), Branch(s.left, 1), Branch(s.right, 2))

FilteredBy(cs, p) == IF cs = <<>> THEN p ELSE Filter(Conjuncts(cs), p)

Body(s) == FilteredBy(s.where, JoinOf(s))

\* The value an update or a merge sets, over the body; branch 1 holds the table's columns 2 and 1.
Value(kind) ==
    CASE kind = "fixed" -> Const(7)
      [] kind = "sum" -> Call("+", <<Col(1, 2), Const(1)>>)
      [] kind = "odd" -> Call("odd", <<Col(1, 2)>>)
      [] kind = "volatile" -> Call("volatile", <<>>)
      [] kind = "other" -> Col(2, 1)
      [] kind = "default" -> Default

Written(s) == IF s.left \in {"n", "nkey"} THEN "tn" ELSE "ta"

Info(s, columns, action) ==
    [src |-> a1, table |-> Written(s), returning |-> s.returning, columns |-> columns,
     defaults |-> <<Const(8), Const(9)>>, row_id |-> 2, action |-> action]

\* An update, by the binder, over its body: the values and the rest of the image if it returns, then the key.
UpdateOf(s, body) ==
    Node("update", 20,
         <<IF s.value = "default" THEN Default ELSE Col(6, 1)>> \o IF s.returning THEN <<Col(6, 2)>> ELSE <<>>,
         <<Project(6, <<IF s.value = "default" THEN Const(0) ELSE Value(s.value)>>
                      \o (IF s.returning THEN <<Col(1, 1)>> ELSE <<>>) \o <<Col(1, 1)>>, body)>>,
         Info(s, IF s.returning THEN <<1, 2>> ELSE <<1>>, "update"))

\* An update that sets the key from the other column.
RekeyOf(s, body) ==
    Node("update", 20, IF s.returning THEN <<Col(6, 1), Col(6, 2)>> ELSE <<Col(6, 1)>>,
         <<Project(6, <<Call("+", <<Col(1, 1), Const(1)>>)>>
                      \o (IF s.returning THEN <<Col(1, 2)>> ELSE <<>>) \o <<Col(1, 1)>>, body)>>,
         Info(s, IF s.returning THEN <<2, 1>> ELSE <<2>>, "update"))

MergeOf(s, action, body) ==
    Node("merge", 20,
         CASE action = "update" -> <<Call("+", <<Col(6, 3), Const(1)>>), Default>>
           [] action = "insert" -> <<Col(6, 3)>>
           [] action = "delete" -> <<>>,
         <<Project(6, <<Col(1, 2), Col(1, 1), Value(s.value)>>, body)>>,
         Info(s, CASE action = "update" -> <<1, 2>> [] action = "insert" -> <<0, 1>> [] OTHER -> <<>>, action))

InsertOf(s, map, body) == Top(s.top, Node("insert", 20, <<>>, <<body>>, Info(s, map, "insert")))

Over(s, body) ==
    CASE s.write = "none" -> Top(s.top, body)
      [] s.write = "insert" -> InsertOf(s, <<>>, body)
      [] s.write = "mapped" -> InsertOf(s, IF s.right = "none" THEN <<2, 1>> ELSE <<4, 1>>, body)
      [] s.write = "partly" -> InsertOf(s, <<0, 2>>, body)
      [] s.write = "update" -> UpdateOf(s, body)
      [] s.write = "rekey" -> RekeyOf(s, body)
      [] s.write = "delete" -> Node("delete", 20, <<Col(1, 1)>>, <<body>>, Info(s, <<>>, "delete"))
      [] s.write = "merge update" -> MergeOf(s, "update", body)
      [] s.write = "merge delete" -> MergeOf(s, "delete", body)
      [] s.write = "merge insert" -> MergeOf(s, "insert", body)

MCPlanOf(s) == Over(s, Body(s))

Read(tops, wheres, kinds, ons, lefts, rights) ==
    [write : {"none"}, value : {"fixed"}, returning : {FALSE},
     top : tops, where : wheres, kind : kinds, on : ons, left : lefts, right : rights]

Write(writes, values, wheres, ons, lefts, rights) ==
    [write : writes, value : values, returning : BOOLEAN,
     top : {"none"}, where : wheres, kind : {"inner"}, on : ons, left : lefts, right : rights]

Wheres == {<<1>>, <<2>>, <<6>>, <<1, 2>>, <<2, 3>>, <<3, 5>>, <<4, 1, 5>>, <<5, 6>>, <<6, 1>>, <<2, 4, 3, 1>>}

MCReads ==
    Read({"none"}, Wheres, {"inner", "left"}, {<<>>, <<5>>},
         {"a1", "b", "frozen", "local", "rows", "self"}, {"a1", "a2", "b", "rows", "volatile"})
    \cup Read({"limit", "order", "sum", "odd", "groups", "total", "twice"}, {<<>>, <<1, 2>>},
              {"inner", "left", "single", "semi"}, {<<5>>}, {"a1", "sum", "odd", "b"}, {"a1", "a2", "b", "rows", "sum"})
    \cup Read({"none", "groups"}, {<<>>, <<1>>}, {"single"}, {<<3>>, <<5>>}, {"a1", "b"}, {"a1", "a2", "b"})
    \cup Read({"none", "groups"}, {<<>>, <<1>>, <<1, 2>>}, {"inner"}, {<<>>}, {"a1", "top", "self", "odd"}, {"none"})
    \cup Read({"cte", "cterows"}, {<<>>, <<1>>, <<1, 2>>}, {"inner", "semi"}, {<<5>>},
              {"ref", "a1"}, {"ref", "a2", "b", "rows"})

MCWrites ==
    Write({"insert", "mapped", "partly"}, {"fixed"}, {<<>>, <<1>>, <<2, 1>>}, {<<>>},
          {"a1", "b", "rows", "volatile", "frozen", "sum", "odd", "local"}, {"none"})
    \cup Write({"mapped"}, {"fixed"}, {<<>>, <<1, 2, 3>>, <<4, 1>>}, {<<>>, <<5>>}, {"a1", "b", "rows"}, {"a1", "a2", "b", "rows"})
    \cup {[w EXCEPT !.top = "cte"] : w \in
            Write({"mapped"}, {"fixed"}, {<<>>, <<1>>}, {<<5>>}, {"ref", "a1"}, {"none", "a2"})}
    \cup Write({"update"}, {"fixed", "sum", "odd", "volatile", "default"}, {<<>>, <<1>>, <<1, 2>>}, {<<>>}, {"a1", "n"}, {"none", "a2", "b"})
    \cup Write({"update", "merge update", "merge insert", "merge delete"}, {"other"}, {<<>>, <<2, 1>>}, {<<5>>}, {"a1", "n"}, {"a2", "b", "rows"})
    \cup Write({"delete"}, {"fixed"}, {<<>>, <<1>>}, {<<5>>}, {"a1", "n", "key", "nkey"}, {"none", "a2", "b", "rows"})
    \cup {w \in Write({"rekey"}, {"fixed"}, {<<>>, <<1, 2>>}, {<<5>>}, {"a1", "n"}, {"none", "b"}) : ~w.returning}

MCShapes == MCReads \cup MCWrites

\* Updates that set a key column and return their rows.
MCKeyShapes == {w \in Write({"rekey"}, {"fixed"}, {<<>>, <<1, 2>>}, {<<5>>}, {"a1", "n"}, {"none", "b"}) : w.returning}
=============================================================================
