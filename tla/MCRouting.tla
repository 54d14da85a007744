------------------------------ MODULE MCRouting ------------------------------
(***************************************************************************)
(* Sharding configurations and the statements routed under them.           *)
(***************************************************************************)
EXTENDS ShardRoute

Null(g) == [group |-> g, kind |-> "null", vals |-> <<>>]
Upto(g, v) == [group |-> g, kind |-> "val", vals |-> <<v>>]
Ranges(g, vs) == [group |-> g, kind |-> "list", vals |-> vs]
Hash(g, vs) == [group |-> g, kind |-> "hash", vals |-> vs]

Vdb(id, m, ty, n, ps) == [id |-> id, method |-> m, type |-> ty, num |-> n, parts |-> ps]
Tab(n, v) == [name |-> n, vdb |-> v, pkey |-> "k"]
File(pm, n, vs, ts, ss) == [partition_mode |-> pm, num_groups |-> n, vdbs |-> vs, tables |-> ts, singles |-> ss]
OnG1(s) == [name |-> s, group |-> "g1"]

HashVdb == Vdb(1, "hash", "int", 3, <<Hash("g1", <<0, 2>>), Hash("g2", <<1>>)>>)
RangeVdb == Vdb(2, "range", "int", 0, <<Null("g2"), Upto("g1", 2)>>)
StrVdb == Vdb(3, "range", "str", 0, <<Upto("g1", 1), Null("g2")>>)
UptoVdb == Vdb(4, "range", "str", 0, <<Upto("g1", 1), Upto("g2", 3)>>)
MultiVdb == Vdb(5, "range", "int", 0, <<Ranges("g1", <<1, 4>>), Upto("g2", 2)>>)

HashFile == File(FALSE, 2, <<HashVdb>>, <<Tab("t", 1), Tab("u", 1)>>, <<OnG1("s")>>)
RangeFile == File(FALSE, 2, <<RangeVdb>>, <<Tab("t", 2), Tab("u", 2)>>, <<OnG1("s")>>)
StrFile == File(FALSE, 2, <<StrVdb>>, <<Tab("t", 3), Tab("u", 3)>>, <<>>)
MixFile == File(FALSE, 2, <<HashVdb, RangeVdb>>, <<Tab("t", 1), Tab("u", 2)>>, <<OnG1("s")>>)
PartFile == File(TRUE, 1, <<MultiVdb>>, <<Tab("t", 5), Tab("u", 5)>>, <<>>)
PartHash == File(TRUE, 1, <<HashVdb>>, <<Tab("t", 1), Tab("u", 1)>>, <<>>)
BadFile == File(FALSE, 3, <<HashVdb>>, <<Tab("t", 1)>>, <<>>)

MCKeys == 0..5
MCIntMin == -1
MCBottom == -50
Files == {HashFile, RangeFile, StrFile, MixFile, PartFile, PartHash}

(***************************************************************************)
(* WHERE clauses.                                                          *)
(***************************************************************************)

Leaf(op, vs) == [op |-> op, t |-> "", c |-> "k", vs |-> vs, flip |-> FALSE]
Flip(op, v) == [Leaf(op, <<v>>) EXCEPT !.flip = TRUE]
Other == [Leaf("eq", <<1>>) EXCEPT !.c = "x"]
On(t, l) == [l EXCEPT !.t = t]
Link(a, b) == [op |-> "link", t |-> a, c |-> "k", t2 |-> b, c2 |-> "k"]
Pair(op, a, b) == <<[op |-> op, l |-> 2, r |-> 3], a, b>>
Not(a) == <<[op |-> "not", l |-> 2, r |-> 2], a>>
Tri(o1, o2, a, b, c) == <<[op |-> o1, l |-> 2, r |-> 3], a, [op |-> o2, l |-> 4, r |-> 5], b, c>>

Leaves ==
    {Leaf(op, <<v>>) : op \in CompareOps, v \in {0, 2, 3}}
    \union {Flip(op, 2) : op \in CompareOps}
    \union {Leaf("between", <<1, 2>>), Leaf("between", <<3, 9>>), Leaf("in", <<1, 3>>), Leaf("in", <<0, 2>>),
            Leaf("in", <<>>), Leaf("in", <<1, Compound>>), Leaf("eq", <<Compound>>), Leaf("eq", <<Garbled>>), Other}

Few == {Leaf("eq", <<1>>), Leaf("gt", <<2>>), Leaf("in", <<1, 2, 3>>), Leaf("le", <<1>>),
        Leaf("eq", <<Compound>>), Other}

Three == {Leaf("in", <<1, 2, 3>>), Leaf("le", <<1>>), Other}

Singly(ls) == {<<l>> : l \in ls}

Wheres ==
    {<<>>} \union Singly(Leaves) \union {Not(l) : l \in Few}
    \union {Pair(o, a, b) : o \in {"and", "or"}, a \in Few, b \in Few}
    \union {Tri("and", "or", a, b, c) : a \in Three, b \in Three, c \in Three}
    \union {Tri("or", "and", a, b, c) : a \in Three, b \in Three, c \in Three}

(***************************************************************************)
(* Statements.                                                             *)
(***************************************************************************)

MCIn(f, st) == [file |-> f, fixture |-> 1, regroup |-> TRUE, stmt |-> st]

NoHint == [kind |-> "none"]

Table(names, sub) == [name |-> names, sub |-> sub]

Sel ==
    [from |-> <<Table(<<"t">>, <<>>)>>, where |-> <<>>, on |-> <<>>, distinct |-> FALSE,
     having |-> "no", havingcol |-> FALSE, limit |-> -1, offset |-> 0, group |-> <<>>, order |-> <<>>,
     cols |-> <<"a", "b">>, aggr |-> "no", bycase |-> FALSE, subaggr |-> FALSE, subq |-> <<>>]

Select(s) == [type |-> "select", sels |-> <<s>>, hint |-> NoHint]

ByKey == {MCIn(f, Select([Sel EXCEPT !.where = w])) : f \in Files, w \in Wheres}

ByLimit ==
    {MCIn(f, Select([Sel EXCEPT !.where = w, !.limit = l, !.offset = o])) :
        f \in {HashFile, RangeFile, PartHash}, w \in Singly(Few) \union {<<>>}, l \in {0, 2, 3}, o \in {0, 1, 4}}

Update(w, set) == [type |-> "update", table |-> "t", where |-> w, set |-> set, hint |-> NoHint]
Delete(w) == [type |-> "delete", table |-> "t", where |-> w, hint |-> NoHint]
SetK(v) == [t |-> "", c |-> "k", v |-> v]
SetX == [t |-> "", c |-> "x", v |-> 1]

Changes ==
    {MCIn(f, Update(w, s)) : f \in Files, w \in Wheres, s \in {<<SetX>>, <<SetX, SetK(1)>>}}
    \union {MCIn(f, Delete(w)) : f \in Files, w \in Wheres}

TK(op, v) == On("t", Leaf(op, <<v>>))
UX == On("u", Other)

JoinWheres ==
    {<<>>, <<Link("t", "u")>>, <<TK("eq", 1)>>,
     Pair("and", Link("t", "u"), TK("eq", 1)), Pair("and", Link("u", "t"), TK("gt", 2)),
     Pair("or", Link("t", "u"), UX), Tri("and", "or", Link("t", "u"), TK("le", 1), UX),
     Tri("and", "and", Link("t", "u"), TK("le", 1), On("u", Leaf("gt", <<3>>)))}

Joins ==
    {MCIn(f, Select([Sel EXCEPT !.from = <<Table(<<"t">>, <<>>), Table(<<"u">>, <<>>)>>, !.where = w, !.on = o])) :
        f \in Files, w \in JoinWheres, o \in {<<>>, <<Link("t", "u")>>}}

Insert(t, kc, rows, from) ==
    [type |-> "insert", table |-> t, verb |-> "insert", keycol |-> kc, rows |-> rows, from |-> from,
     hint |-> NoHint]

Inserts ==
    {MCIn(f, Insert("t", 1, <<<<a>>, <<b>>, c>>, "")) :
        f \in Files, a \in {0, 2}, b \in {1, 3, 5, Garbled}, c \in {<<>>, <<4>>}}
    \union {MCIn(f, Insert("t", kc, <<<<a>>>>, "")) : f \in Files, a \in {0, 3, 5, Compound}, kc \in {-1, 0, 1}}
    \union {MCIn(f, Insert(t, 1, <<<<1>>>>, from)) : f \in Files, t \in {"s", "g"}, from \in {"", "t", "s", "h"}}

(* Comments that name a table, a key or a group, and the statements that   *)
(* carry them.                                                             *)
Hint(k, t, g, v) == [kind |-> k, table |-> t, group |-> g, key |-> v]

Hints ==
    {Hint("table", "t", "", 0), Hint("table", "z", "", 0), Hint("all", "", "", 0),
     Hint("group", "", "g2", 0), Hint("group", "", "g9", 0)}
    \union {Hint("key", t, "", k) : t \in {"t", "z"}, k \in {2, Garbled}}

Stmt(ty, t) == [type |-> ty, table |-> t, hint |-> NoHint]

Hinted ==
    {[st EXCEPT !.hint = h] : st \in {Select(Sel), Update(<<>>, <<SetX>>), Delete(<<>>), Stmt("ddl", "t")},
                              h \in Hints}

(* Tables of other kinds, and subqueries.                                  *)
Shapes ==
    {[Sel EXCEPT !.from = <<>>], [Sel EXCEPT !.subq = <<"s">>]}
    \union {[Sel EXCEPT !.from = <<Table(<<t>>, <<>>)>>] : t \in {"s", "g"}}
    \union {[Sel EXCEPT !.from = <<Table(<<"s">>, <<>>), Table(<<"t">>, <<>>)>>]}
    \union {[Sel EXCEPT !.from = <<Table(<<>>, <<"g", "t">>)>>, !.aggr = a] : a \in {"no", "avg"}}

(* What the merge must refuse or be able to do.                            *)
Merges ==
    {[Sel EXCEPT !.distinct = d, !.order = o, !.group = g, !.cols = c, !.having = h,
                 !.havingcol = (h # "multi"), !.limit = l, !.aggr = a, !.where = w] :
        d \in BOOLEAN, o \in {<<>>, <<"a">>, <<"a", "b">>, <<"c">>}, g \in {<<>>, <<"a">>},
        c \in {<<"a", "b">>, <<"a", "fun">>, <<"*">>}, h \in {"no", "cmp", "multi"}, l \in {-1, 2},
        a \in {"no", "sum", "avg", "distinct"}, w \in {<<>>, <<Leaf("eq", <<1>>)>>}}

Unions ==
    {[Select(Sel) EXCEPT !.sels = <<[Sel EXCEPT !.where = w], [Sel EXCEPT !.where = v]>>] :
        w \in Singly(Few), v \in Singly(Few) \union {<<>>}}

MCStatements ==
    ByKey \union ByLimit \union Changes \union Joins \union Inserts
    \union {MCIn(f, Select(s)) : f \in {HashFile, PartHash}, s \in Shapes}
    \union {MCIn(f, st) : f \in {HashFile, PartHash},
                          st \in Hinted \union {Stmt(ty, t) : ty \in {"describe", "set", "ddl", "call", "show"},
                                                              t \in {"t", "s", "g"}}}
    \union {MCIn(HashFile, st) : st \in Unions \union {Select(s) : s \in Merges}}

(* What the administrator may create at run time.                          *)
HashAgain == Vdb(6, "hash", "int", 2, <<Hash("g2", <<0>>), Hash("g1", <<1>>)>>)
HashHole == Vdb(7, "hash", "int", 3, <<Hash("g2", <<0>>), Hash("g1", <<1>>)>>)
NewVdbs == {RangeVdb, StrVdb, UptoVdb, HashAgain, HashHole, HashVdb, MultiVdb}
NewTables == {Tab("t", 1), Tab("v", 2), Tab("v", 3), Tab("v", 4), Tab("w", 6), Tab("w", 7), Tab("w", 5)}
NewSingles == {OnG1("s"), [name |-> "r", group |-> "g2"], [name |-> "r", group |-> "g9"]}
Confs == {HashFile, RangeFile, StrFile, MixFile, PartFile, PartHash, BadFile}
=============================================================================
