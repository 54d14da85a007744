----------------------------- MODULE ShardRoute -----------------------------
(***************************************************************************)
(* How the sharding plugin routes a statement: which groups it is sent to, *)
(* whether as a distributed transaction, and how its text is rewritten for *)
(* them.  (src/plugins/shard/sharding-parser.c, shard-plugin.c,            *)
(* src/src/sharding-query-plan.c, src/lib/sql-construction.c)              *)
(*                                                                         *)
(* A WHERE clause is a sequence of nodes, the root first; and/or/not point *)
(* to their operands by index.  A leaf compares a column [t, c] (t = "" if *)
(* the column is not qualified) with values; Compound is a function,       *)
(* column or subquery, Garbled a text that is no key.  "link" is an        *)
(* equation t.c = t2.c2 of two columns.                                    *)
(***************************************************************************)
EXTENDS ShardConf

CONSTANT SRInputs    \* [file, fixture, regroup, stmt]: a configuration, con->key (or rand()),
                     \* is_groupby_need_reconstruct, a statement

VARIABLE sr

Compound == 1000
Garbled == 1001

CompareOps == {"eq", "ne", "lt", "le", "gt", "ge"}

(* --- conditions on the sharding key -------------------------------------- *)
expr_is_sharding_key(col, t, key) == col.c = key /\ (col.t = "" \/ col.t = t)

flip_compare_op(op) == CASE op = "le" -> "ge" [] op = "ge" -> "le" [] op = "lt" -> "gt"
                         [] op = "gt" -> "lt" [] OTHER -> op

partition_satisfies_wrong(v, p, op, x) ==
    IF v.method = "hash"
    THEN op = "eq" => modulo(x, v.num) \in p.hash_set
    ELSE CASE op = "eq" -> x > p.low /\ x <= p.value
           [] op = "gt" -> x < p.value
           [] op = "lt" -> x > p.low + 1
           [] op = "ge" -> x < p.value
           [] op = "le" -> x > p.low
           [] op = "ne" -> TRUE

(* Can some key in the partition satisfy "key op x"?                       *)
partition_satisfies(v, p, op, x) ==
    IF v.method = "hash"
    THEN op = "eq" => modulo(x, v.num) \in p.hash_set
    ELSE CASE op = "eq" -> x > p.low /\ x <= p.value
           [] op = "gt" -> x < p.value
           [] op = "lt" -> x > p.low + (IF v.type = "str" THEN 0 ELSE 1)
           [] op = "ge" -> x <= p.value
           [] op = "le" -> x > p.low
           [] op = "ne" -> v.type = "str" \/ ~(x = p.value /\ p.value = p.low + 1)

partitions_filter(v, ps, op, x) == SelectSeq(ps, LAMBDA p : partition_satisfies(v, p, op, x))

expr_parse_sharding_value(x) == IF x = Compound THEN "UNRECOGNIZED"
                                ELSE IF x = Garbled THEN "ERROR" ELSE "OK"

Filtered(rc, ps) == [rc |-> rc, ps |-> ps]

partitions_filter_inequation_expr(v, ps, op, x) ==
    IF expr_parse_sharding_value(x) = "OK" THEN Filtered("OK", partitions_filter(v, ps, op, x))
    ELSE Filtered(expr_parse_sharding_value(x), ps)

partitions_filter_BETWEEN_expr(v, ps, vs) ==
    LET low == partitions_filter_inequation_expr(v, ps, "ge", vs[1])
    IN  IF low.rc # "OK" THEN low
        ELSE partitions_filter_inequation_expr(v, low.ps, "le", vs[2])

(* The first value that is no key decides the return code.                 *)
partitions_collect_IN_expr(v, ps, vs) ==
    LET bad == {i \in DOMAIN vs : expr_parse_sharding_value(vs[i]) # "OK"}
    IN  IF vs = <<>> THEN Filtered("UNRECOGNIZED", ps)
        ELSE IF bad # {}
        THEN Filtered(expr_parse_sharding_value(vs[CHOOSE i \in bad : \A j \in bad : i <= j]), ps)
        ELSE Filtered("OK", FlattenSeq([i \in DOMAIN vs |-> partitions_filter(v, ps, "eq", vs[i])]))

(* A where clause whose key conditions optimize_sharding_condition marked  *)
(* for one of the tables ts (EP_SHARD_COND); linked equations (EP_JOIN_    *)
(* LINK) are not conditions.                                               *)
KeyOf_(conf, t) == shard_conf_get_info(conf, t).pkey

ShardCond(conf, nd, ts) ==
    /\ nd.op \in CompareOps \union {"between", "in"}
    /\ \E t \in ts : expr_is_sharding_key(nd, t, KeyOf_(conf, t))

optimize_sharding_condition(conf, w, t) == Cardinality({n \in DOMAIN w : ShardCond(conf, w[n], {t})})

FilterLeaf(conf, v, nd, ts, ps) ==
    IF ps = <<>> \/ ~ShardCond(conf, nd, ts) THEN Filtered("OK", ps)
    ELSE CASE nd.op = "between" -> partitions_filter_BETWEEN_expr(v, ps, nd.vs)
           [] nd.op = "in" -> partitions_collect_IN_expr(v, ps, nd.vs)
           [] OTHER -> partitions_filter_inequation_expr(v, ps,
                          IF nd.flip THEN flip_compare_op(nd.op) ELSE nd.op, nd.vs[1])

(* AND filters by one operand after the other, OR unites what each leaves  *)
(* of the same partitions, NOT is skipped.                                 *)
partitions_filter_expr(conf, v, w, ts, parts) ==
    LET F[n \in Nat, ps \in Seq(Range(parts))] ==
          LET nd == w[n] IN
          IF ps = <<>> THEN Filtered("OK", ps)
          ELSE CASE nd.op = "or" ->
                      LET a == F[nd.l, ps]
                          b == F[nd.r, ps]
                      IN  IF a.rc # "OK" THEN a ELSE IF b.rc # "OK" THEN b
                          ELSE Filtered("OK", a.ps \o b.ps)
                 [] nd.op = "and" -> LET a == F[nd.l, ps]
                                     IN  IF a.rc # "OK" THEN a ELSE F[nd.r, a.ps]
                 [] nd.op = "not" -> Filtered("OK", ps)
                 [] OTHER -> FilterLeaf(conf, v, nd, ts, ps)
    IN  F[1, parts]

(* --- joins ---------------------------------------------------------------- *)
(* find_linkage: the pairs of sharded tables some equation of the WHERE or *)
(* an ON clause ties by their keys, wherever in the clause it stands.      *)
find_linkage(conf, ts, nodes) ==
    {{nd.t, nd.t2} : nd \in {x \in nodes :
        /\ x.op = "link" /\ x.t # x.t2 /\ x.t \in ts /\ x.t2 \in ts
        /\ x.c = KeyOf_(conf, x.t) /\ x.c2 = KeyOf_(conf, x.t2)}}

join_on_sharding_key(conf, ts, sel) ==
    /\ \A t1, t2 \in ts : shard_conf_get_info(conf, t1).vdb = shard_conf_get_info(conf, t2).vdb
    /\ Cardinality(find_linkage(conf, ts, Range(sel.where) \union Range(sel.on))) + 1 = Cardinality(ts)

(* --- SELECTs whose result cannot be merged -------------------------------- *)
(* select_compare_orderby: a DISTINCT needs its ORDER BY among its columns.*)
select_compare_orderby(sel) ==
    IF sel.order = <<>> THEN sel.cols # <<"*">>
    ELSE Len(sel.cols) >= Len(sel.order) /\ Range(sel.order) \subseteq Range(sel.cols)

(* HAVING: one comparison with a column of the result and no LIMIT.        *)
sharding_filter_sql(sel) ==
    /\ sel.distinct => select_compare_orderby(sel)
    /\ sel.having # "no" => sel.having = "cmp" /\ sel.havingcol /\ sel.limit = -1
    /\ ~sel.bycase
    /\ sel.aggr \notin {"avg", "complex"}
    /\ sel.group # <<>> /\ sel.order # <<>> => sel.group = sel.order
    /\ sel.aggr # "distinct"
    /\ ~sel.subaggr

(* --- SELECT --------------------------------------------------------------- *)
SuperGroup == "super"

shard_conf_get_fixed_group(conf, pm, fixture) ==
    IF pm THEN <<SuperGroup>>
    ELSE IF conf.groups = <<>> THEN <<>>
    ELSE <<conf.groups[(fixture % Len(conf.groups)) + 1]>>

Routed(rc, groups) == [rc |-> rc, groups |-> groups]

Sharded(conf, names) == SelectSeq(names, LAMBDA t : t \in ShardTables(conf))
Single(conf, names) == SelectSeq(names, LAMBDA t : t \in SingleTables(conf))

AddTables(conf, groups, ts) == FoldLeft(LAMBDA g, t : shard_conf_get_table_groups(conf, t, g), groups, ts)

SingleGroups(conf, groups, ts) ==
    FoldLeft(LAMBDA g, t : AddDistinct(g, shard_conf_get_single_table(conf, t).group), groups, ts)

(* One member of the statement; a FROM item is a table or a subquery over  *)
(* the tables sub.  top is the whole statement's last member, which        *)
(* sharding_filter_sql looks at; groups what the members before it added.  *)
routing_select(conf, pm, top, sel, fixture, groups) ==
    LET derived == SelectSeq(sel.from, LAMBDA f : Sharded(conf, f.sub) # <<>>)
        names == FlattenSeq([i \in DOMAIN sel.from |-> sel.from[i].sub \o sel.from[i].name])
        tabs == Sharded(conf, names)
        singles == IF pm THEN <<>> ELSE Single(conf, names)
        keyed == \E i \in DOMAIN tabs : optimize_sharding_condition(conf, sel.where, tabs[i]) > 0
        parts == shard_conf_table_partitions(conf, tabs[1])
        f == IF keyed THEN partitions_filter_expr(conf, TableVdb(conf, tabs[1]), sel.where, Range(tabs), parts)
             ELSE Filtered("OK", <<>>)
        found == groups \o FlattenSeq([i \in DOMAIN tabs |-> PartGroups(f.ps)])
    IN  CASE sel.from = <<>> -> Routed("NON_SHARDING", groups \o shard_conf_get_fixed_group(conf, pm, fixture))
          [] sel.from # <<>> /\ derived # <<>> ->
               IF sharding_filter_sql(top)
               THEN Routed("ALL_SHARDINGS", shard_conf_get_table_groups(conf, Sharded(conf, derived[1].sub)[1], groups))
               ELSE Routed("ERROR", groups)
          [] OTHER ->
               IF singles # <<>>
               THEN IF tabs = <<>> /\ Len(SingleGroups(conf, groups, singles)) <= 1
                    THEN Routed("NON_SHARDING", SingleGroups(conf, groups, singles))
                    ELSE Routed("ERROR", groups)
               ELSE IF ~pm /\ Single(conf, sel.subq) # <<>> THEN Routed("ERROR", groups)
               ELSE IF tabs = <<>>
               THEN Routed("NON_SHARDING", groups \o shard_conf_get_fixed_group(conf, pm, fixture))
               ELSE IF \/ Len(tabs) >= 2 /\ ~join_on_sharding_key(conf, Range(tabs), sel)
                       \/ f.rc = "ERROR"
               THEN Routed("ERROR", groups)
               ELSE IF f.rc = "UNRECOGNIZED"
               THEN Routed("ALL_SHARDINGS", shard_conf_get_table_groups(conf, tabs[1], groups))
               ELSE IF found # <<>> THEN Routed("SHARDING", found)
               ELSE Routed("ALL_SHARDINGS", AddTables(conf, <<>>, tabs))

(* The members of a UNION are routed from the last to the first into one   *)
(* list of groups; an error ends it, the last code counts.                 *)
RouteSelects(conf, pm, sels, fixture) ==
    FoldLeft(LAMBDA r, sel : IF r.rc = "ERROR" THEN r
                             ELSE routing_select(conf, pm, sels[1], sel, fixture, r.groups),
             Routed("none", <<>>), sels)

(* --- the plan ------------------------------------------------------------- *)
(* groups: sharding_plan_add_groups keeps each group once; raw: the groups *)
(* as dup_groups recorded them in the table of the statement; rows: the    *)
(* rows of a multi-value INSERT that the text made for a group holds.      *)
Plan(r) == [rc |-> r.rc, groups |-> Distinct(r.groups), raw |-> r.groups, rows |-> <<>>]

PlanSelect(conf, pm, sels, fixture) ==
    LET r == RouteSelects(conf, pm, sels, fixture)
    IN  IF /\ r.rc \in {"SHARDING", "ALL_SHARDINGS"} /\ Len(Distinct(r.groups)) > 1
           /\ ~sharding_filter_sql(sels[1])
        THEN Plan(Routed("ERROR", <<>>))
        ELSE Plan(r)

(* A table that is not sharded: in partition mode all is in the super      *)
(* group; a single table has its group, any other table is in all groups.  *)
WriteUnsharded(conf, pm, t) ==
    IF pm THEN Routed("NON_SHARDING", <<SuperGroup>>)
    ELSE IF t \in SingleTables(conf) THEN Routed("NON_SHARDING", SingleGroups(conf, <<>>, <<t>>))
    ELSE Routed(IF Len(conf.groups) > 1 THEN "DIS_TRAN" ELSE "NON_SHARDING", conf.groups)

(* The leaves of w reached through nodes of these operators only.          *)
LeavesUnder(w, ops) ==
    LET L[n \in Nat] == IF w[n].op \in ops THEN L[w[n].l] \union L[w[n].r] ELSE {n}
    IN  IF w = <<>> THEN {} ELSE L[1]

expr_same_with_sharding_cond(conf, w, t, set) ==
    \E n \in LeavesUnder(w, {"or", "and"}) :
        ShardCond(conf, w[n], {t}) /\ w[n].op = "eq" /\ w[n].t = set.t /\ w[n].vs = <<set.v>>

SetsKey(conf, st) == {i \in DOMAIN st.set : expr_is_sharding_key(st.set[i], st.table, KeyOf_(conf, st.table))}

(* What routing_update and routing_delete share: the partitions the WHERE  *)
(* leaves; all of the table's groups, in a distributed transaction, when   *)
(* it leaves none.                                                         *)
FilterWrite(conf, st) ==
    LET parts == shard_conf_table_partitions(conf, st.table)
        f == IF optimize_sharding_condition(conf, st.where, st.table) > 0
             THEN partitions_filter_expr(conf, TableVdb(conf, st.table), st.where, {st.table}, parts)
             ELSE Filtered("OK", parts)
    IN  IF f.rc # "OK" THEN Routed("ERROR", <<>>)
        ELSE IF f.ps = <<>> THEN Routed("DIS_TRAN", shard_conf_get_table_groups(conf, st.table, <<>>))
        ELSE Routed(IF Len(f.ps) = 1 THEN "SHARDING" ELSE "DIS_TRAN", PartGroups(f.ps))

(* "update t set k = 1 where k = 1" is legal; no other change of the key.  *)
routing_update(conf, pm, st) ==
    IF st.table \notin ShardTables(conf) THEN WriteUnsharded(conf, pm, st.table)
    ELSE IF \E i \in SetsKey(conf, st) :
              ~(/\ optimize_sharding_condition(conf, st.where, st.table) = 1
                /\ expr_same_with_sharding_cond(conf, st.where, st.table, st.set[i]))
    THEN Routed("ERROR", <<>>)
    ELSE FilterWrite(conf, st)

routing_delete(conf, pm, st) ==
    IF st.table \notin ShardTables(conf) THEN WriteUnsharded(conf, pm, st.table)
    ELSE IF st.where = <<>>
    THEN LET gs == shard_conf_get_table_groups(conf, st.table, <<>>)
         IN  Routed(IF Len(gs) = 1 THEN "SHARDING" ELSE "DIS_TRAN", gs)
    ELSE FilterWrite(conf, st)

(* --- INSERT ---------------------------------------------------------------- *)
(* st.rows holds the key of each row (st.keycol: which column it is in; 0: *)
(* not among the columns, -1: no column list); a row too short for the     *)
(* column has no key: <<>>.                                                *)
PartOf(v, k) == CHOOSE i \in HomeParts(v, k) : \A j \in HomeParts(v, k) : i <= j

RowsOfPart(v, rows, i) == {r \in DOMAIN rows : PartOf(v, rows[r][1]) = i}

(* sharding_plan_add_group_sql replaces the text a group already has: the  *)
(* partition of the group that the hash table yields last is the one kept. *)
GroupRows(v, rows, g, rev) ==
    LET is == {i \in DOMAIN v.parts : v.parts[i].group = g /\ RowsOfPart(v, rows, i) # {}}
    IN  RowsOfPart(v, rows, CHOOSE i \in is : \A j \in is : IF rev THEN i <= j ELSE j <= i)

insert_multi_value_wrong(conf, st, rev) ==
    LET v == TableVdb(conf, st.table)
        gs == PartGroups(v.parts)
    IN  [rc |-> "DIS_TRAN", groups |-> Distinct(gs), raw |-> <<>>,
         rows |-> [g \in Range(gs) |-> DOMAIN st.rows]]

(* The rows are taken from the last to the first.  Inside the loop "rc" is *)
(* a new variable: a key that does not parse or has no partition leaves    *)
(* the function's own rc at 0 (USE_NON_SHARDING_TABLE) and no group.       *)
insert_multi_value(conf, st, rev) ==
    LET v == TableVdb(conf, st.table)
        Short == {r \in DOMAIN st.rows : st.rows[r] = <<>>}
        Lost == {r \in DOMAIN st.rows \ Short :
                    \/ expr_parse_sharding_value(st.rows[r][1]) # "OK"
                    \/ HomeParts(v, st.rows[r][1]) = {}}
        used == SelectSeq(v.parts, LAMBDA p : \E r \in DOMAIN st.rows : p = v.parts[PartOf(v, st.rows[r][1])])
        gs == Distinct(PartGroups(used))
    IN  IF Short \union Lost # {}
        THEN Plan(Routed(IF \E r \in Short : \A q \in Lost : r > q THEN "ERROR" ELSE "NON_SHARDING", <<>>))
        ELSE [rc |-> IF Len(gs) > 1 THEN "DIS_TRAN" ELSE "NON_SHARDING", groups |-> gs, raw |-> <<>>,
              rows |-> [g \in Range(gs) |-> GroupRows(v, st.rows, g, rev)]]

routing_insert(conf, pm, st, rev) ==
    IF st.table \notin ShardTables(conf)
    THEN IF /\ ~pm /\ st.table \notin SingleTables(conf) /\ st.from # ""
            /\ st.from \in ShardTables(conf) \union SingleTables(conf)
         THEN Plan(Routed("ERROR", <<>>))
         ELSE Plan(WriteUnsharded(conf, pm, st.table))
    ELSE IF st.keycol <= 0 \/ st.rows = <<>> THEN Plan(Routed("ERROR", <<>>))
    ELSE IF Len(st.rows) > 1 THEN insert_multi_value(conf, st, rev)
    ELSE IF st.rows[1] = <<>> \/ expr_parse_sharding_value(st.rows[1][1]) # "OK"
    THEN Plan(Routed("ERROR", <<>>))
    ELSE LET gs == PartGroups(partitions_filter(TableVdb(conf, st.table),
                                 shard_conf_table_partitions(conf, st.table), "eq", st.rows[1][1]))
             n == Len(Distinct(gs))
         IN  Plan(Routed(IF n = 0 THEN "NON_SHARDING" ELSE IF n = 1 THEN "SHARDING" ELSE "ERROR", gs))

(* --- hints and the other statements --------------------------------------- *)

(* A comment names a table, a table and a key, a group or all the groups.  *)
routing_by_property(conf, st) ==
    LET h == st.hint
        known == h.table \in ShardTables(conf)
        parts == IF known THEN shard_conf_table_partitions(conf, h.table) ELSE <<>>
        gs == CASE h.kind = "table" -> PartGroups(parts)
                [] h.kind = "key" ->
                     IF known /\ expr_parse_sharding_value(h.key) = "OK"
                     THEN PartGroups(partitions_filter(TableVdb(conf, h.table), parts, "eq", h.key)) ELSE <<>>
                [] h.kind = "all" -> conf.groups
                [] OTHER -> SelectSeq(conf.groups, LAMBDA g : g = h.group)
    IN  CASE \/ h.kind = "key" /\ (~known \/ expr_parse_sharding_value(h.key) # "OK")
             \/ h.kind \in {"all", "group"} /\ gs = <<>> -> Routed("ERROR", <<>>)
          [] OTHER -> Routed(IF st.type \in {"insert", "update", "delete"} /\ Len(gs) > 1
                             THEN "DIS_TRAN" ELSE "SHARDING", gs)

(* DESCRIBE and SHOW of a table: any group that has it.                    *)
DescribeGroup(conf, pm, t, fixture) ==
    IF t \in ShardTables(conf)
    THEN LET gs == PartGroups(shard_conf_table_partitions(conf, t))
         IN  Routed("ANY_SHARDINGS", <<gs[(fixture % Len(gs)) + 1]>>)
    ELSE IF ~pm /\ t \in SingleTables(conf) THEN Routed("NON_SHARDING", SingleGroups(conf, <<>>, <<t>>))
    ELSE Routed("NON_SHARDING", shard_conf_get_fixed_group(conf, pm, fixture))

sharding_parse_groups(conf, pm, st, fixture, rev) ==
    CASE ~pm /\ st.hint.kind # "none" -> Plan(routing_by_property(conf, st))
      [] (pm \/ st.hint.kind = "none") /\ st.type = "select" -> PlanSelect(conf, pm, st.sels, fixture)
      [] OTHER ->
           CASE st.type = "update" -> Plan(routing_update(conf, pm, st))
             [] st.type = "insert" -> routing_insert(conf, pm, st, rev)
             [] st.type = "delete" -> Plan(routing_delete(conf, pm, st))
             [] st.type = "describe" -> Plan(DescribeGroup(conf, pm, st.table, fixture))
             [] st.type = "set" -> Plan(Routed("ALL", conf.groups))
             [] st.type = "ddl" -> Plan(IF pm THEN Routed("ERROR", <<>>) ELSE Routed("ALL", conf.groups))
             [] st.type = "call" -> Plan(Routed("ERROR", <<>>))
             [] OTHER -> Plan(Routed("NON_SHARDING", shard_conf_get_fixed_group(conf, pm, fixture)))

(* --- the rewritten text ---------------------------------------------------- *)
(* prepare_for_sql_modify_orderby: the columns that are no functions and   *)
(* that the ORDER BY does not have yet follow it.                          *)
prepare_for_sql_modify_orderby(sel) ==
    sel.order \o SelectSeq(sel.cols, LAMBDA c : c # "fun" /\ ~(sel.distinct /\ Contains(sel.order, c)))

RewriteOrderBy(sel, groups, regroup) ==
    \/ groups > 1 /\ sel.distinct /\ Len(sel.cols) # Len(sel.order)
    \/ regroup /\ sel.group # <<>> /\ sel.order = <<>>

(* The SELECT as the groups get it: without HAVING, LIMIT a, b as LIMIT 0, *)
(* a + b when there are several, ordered so that the results can be        *)
(* merged.                                                                 *)
modify_select(sel, groups, regroup) ==
    [sel EXCEPT !.having = "no",
                !.limit = IF groups > 1 /\ sel.offset > 0 /\ sel.limit >= 0 THEN sel.limit + sel.offset ELSE @,
                !.offset = IF groups > 1 /\ sel.limit >= 0 THEN 0 ELSE @,
                !.order = IF RewriteOrderBy(sel, groups, regroup) THEN prepare_for_sql_modify_orderby(sel) ELSE @]

(* In partition mode the text for the n-th group names the table of the    *)
(* n-th of the groups dup_groups recorded (group_index).                   *)
NamedTable(pm, plan, n) ==
    IF pm /\ plan.raw # <<>> /\ plan.rows = <<>> THEN plan.raw[((n - 1) % Len(plan.raw)) + 1]
    ELSE plan.groups[n]

(* proxy_get_server_list: the statement is routed and rewritten, or the    *)
(* client gets an error (no group, or ERROR_UNPARSABLE).                   *)
SROff == [pc |-> "off", in |-> <<>>, plan |-> Plan(Routed("none", <<>>)), sel |-> <<>>, named |-> <<>>]

SRInit == \E x \in SRInputs : sr = [SROff EXCEPT !.pc = "read", !.in = x]

proxy_get_server_list(rev) ==
    /\ sr.pc = "read"
    /\ LET conf == shard_conf_load(sr.in.file)
           pm == sr.in.file.partition_mode
           st == sr.in.stmt
           plan == sharding_parse_groups(conf, pm, st, sr.in.fixture, rev)
       IN  IF plan.rc = "ERROR" \/ plan.groups = <<>>
           THEN sr' = [sr EXCEPT !.pc = "refused"]
           ELSE sr' = [sr EXCEPT !.pc = "sent", !.plan = plan,
                         !.sel = IF st.type = "select"
                                 THEN <<modify_select(st.sels[1], Len(plan.groups), sr.in.regroup)>> ELSE <<>>,
                         !.named = [n \in DOMAIN plan.groups |-> NamedTable(pm, plan, n)]]

SRNext == \E rev \in BOOLEAN : proxy_get_server_list(rev)

(***************************************************************************)
(* What SQL means.  Every table holds two rows for each key that has a     *)
(* home: row 2k and row 2k + 1, whose column x is 0 and 1.  A function or  *)
(* subquery (Compound) has the value 1.                                    *)
(***************************************************************************)
RowKey(r) == (r - (r % 2)) \div 2

RowIds == {2 * k : k \in SCKeys} \union {2 * k + 1 : k \in SCKeys}

Column(r, c) == IF c = "k" THEN RowKey(r) ELSE r % 2

Val(v) == IF v = Compound THEN 1 ELSE v

Holds(op, a, b) == CASE op = "eq" -> a = b [] op = "ne" -> a # b [] op = "lt" -> a < b
                     [] op = "le" -> a <= b [] op = "gt" -> a > b [] OTHER -> a >= b

(* Does the clause hold of the rows env[t] of the tables?                  *)
Sat(w, env) ==
    LET Of(nd) == Column(env[IF nd.t = "" THEN CHOOSE t \in DOMAIN env : TRUE ELSE nd.t], nd.c)
        S[n \in Nat] ==
          LET nd == w[n] IN
          CASE nd.op = "and" -> S[nd.l] /\ S[nd.r]
            [] nd.op = "or" -> S[nd.l] \/ S[nd.r]
            [] nd.op = "not" -> ~S[nd.l]
            [] nd.op = "link" -> Column(env[nd.t], nd.c) = Column(env[nd.t2], nd.c2)
            [] nd.op = "between" -> Val(nd.vs[1]) <= Of(nd) /\ Of(nd) <= Val(nd.vs[2])
            [] nd.op = "in" -> IF nd.vs = <<>> THEN Of(nd) = 1 ELSE \E i \in DOMAIN nd.vs : Of(nd) = Val(nd.vs[i])
            [] OTHER -> IF nd.flip THEN Holds(nd.op, Val(nd.vs[1]), Of(nd)) ELSE Holds(nd.op, Of(nd), Val(nd.vs[1]))
    IN  w = <<>> \/ S[1]

(* The rows of t in group g, and all rows of t.                            *)
Stored(conf, t, g) == {r \in RowIds : g \in HomeGroups(conf, t, RowKey(r))}
AllRows(conf, t) == {r \in RowIds : HomeGroups(conf, t, RowKey(r)) # {}}

(* LIMIT and OFFSET on results ordered by the row of the first table.      *)
Page(S, t, offset, limit) ==
    IF limit = -1 THEN S
    ELSE {e \in S : LET rank == Cardinality({d \in S : d[t] < e[t]})
                    IN  offset <= rank /\ rank < offset + limit}

HavingHolds(sel, e, t) == sel.having # "no" => e[t] % 2 = 1

SrConf == shard_conf_load(sr.in.file)
SelTabs(sel) == {sel.from[i].name[1] : i \in DOMAIN sel.from}
SelFirst(sel) == sel.from[1].name[1]

Matches(sel, rows) == {e \in rows : Sat(sel.where, e) /\ \A i \in DOMAIN sel.on : Sat(<<sel.on[i]>>, e)}

Wanted_(sel) == LET t == SelFirst(sel)
                    all == {e \in [SelTabs(sel) -> RowIds] : \A u \in SelTabs(sel) : e[u] \in AllRows(SrConf, u)}
                IN  Page({e \in Matches(sel, all) : HavingHolds(sel, e, t)}, t, sel.offset, sel.limit)

(* What the group whose tables are named g answers to the rewritten SELECT.*)
Answer(sel, g) ==
    LET t == SelFirst(sel)
        here == {e \in [SelTabs(sel) -> RowIds] : \A u \in SelTabs(sel) : e[u] \in Stored(SrConf, u, g)}
    IN  Page({e \in Matches(sel, here) : HavingHolds(sel, e, t)}, t, sel.offset, sel.limit)

(* The client's result: one group's answer as it is, several merged with   *)
(* the HAVING, LIMIT and OFFSET of the original statement.                 *)
Result(sel) ==
    LET t == SelFirst(sel)
        answers == UNION {Answer(sr.sel[1], sr.named[n]) : n \in DOMAIN sr.named}
    IN  IF Len(sr.named) = 1 THEN answers
        ELSE Page({e \in answers : HavingHolds(sel, e, t)}, t, sel.offset, sel.limit)

SentSelect == sr.pc = "sent" /\ sr.in.stmt.type = "select" /\ sr.in.stmt.hint.kind = "none"

(* A SELECT over sharded tables only, no UNION. *)
PlainSelect == /\ SentSelect /\ Len(sr.in.stmt.sels) = 1
               /\ LET sel == sr.in.stmt.sels[1]
                  IN  /\ sel.from # <<>>
                      /\ \A i \in DOMAIN sel.from : sel.from[i].sub = <<>> /\ sel.from[i].name[1] \in ShardTables(SrConf)

SrSel == sr.in.stmt.sels[1]

LinksConjoined(w) == \A n \in DOMAIN w : w[n].op = "link" => n \in LeavesUnder(w, {"and"})

NamedOnce == IsInjective(sr.named)

(***************************************************************************)
(* Properties                                                              *)
(***************************************************************************)
(* A statement is sent if and only if it has a group, and every group has  *)
(* its text (sharding_parse_groups).                                       *)
SRTypeOK == /\ sr.pc \in {"off", "read", "sent", "refused"}
            /\ sr.pc = "sent" <=> sr.plan.groups # <<>>
            /\ Len(sr.named) = Len(sr.plan.groups)

(* A SELECT that is accepted returns what it would return were the tables  *)
(* in one database: the groups partitions_filter_expr keeps hold every row *)
(* the WHERE clause lets through, the rewritten LIMIT asks each for        *)
(* enough, and joined rows are in the same group (sharding-parser.c,       *)
(* routing_select and modify_select).  Excluded, because the code answers  *)
(* otherwise: HAVING on one group, join conditions under OR or NOT, and    *)
(* tables named twice in partition mode.                                   *)
AnswerRight ==
    /\ PlainSelect
    /\ SrSel.having = "no" \/ Len(sr.named) > 1
    /\ LinksConjoined(SrSel.where)
    /\ NamedOnce
    => Result(SrSel) = Wanted_(SrSel)

(* The same for every SELECT with HAVING (modify_select removes the HAVING *)
(* whatever the number of groups; only a merge applies it again).          *)
HavingApplied == PlainSelect /\ LinksConjoined(SrSel.where) /\ NamedOnce => Result(SrSel) = Wanted_(SrSel)

(* In partition mode the statements sent to the groups name the table of   *)
(* each routed group once (dup_groups and group_index).                    *)
EachTableNamed == sr.pc = "sent" => Range(sr.named) = Range(sr.plan.groups)

Affected_(st) == UNION {{r \in Stored(SrConf, st.table, sr.named[n]) : Sat(st.where, [t \in {st.table} |-> r])} :
                            n \in DOMAIN sr.named}

(* An UPDATE or DELETE of a sharded table that is accepted changes every   *)
(* row its WHERE clause names (routing_update, routing_delete); one of an  *)
(* unsharded table reaches every group that a SELECT of it may be sent to. *)
WriteReaches ==
    sr.pc = "sent" /\ sr.in.stmt.type \in {"update", "delete"} /\ sr.in.stmt.hint.kind = "none" /\ NamedOnce =>
        LET st == sr.in.stmt IN
        IF st.table \in ShardTables(SrConf)
        THEN Affected_(st) = {r \in AllRows(SrConf, st.table) : Sat(st.where, [t \in {st.table} |-> r])}
        ELSE st.table \in SingleTables(SrConf) \/ Range(SrConf.groups) \subseteq Range(sr.plan.groups)
                \/ sr.in.file.partition_mode

(* A write that goes to several groups is a distributed transaction        *)
(* (USE_DIS_TRAN), however the groups were found: by key, by hint, by      *)
(* rows of an INSERT or because every group has the table.                 *)
WritesAtomic ==
    sr.pc = "sent" /\ sr.in.stmt.type \in {"insert", "update", "delete"} /\ Len(sr.plan.groups) > 1
        => sr.plan.rc = "DIS_TRAN"

(* An accepted UPDATE moves no row away from its home: a key it assigns is *)
(* the key the row has, when the WHERE clause has no OR (routing_update,   *)
(* expr_same_with_sharding_cond).                                          *)
KeyKept ==
    /\ sr.pc = "sent" /\ sr.in.stmt.type = "update" /\ sr.in.stmt.hint.kind = "none"
    /\ sr.in.stmt.table \in ShardTables(SrConf)
    /\ \A n \in DOMAIN sr.in.stmt.where : sr.in.stmt.where[n].op # "or"
    => \A i \in SetsKey(SrConf, sr.in.stmt), r \in Affected_(sr.in.stmt) : RowKey(r) = sr.in.stmt.set[i].v

(* Each row of an accepted INSERT into a sharded table is in the text of   *)
(* exactly one group, the home of its key (routing_insert and              *)
(* insert_multi_value), when no group has two partitions.                  *)
RowsStored ==
    /\ sr.pc = "sent" /\ sr.in.stmt.type = "insert" /\ sr.in.stmt.hint.kind = "none"
    /\ sr.in.stmt.table \in ShardTables(SrConf)
    /\ IsInjective(PartGroups(shard_conf_table_partitions(SrConf, sr.in.stmt.table)))
    => \A i \in DOMAIN sr.in.stmt.rows :
          {g \in Range(sr.plan.groups) : sr.plan.rows = <<>> \/ i \in sr.plan.rows[g]}
              = HomeGroups(SrConf, sr.in.stmt.table, sr.in.stmt.rows[i][1])

(* What several groups answer can be merged: a DISTINCT is ordered by all  *)
(* its columns, no average or DISTINCT aggregate is added up, a grouped    *)
(* result is ordered by its groups first, and a HAVING is one comparison   *)
(* that the merge can make (sharding_filter_sql and modify_select).        *)
Mergeable ==
    SentSelect /\ Len(sr.plan.groups) > 1 /\ sr.plan.rc \in {"SHARDING", "ALL_SHARDINGS"} =>
        /\ SrSel.distinct => Range(SrSel.cols) \ {"fun"} \subseteq Range(sr.sel[1].order)
        /\ SrSel.aggr \in {"no", "sum"}
        /\ SrSel.group # <<>> /\ SrSel.order # <<>> => IsPrefix(SrSel.group, sr.sel[1].order)
        /\ SrSel.having # "no" => SrSel.having = "cmp" /\ SrSel.havingcol /\ sr.sel[1].limit = -1

(* A SELECT over several groups is answered as by one database: the groups *)
(* it is sent to hold its rows, their texts ask for enough, and what is    *)
(* left to the merge is something it can do (routing_select,               *)
(* modify_select, sharding_filter_sql).                                    *)
SelectRight == SRTypeOK /\ AnswerRight /\ Mergeable

(* A write that is accepted changes every row it names and no row's home,  *)
(* stores each row of an INSERT once, at its home, and is a distributed    *)
(* transaction if it goes to several groups (routing_update,               *)
(* routing_delete, routing_insert, insert_multi_value).                    *)
WriteRight == WriteReaches /\ WritesAtomic /\ KeyKept /\ RowsStored
=============================================================================
