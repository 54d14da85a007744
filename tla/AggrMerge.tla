----------------------------- MODULE AggrMerge -----------------------------
(***************************************************************************)
(* Merging the groups of an aggregate query, and the answers of a write    *)
(* (aggr_by_group and merge_for_modify in src/resultset_merge.c).  All     *)
(* shards have been read completely.  Each returns its groups in the order *)
(* of the group column; rows of one group on several shards are combined   *)
(* into one, HAVING and LIMIT are applied to the combined rows.            *)
(*                                                                         *)
(* An input is a "group" query with its rows, the packets that answer a    *)
(* "write", or two numbers and what is done with them ("sum", "compare").  *)
(***************************************************************************)
EXTENDS StrNum, FiniteSets

CONSTANTS
    AGShards,       \* 1 .. n
    AGInputs        \* see above

VARIABLES
    ag_in,          \* the query and the shards' rows, a row being [g, v]
    ag              \* candidate lists and counters of aggr_by_group

ag_vars == <<ag_in, ag>>

AGN == Cardinality(AGShards)

\* A shard's list is at its EOF packet.
AtEof(rows, i) == rows[i] = <<>>

AGInit ==
    /\ ag_in \in AGInputs
    /\ ag = [pc |-> IF ag_in.op = "group" THEN "pick" ELSE ag_in.op,
             rows |-> IF ag_in.op = "group" THEN ag_in.rows ELSE <<>>, cand |-> 0, cnt |-> 0, off |-> 0,
             out |-> <<>>]

AGOff == ag_in = <<>> /\ ag = [pc |-> "off"]

\* The candidate left by the last round is kept unless its list is over; then
\* the first list that is not over gives it.
AGPick ==
    /\ ag.pc = "pick"
    /\ LET live == {i \in AGShards : ~AtEof(ag.rows, i)}
           c == IF ag.cand \in live THEN ag.cand
                ELSE CHOOSE i \in live : \A j \in live : i <= j
       IN  ag' = IF ag.cnt >= ag_in.limit \/ live = {} THEN [ag EXCEPT !.pc = "done"]
                 ELSE [ag EXCEPT !.cand = c, !.pc = "scan"]
    /\ UNCHANGED ag_in

\* cal_aggr_rec_rel of the candidate a and the row b of another list: -1 when
\* b comes first, 0 when they are one group, 1 when the candidate stays.
RecRel(a, b) == IF a.g = b.g THEN 0
                ELSE IF (a.g < b.g) = ag_in.desc THEN -1 ELSE 1

ScanList_wrong(s, i) ==
    IF s.failed \/ i = s.cand \/ AtEof(s.rows, i) THEN s
    ELSE LET a == s.rows[s.cand][1]
             b == s.rows[i][1]
         IN  CASE RecRel(a, b) = -1 -> [s EXCEPT !.cand = i]
               [] RecRel(a, b) = 1 -> s
               [] RecRel(a, b) = 0 -> [s EXCEPT !.rows[i] = Tail(@)]

\* One other list in the scan: a row that comes earlier takes the candidate's
\* place, a row of the same group is combined into it (combine_aggr_record)
\* and its list advances.
ScanList(s, i) ==
    IF s.failed \/ i = s.cand \/ AtEof(s.rows, i) THEN s
    ELSE LET a == s.rows[s.cand][1]
             b == s.rows[i][1]
             m == merge_aggr_value(ag_in.fun, ag_in.decimal, a.v, b.v)
         IN  CASE RecRel(a, b) = -1 -> [s EXCEPT !.cand = i]
               [] RecRel(a, b) = 1 -> s
               [] RecRel(a, b) = 0 ->
                    [s EXCEPT !.failed = ~m.ok,
                              !.rows[s.cand][1].v = m.val, !.rows[i] = Tail(@)]

AGScan ==
    /\ ag.pc = "scan"
    /\ LET s == FoldLeft(ScanList, [rows |-> ag.rows, cand |-> ag.cand, failed |-> FALSE],
                         [i \in 1..AGN |-> i])
       IN  ag' = [ag EXCEPT !.rows = s.rows, !.cand = s.cand,
                            !.pc = IF s.failed THEN "failed" ELSE "emit"]
    /\ UNCHANGED ag_in

\* The candidate is skipped for OFFSET, dropped by HAVING or put out.
AGEmit ==
    /\ ag.pc = "emit"
    /\ LET row == ag.rows[ag.cand][1]
           next == [ag EXCEPT !.pc = "pick", !.rows[ag.cand] = Tail(@)]
       IN  ag' = IF ag.off < ag_in.offset THEN [next EXCEPT !.off = @ + 1]
                 ELSE IF ag_in.rel = "none" \/ fulfill_condi(row.v, ag_in.rel, ag_in.cond)
                 THEN [next EXCEPT !.out = Append(@, row), !.cnt = @ + 1]
                 ELSE next
    /\ UNCHANGED ag_in

(***************************************************************************)
(* merge_for_modify: the first packet of every shard, [kind, rows].        *)
(***************************************************************************)
AffectedBy(pkts) == FoldLeft(LAMBDA n, p : n + p.rows, 0, pkts)

\* An ERR packet is the answer; the rows of a global table are counted once.
merge_for_modify ==
    /\ ag.pc = "write"
    /\ LET err == \E i \in DOMAIN ag_in.pkts : ag_in.pkts[i].kind = "err"
           sum == AffectedBy(ag_in.pkts)
       IN  ag' = [ag EXCEPT !.pc = "written",
                            !.out = IF err THEN <<>>
                                    ELSE <<IF ag_in.global THEN sum \div Len(ag_in.pkts) ELSE sum>>]
    /\ UNCHANGED ag_in

\* str_add as aggr_by_group uses it, compare_str_num_value as is_prior_to does.
AGNumbers ==
    /\ ag.pc \in {"sum", "compare"}
    /\ ag' = [ag EXCEPT !.pc = IF ag.pc = "sum" THEN "summed" ELSE "compared",
                        !.out = <<IF ag.pc = "sum" THEN str_add(ag_in.decimal, ag_in.a, ag_in.b)
                                  ELSE compare_str_num_value(ag_in.a, ag_in.b)>>]
    /\ UNCHANGED ag_in

AGNext == AGPick \/ AGScan \/ AGEmit \/ merge_for_modify \/ AGNumbers

(***************************************************************************)
(* What the answer must be.                                                *)
(***************************************************************************)
GroupedRows == FlattenSeq(ag_in.rows)

\* The aggregate over a group's rows, <<>> when all are NULL
Combined(g) ==
    LET vs == {Value(GroupedRows[k].v) : k \in {k \in DOMAIN GroupedRows :
                                              GroupedRows[k].g = g /\ GroupedRows[k].v.int # <<>>}}
        all == SelectSeq(GroupedRows, LAMBDA r : r.g = g /\ r.v.int # <<>>)
    IN  IF vs = {} THEN <<>>
        ELSE CASE ag_in.fun \in {"SUM", "COUNT"} ->
                    <<FoldLeft(LAMBDA n, r : n + Value(r.v), 0, all)>>
               [] ag_in.fun = "MAX" -> <<CHOOSE x \in vs : \A y \in vs : y <= x>>
               [] ag_in.fun = "MIN" -> <<CHOOSE x \in vs : \A y \in vs : x <= y>>

Related(x, rel, y) ==
    CASE rel = "<=" -> x <= y [] rel = ">=" -> x >= y [] rel = "<" -> x < y
      [] rel = ">" -> x > y [] rel = "=" -> x = y [] rel = "<>" -> x # y

GroupHolds(g) == ag_in.rel = "none" \/
            (Combined(g) # <<>> /\ Related(Combined(g)[1], ag_in.rel, Value(ag_in.cond)))

WantedGroups ==
    LET gs == {g \in {GroupedRows[k].g : k \in DOMAIN GroupedRows} : GroupHolds(g)}
        all == SetToSortSeq(gs, LAMBDA a, b : IF ag_in.desc THEN a > b ELSE a < b)
    IN  SubSeq(all, ag_in.offset + 1,
               IF ag_in.offset + ag_in.limit < Len(all) THEN ag_in.offset + ag_in.limit
               ELSE Len(all))

Shown(v) == IF v.int = <<>> THEN <<>> ELSE <<Value(v)>>

\* The numbers of a query all have one scale, as those of a DECIMAL column do.
OneScale ==
    \A k \in DOMAIN GroupedRows :
        /\ GroupedRows[k].v.int # <<>> => Len(GroupedRows[k].v.frac) = Len(GroupedRows[1].v.frac)
        /\ ag_in.rel # "none" => Len(ag_in.cond.frac) \in {0, Len(GroupedRows[1].v.frac)}

\* An aggregate query over several shards returns, in order, exactly the
\* groups its HAVING and LIMIT select, each with the aggregate over the rows
\* of all shards (aggr_by_group, cal_aggr_rec_rel, merge_aggr_value).  MAX, MIN
\* and HAVING compare digit by digit, so this is asked of numbers of one
\* scale; and OFFSET counts groups before HAVING drops them, so not of the two
\* together.
GroupsRight ==
    /\ ag.pc = "done"
    /\ ag_in.fun \in {"MAX", "MIN"} \/ ag_in.rel # "none" => OneScale
    /\ ag_in.rel = "none" \/ ag_in.offset = 0
    => [k \in DOMAIN ag.out |-> <<ag.out[k].g, Shown(ag.out[k].v)>>]
         = [k \in DOMAIN WantedGroups |-> <<WantedGroups[k], Combined(WantedGroups[k])>>]

\* A write that went to several shards is confirmed only if every shard confirmed it, with the
\* number of rows it changed: those of all shards, and those of one for a table every shard holds
\* a copy of (merge_for_modify).
WriteSummed ==
    ag.pc = "written" =>
        IF \E i \in DOMAIN ag_in.pkts : ag_in.pkts[i].kind = "err" THEN ag.out = <<>>
        ELSE /\ ~ag_in.global => ag.out = <<AffectedBy(ag_in.pkts)>>
             /\ ag_in.global /\ (\A i \in DOMAIN ag_in.pkts : ag_in.pkts[i] = ag_in.pkts[1])
                    => ag.out = <<ag_in.pkts[1].rows>>

\* The sum of two numbers in text form is the text of their sum, carries, borrows, signs and
\* fractions of different length included (str_add), whenever it fits the buffer.
SumsRight ==
    ag.pc = "summed" /\ ag.out[1].ok => Value(ag.out[1].val) = Value(ag_in.a) + Value(ag_in.b)

\* Two numbers in text form compare as the numbers do (compare_str_num_value), but for 0 and -0.
ComparesRight ==
    ag.pc = "compared" /\ ag.out[1].ok =>
        \/ ag.out[1].sign = Sign(Value(ag_in.a) - Value(ag_in.b))
        \/ Value(ag_in.a) = 0 /\ Value(ag_in.b) = 0

\* Aggregates and write counts over several shards are those of one database, and the arithmetic on
\* numbers in text form below them is that of the numbers (aggr_by_group, merge_for_modify,
\* str_decimal_add, str_decimal_sub, cmp_str_num).
AggrRight == GroupsRight /\ WriteSummed /\ SumsRight /\ ComparesRight
=============================================================================
