------------------------------- MODULE MCQuery -------------------------------
(***************************************************************************)
(* Model checking of the way of a query: the sharding configuration, the   *)
(* routing of a statement, the adjustment of the server connections, the   *)
(* stream of an answer, and the merge of the answers. They share no state: *)
(* a behaviour is a scene of one of them, in which the others are off.     *)
(***************************************************************************)
EXTENDS MCRouting, ResultMerge, AggrMerge, Wire, SessionAttr

VARIABLE scene

MCShards == 1..3

(***************************************************************************)
(* Merge of rows: per shard its sorted keys and the packet that ends them. *)
(***************************************************************************)

MCMerge(r, e, l, o, distinct, desc, order, faults) ==
    [rows |-> r, end |-> e, limit |-> l, offset |-> o, distinct |-> distinct, desc |-> desc, order |-> order,
     faults |-> faults]

MCEnds == [i \in MCShards |-> END]

MCMerges ==
    {MCMerge(r, MCEnds, l, o, FALSE, order, order, FALSE) :
        r \in [MCShards -> {<<>>, <<0>>, <<1, 0>>}], l \in {1, 9}, o \in {0, 1}, order \in BOOLEAN}
    \cup {MCMerge(r, MCEnds, l, 0, d, FALSE, TRUE, FALSE) :
             r \in [MCShards -> {<<0>>, <<1>>, <<0, 1>>}], l \in {2, 9}, d \in BOOLEAN}
    \cup {MCMerge(r, e, l, 0, FALSE, FALSE, order, FALSE) :
             r \in [MCShards -> {<<>>, <<0>>}], e \in [MCShards -> {END, ERRP}], l \in {1, 9}, order \in BOOLEAN}
    \cup {MCMerge(r, MCEnds, 9, 0, FALSE, FALSE, order, FALSE) :
             r \in [MCShards -> {<<ERRP>>, <<0>>, <<SCI>>}], order \in BOOLEAN}
    \cup {MCMerge(r, MCEnds, l, 0, FALSE, FALSE, order, TRUE) :
             r \in [MCShards -> {<<0>>, <<0, 1>>}], l \in {1, 9}, order \in BOOLEAN}

(***************************************************************************)
(* Merge of aggregates: tenths, for GROUP BY; sums and comparisons of      *)
(* numbers in text form; the OK packets of a write.                        *)
(***************************************************************************)

MCTenths(n) ==
    LET m == IF n < 0 THEN -n ELSE n IN Num(n < 0, <<m \div 10>>, <<m % 10>>)

MCRow(g, v) == [g |-> g, v |-> v]

MCGroupRows ==
    {<<>>, <<MCRow(1, MCTenths(5))>>, <<MCRow(1, MCTenths(99)), MCRow(2, SNNull)>>,
     <<MCRow(1, MCTenths(-5)), MCRow(2, MCTenths(99))>>}

MCNumbers ==
    {Num(n, i, f) : n \in BOOLEAN, i \in {<<0>>, <<1>>, <<9>>, <<1, 0>>, <<9, 9>>},
                    f \in {<<>>, <<0>>, <<5>>, <<9>>, <<0, 1>>, <<9, 9>>, <<5, 0>>}}

MCPacket(k, n) == [kind |-> k, rows |-> n]

MCAggregates ==
    [op : {"group"}, fun : {"SUM", "MAX", "MIN"}, rel : {"none", ">", "="}, cond : {MCTenths(5)}, limit : {1, 9},
     offset : {0, 1}, desc : {FALSE}, decimal : {TRUE}, rows : [MCShards -> MCGroupRows]]
    \cup [op : {"sum"}, a : MCNumbers, b : MCNumbers, decimal : {TRUE}]
    \cup [op : {"compare"}, a : MCNumbers, b : MCNumbers]
    \cup [op : {"write"}, pkts : [1..3 -> {MCPacket("ok", 0), MCPacket("ok", 2), MCPacket("err", 0)}],
          global : BOOLEAN]

(***************************************************************************)
(* Streams: answers on the fast path and on the tracked one.               *)
(***************************************************************************)

MCCommands ==
    {"QUERY", "STMT_EXECUTE", "STMT_PREPARE", "STMT_FETCH", "FIELD_LIST", "SET_OPTION", "STATISTICS", "PING"}

MCStreams ==
    {WMix("QUERY", Header({}) \o <<Plain("null"), Plain("eof")>>, TRUE, "rw", FALSE),
     WMix("QUERY", <<Plain("err")>>, TRUE, "rw", FALSE),
     WMix("QUERY", Header({}) \o <<Plain("err")>>, TRUE, "shard", FALSE),
     WMix("QUERY", Header({}) \o <<Plain("data"), Plain("eof")>>, FALSE, "rw", TRUE)}
    \cup UNION {{WMix(c, r, FALSE, "rw", FALSE) : r \in Answers(c, {"long"}, 1)} : c \in MCCommands}

(***************************************************************************)
(* Sessions: clients in turn and their statements.                         *)
(***************************************************************************)

MCGroups == {1, 2}

MCQueries == {SAStmt("query", p, "") : p \in SUBSET MCGroups \ {{}}}

MCChanges == {SAStmt("use", {1}, "d2"), SAStmt("initdb", {1}, "d2"), SAStmt("names", {1}, "c2")}

MCClient1 == SAClient("u1", "d1", "c2", FALSE)
MCClient2 == SAClient("u2", "", "c1", TRUE)
MCClient3 == SAClient("u2", "d2", "c2", TRUE)

MCSessions ==
    {SAMix(<<MCClient3, MCClient1>>, MCQueries, 3, 0, 0, 0),
     SAMix(<<MCClient1, MCClient2>>, MCQueries \cup MCChanges, 3, 0, 0, 0),
     SAMix(<<MCClient1, MCClient3>>, MCQueries \cup MCChanges, 2, 1, 1, 0),
     SAMix(<<MCClient3>>, MCQueries, 2, 1, 0, 1)}

(***************************************************************************)
(* The scenes.                                                             *)
(***************************************************************************)

MCVars == <<scene, sc, sr, rm_vars, ag_vars, w, sa>>

MCInit ==
    \/ scene = "conf" /\ SCInit /\ sr = SROff /\ RMOff /\ AGOff /\ w = WOff /\ sa = SAOff
    \/ scene = "route" /\ SRInit /\ sc = SCOff /\ RMOff /\ AGOff /\ w = WOff /\ sa = SAOff
    \/ scene = "merge" /\ RMInit /\ sc = SCOff /\ sr = SROff /\ AGOff /\ w = WOff /\ sa = SAOff
    \/ scene = "aggr" /\ AGInit /\ sc = SCOff /\ sr = SROff /\ RMOff /\ w = WOff /\ sa = SAOff
    \/ scene = "wire" /\ WInit /\ sc = SCOff /\ sr = SROff /\ RMOff /\ AGOff /\ sa = SAOff
    \/ scene = "session" /\ SAInit /\ sc = SCOff /\ sr = SROff /\ RMOff /\ AGOff /\ w = WOff

MCNext ==
    /\ UNCHANGED scene
    /\ \/ scene = "conf" /\ SCNext /\ UNCHANGED <<sr, rm_vars, ag_vars, w, sa>>
       \/ scene = "route" /\ SRNext /\ UNCHANGED <<sc, rm_vars, ag_vars, w, sa>>
       \/ scene = "merge" /\ RMNext /\ UNCHANGED <<sc, sr, ag_vars, w, sa>>
       \/ scene = "aggr" /\ AGNext /\ UNCHANGED <<sc, sr, rm_vars, w, sa>>
       \/ scene = "wire" /\ WNext /\ UNCHANGED <<sc, sr, rm_vars, ag_vars, sa>>
       \/ scene = "session" /\ SANext /\ UNCHANGED <<sc, sr, rm_vars, ag_vars, w>>

(* The fairness of each component, see WFairness and SAFairness.           *)
MCSpec == MCInit /\ [][MCNext]_MCVars /\ WFairness /\ SAFairness

\* Every client is answered: an answer that comes in full reaches it in full, and no adjustment of
\* attributes, closed connection or timeout leaves it waiting (WAnswered and SAAnswered).
ClientsAnswered == WAnswered /\ SAAnswered
=============================================================================
