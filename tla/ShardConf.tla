----------------------------- MODULE ShardConf -----------------------------
(***************************************************************************)
(* The sharding configuration of a worker process: the virtual databases   *)
(* (VDB) and their partitions, the sharded tables, the single tables and   *)
(* the list of all groups; how it is read from sharding.json at start-up,  *)
(* changed by the administrator and written back.                          *)
(* (src/src/sharding-config.c, src/plugins/admin/admin-commands.c)         *)
(*                                                                         *)
(* Keys are integers.  SCIntMax and SCIntMin stand for INT_MAX and INT_MIN *)
(* (the code's "unlimited" for integer keys, stored in 64 bits), so keys   *)
(* outside SCIntMin..SCIntMax exist.  A string key has no largest value:   *)
(* NULL, its "unlimited", is SCTop / SCBottom, beyond every key.           *)
(***************************************************************************)
EXTENDS Integers, Sequences, FiniteSets, SequencesExt

CONSTANTS SCKeys,      \* the keys rows may have
          SCIntMax, SCIntMin,
          SCTop, SCBottom,
          SCFiles,     \* the sharding.json files the process may start with
          SCVdbs,      \* the VDBs an administrator may create
          SCTables,    \* the tables an administrator may shard
          SCSingles,   \* the single tables an administrator may create
          SCSteps      \* bound on the administrator's commands

VARIABLE sc

ASSUME ShardConfAssumption ==
    /\ SCIntMin < SCIntMax /\ SCIntMax < SCTop /\ SCBottom < SCIntMin
    /\ \A k \in SCKeys : SCBottom < k /\ k < SCTop

MAX_HASH_VALUE_COUNT == 8

(* One entry of "partitions" in the file is [group, kind, vals]: null, a    *)
(* value, a list of values (several ranges of one group) or hash values.   *)
Unlimited(type) == IF type = "str" THEN SCTop ELSE SCIntMax

sharding_partition_new(group, value, hashes) ==
    [group |-> group, value |-> value, low |-> SCBottom, hash_set |-> hashes]

parse_partitions(v) ==
    FlattenSeq([i \in DOMAIN v.parts |->
        LET e == v.parts[i] IN
        CASE e.kind = "null" -> <<sharding_partition_new(e.group, Unlimited(v.type), {})>>
          [] e.kind = "hash" ->
               <<sharding_partition_new(e.group, 0,
                    {e.vals[j] : j \in DOMAIN e.vals} \cap 0..(v.num - 1))>>
          [] OTHER -> [j \in DOMAIN e.vals |-> sharding_partition_new(e.group, e.vals[j], {})]])

(* The ranges are sorted and each takes the one before as its lower bound. *)
setup_partitions(v, parts) ==
    IF v.method = "hash" THEN parts
    ELSE LET s == SortSeq(parts, LAMBDA a, b : a.value < b.value)
         IN  [i \in DOMAIN s |->
                [s[i] EXCEPT !.low = IF i > 1 THEN s[i - 1].value
                                     ELSE IF v.type = "str" THEN SCBottom ELSE SCIntMin]]

(* A VDB in memory. *)
parse_vdb(v) == [id |-> v.id, method |-> v.method, type |-> v.type, num |-> v.num,
                 parts |-> setup_partitions(v, parse_partitions(v))]

sharding_vdb_is_valid(partition_mode, v, num_groups) ==
    /\ partition_mode \/ Len(v.parts) = num_groups
    /\ v.method = "hash" =>
         /\ v.num > 0 /\ v.num <= MAX_HASH_VALUE_COUNT
         /\ \A h \in 0..(v.num - 1) : \E i \in DOMAIN v.parts : h \in v.parts[i].hash_set

VdbIds(vdbs) == {vdbs[i].id : i \in DOMAIN vdbs}

(* shard_vdbs_get_by_id: the first VDB with this id. *)
VdbById(vdbs, id) == vdbs[CHOOSE i \in DOMAIN vdbs :
                            vdbs[i].id = id /\ \A j \in 1..(i - 1) : vdbs[j].id # id]

AddDistinct(s, g) == IF Contains(s, g) THEN s ELSE Append(s, g)

PartGroups(parts) == [i \in DOMAIN parts |-> parts[i].group]

Distinct(gs) == FoldLeft(AddDistinct, <<>>, gs)

NoConf == [ok |-> FALSE, vdbs |-> <<>>, tables |-> <<>>, singles |-> <<>>, groups |-> <<>>]

(* shard_conf_try_setup: all_groups lists the groups of the VDBs that some *)
(* table uses, in the order of the tables.                                 *)
shard_conf_try_setup(partition_mode, vdbs, tables, singles, num_groups) ==
    IF \/ vdbs = <<>> \/ tables = <<>>
       \/ \E i \in DOMAIN vdbs : ~sharding_vdb_is_valid(partition_mode, vdbs[i], num_groups)
       \/ \E i \in DOMAIN tables : tables[i].vdb \notin VdbIds(vdbs)
    THEN NoConf
    ELSE [ok |-> TRUE, vdbs |-> vdbs, tables |-> tables, singles |-> singles,
          groups |-> Distinct(FlattenSeq([i \in DOMAIN tables |->
                        PartGroups(VdbById(vdbs, tables[i].vdb).parts)]))]

shard_conf_load(file) ==
    shard_conf_try_setup(file.partition_mode,
                         [i \in DOMAIN file.vdbs |-> parse_vdb(file.vdbs[i])],
                         file.tables, file.singles, file.num_groups)

(* --- look-ups ----------------------------------------------------------- *)
ShardTables(conf) == {conf.tables[i].name : i \in DOMAIN conf.tables}

shard_conf_get_info(conf, t) == conf.tables[CHOOSE i \in DOMAIN conf.tables : conf.tables[i].name = t]

TableVdb(conf, t) == VdbById(conf.vdbs, shard_conf_get_info(conf, t).vdb)

shard_conf_table_partitions(conf, t) == TableVdb(conf, t).parts

shard_conf_get_table_groups(conf, t, visited) ==
    FoldLeft(AddDistinct, visited, PartGroups(shard_conf_table_partitions(conf, t)))

SingleTables(conf) == {conf.singles[i].name : i \in DOMAIN conf.singles}

shard_conf_get_single_table(conf, t) ==
    conf.singles[CHOOSE i \in DOMAIN conf.singles :
                   conf.singles[i].name = t /\ \A j \in 1..(i - 1) : conf.singles[j].name # t]

(* modulo and partition_satisfies for "=": the partitions a key belongs to. *)
modulo(a, b) == a % b

ContainsKey(v, p, k) ==
    IF v.method = "hash"
    THEN modulo(k, v.num) \in p.hash_set
    ELSE k > p.low /\ k <= p.value

HomeParts(v, k) == {i \in DOMAIN v.parts : ContainsKey(v, v.parts[i], k)}

(* --- writing sharding.json --------------------------------------------- *)
HashValues(v, p) == SelectSeq([i \in 1..v.num |-> i - 1], LAMBDA h : h \in p.hash_set)

json_create_partition_wrong(v, p) ==
    IF v.method = "hash" THEN [group |-> p.group, kind |-> "hash", vals |-> HashValues(v, p)]
    ELSE [group |-> p.group, kind |-> "val", vals |-> <<p.low>>]

json_create_partition(v, p) ==
    IF v.method = "hash" THEN [group |-> p.group, kind |-> "hash", vals |-> HashValues(v, p)]
    ELSE [group |-> p.group, kind |-> "val", vals |-> <<p.value>>]

json_create_vdb_object(v) == [id |-> v.id, method |-> v.method, type |-> v.type, num |-> v.num,
                              parts |-> [i \in DOMAIN v.parts |-> json_create_partition(v, v.parts[i])]]

(* cJSON copies the string of a value: the NULL of an unlimited string     *)
(* range ends the process.                                                 *)
WriteCrashes(conf) == \E i \in DOMAIN conf.vdbs :
    /\ conf.vdbs[i].type = "str" /\ conf.vdbs[i].method = "range"
    /\ \E j \in DOMAIN conf.vdbs[i].parts : conf.vdbs[i].parts[j].value = SCTop

shard_conf_write_json(conf, file) ==
    [file EXCEPT !.vdbs = [i \in DOMAIN conf.vdbs |-> json_create_vdb_object(conf.vdbs[i])],
                 !.tables = conf.tables,
                 !.singles = conf.singles]

(* --- the process --------------------------------------------------------- *)

SCState(file, conf) == [pc |-> IF conf.ok THEN "up" ELSE "refused", file |-> file, conf |-> conf, steps |-> 0]

SCOff == [pc |-> "off", file |-> <<>>, conf |-> NoConf, steps |-> 0]

SCInit == \E f \in SCFiles : sc = SCState(f, shard_conf_load(f))

(* The administrator's command has changed the memory: the file follows.   *)
SaveConf(conf) ==
    IF WriteCrashes(conf)
    THEN sc' = [sc EXCEPT !.conf = conf, !.steps = @ + 1, !.pc = "crashed"]
    ELSE sc' = [sc EXCEPT !.conf = conf, !.steps = @ + 1, !.file = shard_conf_write_json(conf, sc.file)]

admin_create_vdb(v) ==
    /\ sc.pc = "up" /\ sc.steps < SCSteps
    /\ LET vdb == parse_vdb(v) IN
       IF /\ sharding_vdb_is_valid(sc.file.partition_mode, vdb, sc.file.num_groups)
          /\ v.id \notin VdbIds(sc.conf.vdbs)
       THEN SaveConf([sc.conf EXCEPT !.vdbs = Append(@, vdb)])
       ELSE sc' = [sc EXCEPT !.steps = @ + 1]

admin_create_sharded_table(t) ==
    /\ sc.pc = "up" /\ sc.steps < SCSteps
    /\ IF t.vdb \in VdbIds(sc.conf.vdbs) /\ t.name \notin ShardTables(sc.conf)
       THEN SaveConf([sc.conf EXCEPT !.tables = Append(@, t)])
       ELSE sc' = [sc EXCEPT !.steps = @ + 1]

admin_create_single_table(s) ==
    /\ sc.pc = "up" /\ sc.steps < SCSteps
    /\ IF s.name \notin SingleTables(sc.conf) /\ Contains(sc.conf.groups, s.group)
       THEN SaveConf([sc.conf EXCEPT !.singles = Append(@, s)])
       ELSE sc' = [sc EXCEPT !.steps = @ + 1]

(* The process ends, or is replaced by a new worker, which reads the file. *)
SCRestart ==
    /\ sc.pc \in {"up", "crashed"}
    /\ sc' = [SCState(sc.file, shard_conf_load(sc.file)) EXCEPT !.steps = sc.steps]

SCNext == \/ \E v \in SCVdbs : admin_create_vdb(v)
          \/ \E t \in SCTables : admin_create_sharded_table(t)
          \/ \E s \in SCSingles : admin_create_single_table(s)
          \/ SCRestart

(***************************************************************************)
(* Properties                                                              *)
(***************************************************************************)
(* A process runs exactly with a configuration that was accepted, and the  *)
(* administrator's commands are counted (shard_conf_load).                 *)
SCTypeOK == /\ sc.pc \in {"off", "up", "refused", "crashed"}
            /\ sc.steps \in 0..SCSteps
            /\ sc.conf.ok = (sc.pc \in {"up", "crashed"})

(* The groups in which table t keeps the rows with key k.                  *)
HomeGroups(conf, t, k) == LET v == TableVdb(conf, t)
                          IN  {v.parts[i].group : i \in HomeParts(v, k)}

(* A configuration that sharding_vdb_is_valid let in gives every key of a  *)
(* hashed table a group, and no key of a table sharded by range has two    *)
(* (setup_partitions' sorted ranges do not overlap), whatever the          *)
(* administrator added since the start (sharding-config.c).                *)
OneHome ==
    sc.pc = "up" => \A i \in DOMAIN sc.conf.tables, k \in SCKeys :
        LET v == TableVdb(sc.conf, sc.conf.tables[i].name)
        IN  /\ v.method = "hash" => HomeParts(v, k) # {}
            /\ v.method = "range" => Cardinality(HomeParts(v, k)) <= 1

(* A restart keeps the placement: the process that reads the file          *)
(* shard_conf_write_json wrote starts, and finds every row of every        *)
(* sharded and single table in the group where the process before it kept  *)
(* the row (unless writing the file had ended that process).               *)
PlacementKept == [][
    sc.pc = "up" /\ sc'.file = sc.file /\ sc'.steps = sc.steps =>
        /\ sc'.pc = "up"
        /\ ShardTables(sc'.conf) = ShardTables(sc.conf)
        /\ \A t \in ShardTables(sc.conf), k \in SCKeys :
              HomeGroups(sc'.conf, t, k) = HomeGroups(sc.conf, t, k)
        /\ \A t \in SingleTables(sc.conf) :
              shard_conf_get_single_table(sc'.conf, t).group
                  = shard_conf_get_single_table(sc.conf, t).group ]_sc

(* The configuration places every row, at one group, and a restart from    *)
(* the file shard_conf_write_json wrote moves none (OneHome and            *)
(* PlacementKept).                                                         *)
ConfRight == [](SCTypeOK /\ OneHome) /\ PlacementKept
=============================================================================
