------------------------------ MODULE MCControl ------------------------------
(***************************************************************************)
(* Model checking of the control side: the options, the remote             *)
(* configuration, the backends and their monitor, the SQL log, and the     *)
(* abstract commit. They share no state. A behaviour is a scene of one of  *)
(* them, in which the others are off.                                      *)
(***************************************************************************)
EXTENDS AtomicCommit, Options, RemoteConf, Backends, SqlLog

VARIABLE scene

(***************************************************************************)
(* Options: what the configuration file, the command line and the remote   *)
(* tables give, and what `config set' may then change.                     *)
(***************************************************************************)

MCFile == [default_username |-> "u", plugins |-> "admin,shard", basedir |-> "/b", pid_file |-> "/b/p"]

MCNothing == [o \in {} |-> 0]

MCStart(file, cmdline, remote, faults, todo, workers, clients, sets) ==
    [file |-> file @@ MCFile, cmdline |-> cmdline, remote |-> remote, faults |-> faults, todo |-> todo,
     workers |-> workers, clients |-> clients, sets |-> sets]

MCSets ==
    {<<"default_pool_size", 40>>, <<"default_pool_size", 3>>, <<"max_pool_size", 15>>, <<"max_pool_size", 90>>,
     <<"slave_delay_down", 600>>, <<"slave_delay_down", 20>>, <<"slave_delay_recover", 50>>,
     <<"slave_delay_recover", 7>>, <<"max_alive_time", 9>>, <<"max_alive_time", NotANumber>>,
     <<"worker_processes", 0>>, <<"worker_processes", 100>>, <<"long_query_time", 65536>>,
     <<"sql_log_idletime", 0>>, <<"sql_log_mode", "ALL">>, <<"sql_log_switch", "on?">>, <<"default_db", "d2">>,
     <<"default_username", "v">>, <<"log_level", "debug">>, <<"reduce_connections", TRUE>>, <<"ssl", TRUE>>,
     <<"trx_isolation_level", "SERIALIZABLE">>, <<"max_allowed_packet", 5>>, <<"group_replication_mode", 1>>,
     <<"proxy_read_timeout", 30>>}

MCStarts ==
    {MCStart(MCNothing, MCNothing, MCNothing, FALSE, 2, {1}, 1, MCSets),
     MCStart([trx_isolation_level |-> "SERIALIZABLE"], [max_pool_size |-> 30], [max_alive_time |-> 100],
             TRUE, 1, {1}, 1, MCSets),
     MCStart([max_pool_size |-> 12, slave_delay_recover |-> 900, default_client_idle_timeout |-> 1],
             [default_pool_size |-> 50], [max_alive_time |-> NotANumber, long_query_time |-> 99999],
             FALSE, 0, {1}, 1, {}),
     MCStart([worker_processes |-> 0], MCNothing, MCNothing, FALSE, 0, {1}, 1, {}),
     MCStart([worker_processes |-> NotANumber], MCNothing, MCNothing, FALSE, 0, {1}, 1, {}),
     MCStart(MCNothing, MCNothing, MCNothing, TRUE, 2, {1, 2}, 2,
             {<<"max_alive_time", 100>>, <<"max_pool_size", 15>>})}

(***************************************************************************)
(* Remote configuration: the commands, how many, the edits made by hand    *)
(* and the failing calls; `local' and `calm' and `torn' as in RemoteConf.  *)
(***************************************************************************)

MCRemote(kinds, cmds, edits, fails, clients, local, calm, torn) ==
    [kinds |-> kinds, cmds |-> cmds, edits |-> edits, fails |-> fails, clients |-> clients, local |-> local,
     calm |-> calm, torn |-> torn]

MCRemotes ==
    {MCRemote({"user", "reload_user", "sharding"}, 2, 1, 1, 1, FALSE, TRUE, FALSE),
     MCRemote({"set", "reload", "reload_variables"}, 2, 1, 1, 1, FALSE, TRUE, FALSE),
     MCRemote({"user", "reload_user"}, 2, 0, 1, 2, FALSE, TRUE, FALSE),
     MCRemote({"ro", "rw", "backend"}, 1, 0, 1, 1, FALSE, TRUE, FALSE),
     MCRemote({"user"}, 2, 0, 0, 1, FALSE, FALSE, TRUE),
     MCRemote({"set", "user", "reload", "reload_user", "reload_variables"}, 1, 1, 0, 1, TRUE, TRUE, FALSE)}

(***************************************************************************)
(* Backends: the configured list, the addresses still free, the members of *)
(* the replication group, the monitor's modes, and the number of changes   *)
(* of the servers and of the administrator.                                *)
(***************************************************************************)

MCBackend(a, t, g) == [addr |-> a, type |-> t, group |-> g]

MCTopology(list, spare, online, mgr, delay, env, admin, maint) ==
    [list |-> list, spare |-> spare, online |-> online, mgr |-> mgr, delay |-> delay, env |-> env,
     admin |-> admin, maint |-> maint]

MCPair(g) == <<MCBackend(1, "rw", g), MCBackend(2, "ro", g)>>

MCTopologies ==
    {MCTopology(MCPair(0), {3}, {}, FALSE, FALSE, 2, 2, FALSE),
     MCTopology(MCPair(0), {}, {}, FALSE, TRUE, 2, 1, TRUE),
     MCTopology(Append(MCPair(1), MCBackend(3, "rw", 2)), {4}, {}, FALSE, FALSE, 0, 3, FALSE),
     MCTopology(MCPair(1), {3}, {}, FALSE, FALSE, 0, 3, TRUE),
     MCTopology(Append(MCPair(0), MCBackend(3, "ro", 0)), {4}, {1, 2, 3}, TRUE, FALSE, 2, 0, FALSE),
     MCTopology(MCPair(1), {3}, {1, 2, 3}, TRUE, TRUE, 1, 1, TRUE)}

(***************************************************************************)
(* SQL log: the messages, the size of the buffer, and the mix of SqlLog.   *)
(***************************************************************************)

MCMsg(k, n) == [kind |-> k, len |-> n]

MCLog(msgs, b, twice, patient, fails, admin, sets, shut) ==
    [msgs |-> msgs, bufsize |-> b, twice |-> twice, patient |-> patient, fails |-> fails, admin |-> admin,
     sets |-> sets, shut |-> shut]

MCLogs ==
    {MCLog(<<MCMsg("client", 3), MCMsg("backend", 2), MCMsg("connect", 3), MCMsg("client", 3)>>,
           3, FALSE, TRUE, 0, 2, 0, FALSE),
     MCLog(<<MCMsg("client", 3), MCMsg("backend", 4), MCMsg("client", 4)>>, 4, FALSE, TRUE, 0, 0, 1, TRUE),
     MCLog(<<MCMsg("client", 3), MCMsg("backend", 3)>>, 4, TRUE, TRUE, 0, 0, 0, FALSE),
     MCLog(<<MCMsg("client", 1)>>, 2, FALSE, FALSE, 0, 1, 0, FALSE),
     MCLog(<<MCMsg("client", 3), MCMsg("backend", 3), MCMsg("client", 3)>>, 4, FALSE, TRUE, 1, 1, 0, FALSE)}

(***************************************************************************)
(* The scenes.                                                             *)
(***************************************************************************)

MCVars == <<scene, branch, committing, op, rc, bk, sl>>

MCInit ==
    \/ /\ scene = "commit" /\ Init /\ op = OPOff /\ rc = RCOff /\ bk = BKOff /\ sl = SLOff
    \/ /\ scene = "options" /\ OPInit /\ Init /\ rc = RCOff /\ bk = BKOff /\ sl = SLOff
    \/ /\ scene = "remote" /\ RCInit /\ Init /\ op = OPOff /\ bk = BKOff /\ sl = SLOff
    \/ /\ scene = "backends" /\ BKInit /\ Init /\ op = OPOff /\ rc = RCOff /\ sl = SLOff
    \/ /\ scene = "log" /\ SLInit /\ Init /\ op = OPOff /\ rc = RCOff /\ bk = BKOff

MCNext ==
    /\ UNCHANGED scene
    /\ \/ scene = "commit" /\ Next /\ UNCHANGED <<op, rc, bk, sl>>
       \/ scene = "options" /\ OPNext /\ UNCHANGED <<branch, committing, rc, bk, sl>>
       \/ scene = "remote" /\ RCNext /\ UNCHANGED <<branch, committing, op, bk, sl>>
       \/ scene = "backends" /\ BKNext /\ UNCHANGED <<branch, committing, op, rc, sl>>
       \/ scene = "log" /\ SLNext /\ UNCHANGED <<branch, committing, op, rc, bk>>

(* The fairness of each component, see RCFairness, BKFairness, SLFairness. *)
MCSpec == MCInit /\ [][MCNext]_MCVars /\ RCFairness /\ BKFairness /\ SLFairness
=============================================================================
