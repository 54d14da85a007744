------------------------------ MODULE Options ------------------------------
(***************************************************************************)
(* The options of Cetus: how a start reads them (src/mysql-proxy-cli.c,    *)
(* src/chassis-options.c, src/chassis-keyfile.c, src/chassis-frontend.c,   *)
(* src/chassis-config.c), how `config set` changes them in every worker    *)
(* (src/chassis-options-utils.c, the hooks of the plugins) and how each    *)
(* worker rewrites the one configuration file (save_setting of             *)
(* plugins/admin/admin-commands.c).                                        *)
(*                                                                         *)
(* A number is itself, a double a number of tenths, a string a string with *)
(* "" for NULL, a flag a Boolean.  Of a text that is no number all that    *)
(* matters is that no conversion accepts it: NotANumber.                   *)
(***************************************************************************)
EXTENDS Integers, Sequences, FiniteSets, TLC

CONSTANTS
    OPStarts,       \* instances and what is done to them, see OPInit
    OPSimple        \* the rw-splitting build (SIMPLE_PARSER)

NotANumber == -1000000

ASSUME OptionsAssumption ==
    /\ OPSimple \in BOOLEAN
    /\ \A st \in OPStarts : st.workers # {} /\ st.clients \in Nat \ {0} /\ st.todo \in Nat

VARIABLE op

DEFAULT_POOL_SIZE == 10
DEFAULT_LIVE_TIME == 7200
MAX_WORK_PROCESSES == 64
MAX_QUERY_TIME == 65536
MAX_ALLOWED_PACKET_FLOOR == 1024
MAX_ALLOWED_PACKET_DEFAULT == 32 * 1048576
MAX_ALLOWED_PACKET_CEIL == 1073741824
SQL_LOG_DEF_IDLETIME == 10000
HOURS == 3600

Least(a, b) == IF a < b THEN a ELSE b
Most(a, b) == IF a < b THEN b ELSE a

-----------------------------------------------------------------------------
(* The options, by the form their show hook has when it saves.             *)

ShutdownFlags == {"verbose_shutdown", "daemon"}
CompressFlags == {"disable_threads", "enable_back_compress", "enable_client_compress"}
ClientFlags == {"enable_client_found_rows", "reduce_connections", "enable_query_cache"}
SqlFlags == {"partition_mode", "check_sql_loosely", "enable_sql_special_processed"}
ModeFlags == {"log_xa_in_detail", "disable_dns_cache", "master_preferred"}

\* Saved as true, and left out when false.
Flags == ShutdownFlags \cup CompressFlags \cup ClientFlags \cup SqlFlags \cup ModeFlags
             \cup {"check_dns"}

\* Saved whatever they are.
StreamFlags == {"enable_fast_stream", "enable_tcp_stream"}
AlwaysFlags == StreamFlags \cup {"ssl", "allow_nested_subquery"}

PathOptions == {"user", "basedir", "conf_dir", "pid_file", "plugin_dir"}
LogFiles == {"log_file", "log_xa_file"}
PluginNames == {"plugins"}
ProxyStrings == {"proxy_address"}
AclStrings == {"proxy_allow_ip", "proxy_deny_ip"}
AdminStrings == {"admin_address", "admin_username", "admin_password"}

\* Saved when they are set.
Strings == PathOptions \cup LogFiles \cup PluginNames \cup ProxyStrings
               \cup AclStrings \cup AdminStrings
               \cup {"log_level", "default_charset", "default_username", "default_db", "ifname"}

\* remote-conf-url and trx-isolation-level are SHOW only; the IP lists of the
\* admin plugin may be saved but have no show hook.
Unsaved == {"remote_conf_url", "trx_isolation_level", "admin_allow_ip", "admin_deny_ip"}

Timeouts == {"proxy_connect_timeout", "proxy_read_timeout", "proxy_write_timeout",
             "proxy_xa_commit_or_rollback_read_timeout"}
SqlLogNumbers == {"sql_log_bufsize", "sql_log_maxsize"}
SqlLogNames == {"sql_log_prefix", "sql_log_path"}

Numbers == {"max_open_files", "default_pool_size", "max_pool_size", "worker_processes",
            "max_resp_size", "max_alive_time", "merged_output_size", "max_header_size", "worker_id",
            "slave_delay_down", "slave_delay_recover", "default_query_cache_timeout",
            "default_client_idle_timeout", "default_incomplete_tran_idle_timeout",
            "default_maintained_client_idle_timeout", "long_query_time", "max_allowed_packet",
            "group_replication_mode", "sql_log_idletime", "sql_log_maxnum"}
               \cup Timeouts \cup SqlLogNumbers

OptionNames == Flags \cup AlwaysFlags \cup Strings \cup Unsaved \cup Numbers \cup SqlLogNames
                   \cup {"check_slave_delay", "sql_log_switch", "sql_log_mode"}

-----------------------------------------------------------------------------
(* What the show hooks save: <<>> leaves the option out of the file.       *)

Unless(v, default) == IF v = default THEN <<>> ELSE <<v>>

show_check_slave_delay(s) == IF s.check_slave_delay THEN <<>> ELSE <<FALSE>>
show_max_open_files(s) == Unless(s.max_open_files, 0)
show_default_pool_size(s) == Unless(s.default_pool_size, DEFAULT_POOL_SIZE)
show_max_pool_size(s) == Unless(s.max_pool_size, 2 * s.default_pool_size)
show_max_resp_len(s) == Unless(s.max_resp_size, 10 * 1048576)
show_max_alive_time(s) == Unless(s.max_alive_time, DEFAULT_LIVE_TIME)
show_merged_output_size(s) == Unless(s.merged_output_size, 8192)
show_max_header_size(s) == Unless(s.max_header_size, 65536)
show_slave_delay_down(s) == Unless(s.slave_delay_down, 600)
show_slave_delay_recover(s) ==
    IF 2 * s.slave_delay_recover = s.slave_delay_down THEN <<>> ELSE <<s.slave_delay_recover>>
show_default_query_cache_timeout(s) == Unless(s.default_query_cache_timeout, 100)
show_default_maintained_client_idle_timeout(s) ==
    Unless(s.default_maintained_client_idle_timeout, 30)
show_default_client_idle_timeout(s) == Unless(s.default_client_idle_timeout, 8 * HOURS)
show_default_incomplete_tran_idle_timeout(s) ==
    Unless(s.default_incomplete_tran_idle_timeout, 3600)
show_long_query_time(s) == Unless(s.long_query_time, MAX_QUERY_TIME)
show_max_allowed_packet(s) == Unless(s.max_allowed_packet, MAX_ALLOWED_PACKET_DEFAULT)
show_group_replication_mode(s) == Unless(s.group_replication_mode, 0)
show_sql_log_idletime(s) == Unless(s.sql_log_idletime, SQL_LOG_DEF_IDLETIME)
show_proxy_timeout(s, o) == Unless(s[o], -10)
show_sql_log_maxnum(s) == Unless(s.sql_log_maxnum, 3)

\* NULL is written as the word NULL.
show_sql_log_name(s, o) == IF s[o] = "" THEN <<"NULL">> ELSE <<s[o]>>

SaveHook(s, o) ==
    CASE o \in Flags -> IF s[o] THEN <<TRUE>> ELSE <<>>
      [] o \in Strings -> Unless(s[o], "")
      [] o \in Unsaved -> <<>>
      [] o \in Timeouts -> show_proxy_timeout(s, o)
      [] o \in SqlLogNames -> show_sql_log_name(s, o)
      [] o = "check_slave_delay" -> show_check_slave_delay(s)
      [] o = "max_open_files" -> show_max_open_files(s)
      [] o = "default_pool_size" -> show_default_pool_size(s)
      [] o = "max_pool_size" -> show_max_pool_size(s)
      [] o = "max_resp_size" -> show_max_resp_len(s)
      [] o = "max_alive_time" -> show_max_alive_time(s)
      [] o = "merged_output_size" -> show_merged_output_size(s)
      [] o = "max_header_size" -> show_max_header_size(s)
      [] o = "slave_delay_down" -> show_slave_delay_down(s)
      [] o = "slave_delay_recover" -> show_slave_delay_recover(s)
      [] o = "default_query_cache_timeout" -> show_default_query_cache_timeout(s)
      [] o = "default_client_idle_timeout" -> show_default_client_idle_timeout(s)
      [] o = "default_incomplete_tran_idle_timeout" -> show_default_incomplete_tran_idle_timeout(s)
      [] o = "default_maintained_client_idle_timeout" ->
             show_default_maintained_client_idle_timeout(s)
      [] o = "long_query_time" -> show_long_query_time(s)
      [] o = "max_allowed_packet" -> show_max_allowed_packet(s)
      [] o = "group_replication_mode" -> show_group_replication_mode(s)
      [] o = "sql_log_idletime" -> show_sql_log_idletime(s)
      [] o = "sql_log_maxnum" -> show_sql_log_maxnum(s)
      [] OTHER -> <<s[o]>>

\* The mutant forgets that the file is written anew.
chassis_options_save_wrong(s) ==
    [o \in {x \in OptionNames : SaveHook(s, x) # <<>> /\ x # "max_alive_time"} |-> SaveHook(s, o)[1]]

chassis_options_save(s) ==
    [o \in {x \in OptionNames : SaveHook(s, x) # <<>>} |-> SaveHook(s, o)[1]]

-----------------------------------------------------------------------------
(* The assign hooks: <<>> when the value is refused, <<the new values>>.   *)

Set(s, o, v) == <<[s EXCEPT ![o] = v]>>
IfNumber(v, result) == IF v = NotANumber THEN <<>> ELSE result
NonNegative(s, o, v) == IfNumber(v, IF v < 0 THEN <<>> ELSE Set(s, o, v))

LogLevels == {"critical", "error", "warning", "message", "info", "debug"}

assign_log_level(s, v) == IF v \in LogLevels THEN Set(s, "log_level", v) ELSE <<>>

\* The backends take a copy: default user, default database, pool sizes.
assign_default_username(s, v) ==
    <<[s EXCEPT !.default_username = v, !.pools = [@ EXCEPT !.user = v]]>>
assign_default_db(s, v) == <<[s EXCEPT !.default_db = v, !.pools = [@ EXCEPT !.db = v]]>>
assign_default_pool_size(s, v) ==
    IfNumber(v, IF v < 0 THEN <<>>
                ELSE LET n == Most(v, DEFAULT_POOL_SIZE)
                     IN  <<[s EXCEPT !.default_pool_size = n, !.pools = [@ EXCEPT !.mid = n]]>>)

assign_max_pool_size(s, v) ==
    IfNumber(v, LET n == IF v >= s.default_pool_size THEN v ELSE 2 * s.default_pool_size
                IN  <<[s EXCEPT !.max_pool_size = n, !.pools = [@ EXCEPT !.max = n]]>>)

assign_worker_processes(s, v) ==
    IfNumber(v, Set(s, "worker_processes", Least(Most(v, 1), MAX_WORK_PROCESSES)))
assign_max_resp_len(s, v) == NonNegative(s, "max_resp_size", v)
assign_max_alive_time(s, v) ==
    IfNumber(v, IF v < 0 THEN <<>> ELSE Set(s, "max_alive_time", Most(v, 60)))
assign_merged_output_size(s, v) == NonNegative(s, "merged_output_size", v)
assign_max_header_size(s, v) == NonNegative(s, "max_header_size", v)

assign_slave_delay_down(s, v) ==
    IfNumber(v, IF v < 0 THEN <<>>
                ELSE <<[s EXCEPT !.slave_delay_down = v,
                                 !.slave_delay_recover = IF @ < 0 THEN v \div 2 ELSE @]>>)
assign_slave_delay_recover(s, v) ==
    IfNumber(v, IF v < 0 THEN <<>>
                ELSE Set(s, "slave_delay_recover", Least(v, s.slave_delay_down)))

assign_default_query_cache_timeout(s, v) == NonNegative(s, "default_query_cache_timeout", v)
assign_default_maintained_client_idle_timeout(s, v) ==
    NonNegative(s, "default_maintained_client_idle_timeout", v)
assign_default_client_idle_timeout(s, v) == NonNegative(s, "default_client_idle_timeout", v)
assign_default_incomplete_tran_idle_timeout(s, v) ==
    NonNegative(s, "default_incomplete_tran_idle_timeout", v)
assign_long_query_time(s, v) == NonNegative(s, "long_query_time", v)
assign_max_allowed_packet(s, v) == NonNegative(s, "max_allowed_packet", v)
assign_group_replication(s, v) ==
    IF v \in {0, 1} THEN Set(s, "group_replication_mode", v) ELSE <<>>
assign_sql_log_switch(s, v) ==
    IF v \in {"ON", "REALTIME", "OFF"} THEN Set(s, "sql_log_switch", v) ELSE <<>>
assign_sql_log_mode(s, v) ==
    IF v \in {"CLIENT", "BACKEND", "ALL", "CONNECT", "FRONT"} THEN Set(s, "sql_log_mode", v) ELSE <<>>
assign_sql_log_idletime(s, v) == IfNumber(v, Set(s, "sql_log_idletime", v))
assign_sql_log_maxnum(s, v) == NonNegative(s, "sql_log_maxnum", v)
assign_proxy_timeout(s, o, v) == IfNumber(v, Set(s, o, v))

Assign(s, o, v) ==
    CASE o = "log_level" -> assign_log_level(s, v)
      [] o \in {"default_charset", "ifname"} -> Set(s, o, v)
      [] o = "default_username" -> assign_default_username(s, v)
      [] o = "default_db" -> assign_default_db(s, v)
      [] o = "default_pool_size" -> assign_default_pool_size(s, v)
      [] o = "max_pool_size" -> assign_max_pool_size(s, v)
      [] o = "worker_processes" -> assign_worker_processes(s, v)
      [] o = "max_resp_size" -> assign_max_resp_len(s, v)
      [] o = "max_alive_time" -> assign_max_alive_time(s, v)
      [] o = "merged_output_size" -> assign_merged_output_size(s, v)
      [] o = "max_header_size" -> assign_max_header_size(s, v)
      [] o = "slave_delay_down" -> assign_slave_delay_down(s, v)
      [] o = "slave_delay_recover" -> assign_slave_delay_recover(s, v)
      [] o = "default_query_cache_timeout" -> assign_default_query_cache_timeout(s, v)
      [] o = "default_client_idle_timeout" -> assign_default_client_idle_timeout(s, v)
      [] o = "default_incomplete_tran_idle_timeout" ->
             assign_default_incomplete_tran_idle_timeout(s, v)
      [] o = "default_maintained_client_idle_timeout" ->
             assign_default_maintained_client_idle_timeout(s, v)
      [] o = "long_query_time" -> assign_long_query_time(s, v)
      [] o = "max_allowed_packet" -> assign_max_allowed_packet(s, v)
      [] o = "group_replication_mode" -> assign_group_replication(s, v)
      [] o = "sql_log_switch" -> assign_sql_log_switch(s, v)
      [] o = "sql_log_mode" -> assign_sql_log_mode(s, v)
      [] o = "sql_log_idletime" -> assign_sql_log_idletime(s, v)
      [] o = "sql_log_maxnum" -> assign_sql_log_maxnum(s, v)
      [] o \in Timeouts -> assign_proxy_timeout(s, o, v)
      [] OTHER -> <<>>                                  \* ASSIGN_NOT_SUPPORT

-----------------------------------------------------------------------------
(* A start: chassis_frontend_new, the three sources, init_parameters and   *)
(* the checks of main_cmdline.                                             *)

chassis_frontend_new ==
    [o \in OptionNames |->
        CASE o \in Flags \cup {"enable_fast_stream", "ssl", "allow_nested_subquery"} -> FALSE
          [] o = "enable_tcp_stream" -> OPSimple
          [] o = "check_slave_delay" -> TRUE
          [] o = "default_pool_size" -> DEFAULT_POOL_SIZE
          [] o = "worker_processes" -> 1
          [] o = "max_resp_size" -> 10 * 1048576
          [] o = "max_alive_time" -> DEFAULT_LIVE_TIME
          [] o = "merged_output_size" -> 8192
          [] o = "max_header_size" -> 65536
          [] o = "slave_delay_down" -> 100
          [] o = "default_query_cache_timeout" -> 100
          [] o = "default_client_idle_timeout" -> 8 * HOURS
          [] o = "default_incomplete_tran_idle_timeout" -> 3600
          [] o = "default_maintained_client_idle_timeout" -> 30
          [] o = "long_query_time" -> 1000
          [] o = "max_allowed_packet" -> MAX_ALLOWED_PACKET_DEFAULT
          [] o \in {"sql_log_maxsize", "sql_log_maxnum"} -> -1
          [] o \in Timeouts -> -10
          [] o \in Numbers -> 0
          [] OTHER -> ""]

chassis_options_parse_cmdline(fe, cmdline) == cmdline @@ fe

chassis_keyfile_to_options(fe, file, cmdline) ==
    [o \in DOMAIN fe |-> IF o \in DOMAIN file \ DOMAIN cmdline THEN file[o] ELSE fe[o]]

\* atoi makes 0 of what is no number.
chassis_config_parse_options(fe, remote, file, cmdline) ==
    [o \in DOMAIN fe |->
        IF o \notin DOMAIN remote \ (DOMAIN file \cup DOMAIN cmdline) THEN fe[o]
        ELSE IF o \in Numbers /\ remote[o] = NotANumber THEN 0 ELSE remote[o]]

OrElse(v, default) == IF v = "" THEN default ELSE v

\* The first test lacks its "== 0": strcasecmp(level, "REPEATABLE-READ").
TrxIsolationLevel(level) ==
    IF level = "" THEN "READ-COMMITTED"
    ELSE IF level = "REPEATABLE READ" \/ level # "REPEATABLE-READ" THEN "REPEATABLE-READ"
    ELSE "READ-COMMITTED"

SlaveDelayRecover(fe) ==
    IF fe.slave_delay_recover > 0 THEN Least(fe.slave_delay_recover, fe.slave_delay_down) ELSE 10

PoolSize(fe) == Most(fe.default_pool_size, DEFAULT_POOL_SIZE)

MaxPoolSize(fe) == IF fe.max_pool_size >= PoolSize(fe) THEN fe.max_pool_size ELSE 2 * PoolSize(fe)

\* id is the worker id the system chooses when none is set.
init_parameters(fe, id) ==
    [fe EXCEPT
        !.default_charset = OrElse(@, "utf8"),
        !.ifname = OrElse(@, "eth0"),
        !.worker_processes = IF @ < 0 THEN 1 ELSE Least(@, MAX_WORK_PROCESSES),
        !.default_pool_size = PoolSize(fe),
        !.max_pool_size = MaxPoolSize(fe),
        !.max_alive_time = Most(@, 60),
        !.worker_id = IF OPSimple THEN 0 ELSE IF @ > 0 THEN @ % 64 ELSE id,
        !.slave_delay_recover = SlaveDelayRecover(fe),
        !.default_query_cache_timeout = Most(@, 1),
        !.default_client_idle_timeout = Most(@, 10),
        !.default_incomplete_tran_idle_timeout = Most(@, 10),
        !.default_maintained_client_idle_timeout = Most(@, 10),
        !.long_query_time = Least(@, MAX_QUERY_TIME),
        !.max_allowed_packet = Least(Most(@, MAX_ALLOWED_PACKET_FLOOR), MAX_ALLOWED_PACKET_CEIL),
        !.trx_isolation_level = TrxIsolationLevel(@)]

\* sql_log_alloc, the end of main_cmdline, and cetus_sql_log_start_thread_once.
SqlLogParameters(s) ==
    [s EXCEPT !.sql_log_bufsize = IF @ = 0 THEN 10 * 1048576 ELSE @,
              !.sql_log_switch = OrElse(@, "OFF"),
              !.sql_log_prefix = OrElse(@, "cetus"),
              !.sql_log_path = OrElse(@, "<basedir>/logs"),
              !.sql_log_maxsize = IF @ >= 0 THEN @ ELSE 1024,
              !.sql_log_mode = OrElse(@, "BACKEND"),
              !.sql_log_idletime = IF @ = 0 THEN SQL_LOG_DEF_IDLETIME ELSE @,
              !.sql_log_maxnum = IF @ >= 0 THEN @ ELSE 3]

\* resolve_path and the other paths main_cmdline and apply_config fill in.
Paths(s) ==
    [s EXCEPT !.basedir = OrElse(@, "<basedir>"),
              !.conf_dir = OrElse(@, "<basedir>/conf"),
              !.log_level = OrElse(@, "critical"),
              !.plugins = OrElse(@, IF OPSimple THEN "proxy" ELSE "shard"),
              !.log_xa_file = IF OPSimple THEN @ ELSE OrElse(@, "<basedir>/logs/xa.log"),
              !.proxy_address = OrElse(@, ":4040"),
              !.admin_address = OrElse(@, ":4041")]

check_plugin_mode_valid(plugins) ==
    plugins \in (IF OPSimple THEN {"proxy", "admin,proxy"} ELSE {"shard", "admin,shard"})

\* What makes main_cmdline give up, a division by no worker processes included.
Startable(file, cmdline, fe) ==
    /\ \A o \in Numbers : o \in DOMAIN cmdline => cmdline[o] # NotANumber
    /\ \A o \in Numbers : o \in DOMAIN file \ DOMAIN cmdline => file[o] # NotANumber
    /\ Paths(fe).log_level \in LogLevels
    /\ fe.worker_processes # 0
    /\ fe.group_replication_mode \in {0, 1}
    /\ check_plugin_mode_valid(Paths(fe).plugins)
    /\ fe.default_username # ""
    /\ fe.sql_log_switch \in {"", "ON", "REALTIME", "OFF"}
    /\ fe.sql_log_mode \in {"", "CLIENT", "BACKEND", "ALL", "CONNECT", "FRONT"}

Frontend(file, cmdline, remote) ==
    chassis_config_parse_options(
        chassis_keyfile_to_options(chassis_options_parse_cmdline(chassis_frontend_new, cmdline),
                                   file, cmdline),
        remote, file, cmdline)

\* set_backend_config: the pools copy what they need.
WithPools(s) ==
    [o \in DOMAIN s \cup {"pools"} |->
        IF o = "pools" THEN [user |-> s.default_username, db |-> s.default_db,
                             mid |-> s.default_pool_size, max |-> s.max_pool_size]
        ELSE s[o]]

Started(file, cmdline, remote, id) ==
    WithPools(Paths(SqlLogParameters(init_parameters(Frontend(file, cmdline, remote), id))))

-----------------------------------------------------------------------------
(* The instance.                                                           *)

File(conf, secure) == [conf |-> conf, secure |-> secure]
OPOff == [pc |-> "off"]

\* st: the configuration file, the command line and the remote table an
\* instance starts from; its workers; how many admin clients there are and
\* how many statements they send, `config set`s of the pairs st.sets; whether
\* a write may fail.
OPInit ==
    \E st \in OPStarts :
        op = [pc |-> "down", st |-> st, file |-> <<File(st.file, TRUE)>>, old |-> <<>>,
              srv |-> [w \in st.workers |-> <<>>],
              todo |-> [w \in st.workers |-> <<>>], step |-> [w \in st.workers |-> "idle"],
              left |-> st.todo, wrote |-> FALSE, held |-> <<>>, fresh |-> FALSE]

Ws == op.st.workers

\* chassis_frontend_open_config_file refuses a missing file, or one that
\* others may read.
Readable == op.file # <<>> /\ op.file[1].secure

OPStart ==
    /\ op.pc = "down"
    /\ LET conf == IF Readable THEN op.file[1].conf ELSE <<>>
           ok == Readable /\ Startable(conf, op.st.cmdline, Frontend(conf, op.st.cmdline, op.st.remote))
       IN  IF ~ok THEN op' = [op EXCEPT !.pc = "failed"]
           ELSE \E id \in {0, 7} :
                    op' = [op EXCEPT !.pc = "up", !.fresh = TRUE, !.wrote = FALSE,
                                     !.srv = [w \in Ws |->
                                                <<Started(conf, op.st.cmdline, op.st.remote, id)>>]]

Idle == \A w \in Ws : op.todo[w] = <<>>

\* The master passes a statement to every worker, in one order for all.
OPSet ==
    /\ op.pc = "up" /\ op.left > 0
    /\ \A w \in Ws : Len(op.todo[w]) < op.st.clients
    /\ \E c \in op.st.sets :
           op' = [op EXCEPT !.todo = [w \in Ws |-> Append(@[w], c)],
                            !.left = @ - 1, !.fresh = FALSE]

\* save settings goes to one worker.
OPSave ==
    /\ op.pc = "up" /\ op.left > 0
    /\ \A w \in Ws : Len(op.todo[w]) < op.st.clients
    /\ \E w \in Ws :
           op' = [op EXCEPT !.todo[w] = Append(@, <<"save", 0>>), !.left = @ - 1, !.fresh = FALSE]

Done(o, w) == [o EXCEPT !.todo[w] = Tail(@), !.step[w] = "idle"]

\* admin_set_config, admin_set_reduce_conns: an unchanged mode is not saved.
Execute(w) ==
    /\ op.step[w] = "idle" /\ op.todo[w] # <<>>
    /\ LET c == Head(op.todo[w])
           s == op.srv[w][1]
           a == IF c[1] = "save" THEN <<s>>
                ELSE IF c[1] = "reduce_connections"
                     THEN IF s.reduce_connections = c[2] THEN <<>> ELSE Set(s, c[1], c[2])
                ELSE Assign(s, c[1], c[2])
       IN  op' = IF a = <<>> THEN Done(op, w)
                 ELSE [op EXCEPT !.srv[w] = a, !.step[w] = "remove"]

\* save_setting: remove the old copy, rename, write anew, set the mode.
RemoveOld(w) == op.step[w] = "remove" /\ op' = [op EXCEPT !.old = <<>>, !.step[w] = "rename"]

Rename(w) ==
    /\ op.step[w] = "rename"
    /\ op' = [op EXCEPT !.step[w] = "write",
                        !.old = IF op.file = <<>> THEN @ ELSE op.file, !.file = <<>>]

\* g_file_set_contents replaces the file as a whole; after umask(0) of
\* chassis_unix_daemonize everyone may read the new one.
Write(w) ==
    /\ op.step[w] = "write"
    /\ \/ op' = [op EXCEPT !.step[w] = "chmod", !.wrote = TRUE,
                           !.file = <<File(chassis_options_save(op.srv[w][1]), FALSE)>>]
       \/ op.st.faults /\ op' = [Done(op, w) EXCEPT !.wrote = FALSE]

Chmod(w) ==
    /\ op.step[w] = "chmod"
    /\ op' = [Done(op, w) EXCEPT !.file = IF @ = <<>> THEN @ ELSE <<File(@[1].conf, TRUE)>>]

\* The instance stops, or dies, at any moment.
OPStop ==
    /\ op.pc = "up"
    /\ op' = [op EXCEPT !.pc = "down", !.fresh = FALSE,
                        !.held = IF Idle /\ op.wrote
                                 THEN op.srv[CHOOSE w \in Ws : TRUE] ELSE <<>>,
                        !.todo = [w \in Ws |-> <<>>],
                        !.step = [w \in Ws |-> "idle"],
                        !.srv = [w \in Ws |-> <<>>]]

OPNext ==
    \/ OPStart \/ OPSet \/ OPSave \/ OPStop
    \/ \E w \in Ws : Execute(w) \/ RemoveOld(w) \/ Rename(w) \/ Write(w) \/ Chmod(w)

-----------------------------------------------------------------------------
(* Properties.                                                             *)

\* A worker that is at a step of save_setting has the statement it is executing and its options.
OPTypeOK ==
    op.pc # "off" =>
        /\ op.pc \in {"down", "up", "failed"}
        /\ \A w \in Ws : op.step[w] # "idle" => op.todo[w] # <<>> /\ op.srv[w] # <<>>
        /\ op.held # <<>> => DOMAIN op.held[1] = OptionNames \cup {"pools"}

\* What a restart cannot give back.  Options the command line gives, or the
\* remote configuration when the file leaves them out; options no hook
\* saves; values the hook takes for the default although a start does not
\* (a slave delay of 60 s, half of it, 65536 ms); a sql log idle time or a
\* worker id of 0, which a start takes for unset; values out of the range a
\* start enforces.
Forgotten(s, st) ==
    DOMAIN st.cmdline \cup Unsaved \cup {o \in DOMAIN st.remote : SaveHook(s, o) = <<>>}
    \cup {o \in {"slave_delay_down"} : s[o] = 600}
    \cup {o \in {"slave_delay_recover"} :
              2 * s[o] = s.slave_delay_down \/ s[o] = 0 \/ s[o] > s.slave_delay_down
              \/ s.slave_delay_down = 600}
    \cup {o \in {"long_query_time"} : s[o] >= MAX_QUERY_TIME}
    \cup {o \in {"sql_log_idletime", "worker_id"} : s[o] = 0}
    \cup {o \in {"default_query_cache_timeout"} : s[o] < 1}
    \cup {o \in {"default_client_idle_timeout", "default_incomplete_tran_idle_timeout",
                 "default_maintained_client_idle_timeout"} : s[o] < 10}
    \cup {o \in {"max_allowed_packet"} :
              s[o] < MAX_ALLOWED_PACKET_FLOOR \/ s[o] > MAX_ALLOWED_PACKET_CEIL}
    \cup {o \in {"max_pool_size"} : s[o] < s.default_pool_size \/ "default_pool_size" \in DOMAIN st.cmdline}

\* A configuration that was changed and saved without an error is the one
\* the next start comes up with, but for what Forgotten lists
\* (chassis_options_save against main_cmdline and init_parameters).
SettingsKept ==
    op.pc = "up" /\ op.fresh /\ op.held # <<>> =>
        \A w \in Ws, o \in OptionNames \ Forgotten(op.held[1], op.st) :
            op.srv[w][1][o] = op.held[1][o]

\* When every statement has been executed the workers hold the same values,
\* and if no write failed the file is exactly what they would save and can
\* be read by the next start, however the workers' saves interleaved
\* (admin_set_config in every worker, save_setting on one file).
WorkersAgree ==
    op.pc = "up" /\ Idle =>
        /\ \A w, x \in Ws : op.srv[w] = op.srv[x]
        /\ op.wrote =>
               \A w \in Ws : op.file = <<File(chassis_options_save(op.srv[w][1]), TRUE)>>

\* A save leaves a configuration on the disk at every moment, the new one or
\* the one it renamed (save_setting), unless several workers save at once.
ConfOnDisk ==
    op.pc # "off" /\ Cardinality(Ws) = 1 => op.file # <<>> \/ op.old # <<>>

\* Whatever the sources said, a start gives limits that fit one another
\* (init_parameters): the pools, the thresholds of the slave delay, the
\* timeouts and the packet size.
LimitsFit ==
    op.pc = "up" /\ op.fresh =>
        \A w \in Ws :
            LET s == op.srv[w][1]
            IN  /\ DEFAULT_POOL_SIZE <= s.default_pool_size /\ s.default_pool_size <= s.max_pool_size
                /\ 1 <= s.worker_processes /\ s.worker_processes <= MAX_WORK_PROCESSES
                /\ s.slave_delay_recover <= Most(s.slave_delay_down, 10)
                /\ s.long_query_time <= MAX_QUERY_TIME
                /\ s.pools = [user |-> s.default_username, db |-> s.default_db,
                              mid |-> s.default_pool_size, max |-> s.max_pool_size]

\* The threshold at which a slave recovers stays below the one at which it
\* goes down, whatever `config set` is asked for.
RecoverBelowDown ==
    op.pc = "up" => \A w \in Ws :
        op.srv[w][1].slave_delay_recover <= op.srv[w][1].slave_delay_down

\* An instance runs with the isolation level it was configured with, and
\* with REPEATABLE READ when it was configured with none.
IsolationHonoured ==
    op.pc = "up" => \A w \in Ws :
        LET given == Frontend(op.file[1].conf, op.st.cmdline, op.st.remote).trx_isolation_level
        IN  op.fresh => op.srv[w][1].trx_isolation_level =
                CASE given \in {"", "REPEATABLE READ", "REPEATABLE-READ"} -> "REPEATABLE-READ"
                  [] given \in {"READ COMMITTED", "READ-COMMITTED"} -> "READ-COMMITTED"
                  [] OTHER -> given

\* `config set' and its saving are safe: a saved configuration is the one the next start comes up
\* with, the workers end with the same values and the file is theirs, a configuration is on disk at
\* every moment of a save, and a start gives limits that fit (admin_set_config, save_setting,
\* init_parameters), as SettingsKept, WorkersAgree, ConfOnDisk and LimitsFit say.
OptionsInv == OPTypeOK /\ SettingsKept /\ WorkersAgree /\ ConfOnDisk /\ LimitsFit
=============================================================================
