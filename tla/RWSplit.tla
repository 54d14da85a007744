------------------------------- MODULE RWSplit -------------------------------
(***************************************************************************)
(* The read/write splitting of Cetus (plugins/proxy/proxy-plugin.c), with  *)
(* the parts of src/network-conn-pool-wrap.c and src/network-mysqld.c that *)
(* it drives: one worker process, whose client connections send            *)
(* statements, borrow server connections from the pools of the backends,   *)
(* keep them while a transaction, a session setting or a prepared          *)
(* statement needs them, and give them back.                               *)
(*                                                                         *)
(* A handler runs to completion on the single event loop, so it is one     *)
(* action.  What a handler calls (proxy_get_backend_ndx,                   *)
(* network_connection_pool_swap, network_pool_add_conn ...) is an operator *)
(* from a world to the set of worlds it may leave: a world is the client   *)
(* connection being handled and the sockets, pools and counters.           *)
(***************************************************************************)
EXTENDS Integers, Sequences, FiniteSets, SequencesExt

CONSTANTS
    Clients,        \* client connections
    Backends,       \* MySQL servers
    Master,         \* the backend that starts as read/write
    Socks,          \* server connections
    DBs,            \* databases a client may USE; they all exist
    DB0,            \* the database every connection starts in
    Mixes,          \* workloads; a behaviour has one of them, see mix
    MaxPrep,        \* bound on prepare_stmt_count
    MaxRetry        \* max_retry_serv_cnt (72 in the code)

VARIABLES
    con,        \* per client: network_mysqld_con and proxy_plugin_con_t
    sock,       \* per socket: the session at the server, and what we record
    pool,       \* per backend: its idle sockets
    clients,    \* per backend: connected_clients
    backend,    \* per backend: type and state
    mix,        \* the statements, failures and settings of this behaviour
    view        \* per client: what the answers it got entitle it to (history)

vars == <<con, sock, pool, clients, backend, mix, view>>

None == "none"

\* Settings: read_master_percentage, master_preferred, is_reduce_conns.
ReadMaster == IF "read_master_100" \in mix THEN "all"
              ELSE IF "read_master_50" \in mix THEN "some" ELSE "none"
MasterPreferred == "master_preferred" \in mix
ReduceConns == "reduce_conns" \in mix

\* COM_QUERY statements, by what the splitting tells apart.
Queries == {"select", "found", "update", "begin", "commit", "ac0", "ac1",
            "settran", "unsettran", "ro_select", "rw_select", "use", "local"}
Prepares == {"prep", "ro_prep"}             \* COM_STMT_PREPARE
Unanswered == {"close", "long"}             \* COM_STMT_CLOSE, _SEND_LONG_DATA
OnStmt == Unanswered \cup {"exec"}          \* carry a statement id

Statements == Queries \cup Prepares \cup OnStmt \cup {"ping", "quit"}

ForceSlave == {"ro_select", "ro_prep"}      \* /*# mode=READONLY */
ForceMaster == {"rw_select"}                \* /*# mode=READWRITE */
Writes == {"update", "begin", "commit"}     \* CF_WRITE

\* Statements the server may answer with an error packet.
MayFail == {"select", "found", "update", "ro_select", "rw_select", "exec"} \cup Prepares

Usable(b) == backend[b].state = "up"        \* UP or UNKNOWN

(***************************************************************************)
(* Worlds.                                                                 *)
(***************************************************************************)
World(c) == [con |-> con[c], sock |-> sock, pool |-> pool, clients |-> clients]

\* A call's outcome: the world it leaves and what it returns.
Ret(w, r) == [w |-> w, ret |-> r]

Multi(k) == k.servers # <<>>

\* A client connection that has just authenticated, and one that is gone.
Authed == [st |-> "read", server |-> None, backend |-> None, backend_ndx |-> None,
           servers |-> <<>>, ndx_array |-> [b \in Backends |-> 0],
           in_tran |-> FALSE, ac |-> TRUE, reserved |-> FALSE, conn_reserved |-> FALSE,
           is_prepared |-> FALSE, prepare_stmt_count |-> 0, sess |-> FALSE,
           trx_changed |-> FALSE, to_be_closed |-> FALSE, ac_received |-> FALSE,
           changed_user_when_quit |-> FALSE, use_slave_forced |-> FALSE,
           last_record_updated |-> FALSE, calc |-> FALSE, last_type |-> None,
           master_unavailable |-> FALSE, db |-> DB0, retry |-> 0, injected |-> <<>>,
           cmd |-> None, arg |-> None, sent_to |-> None]
Closed == [Authed EXCEPT !.st = "closed"]

\* A session as a new or reset server connection has it.
Fresh(b) == [be |-> b, open |-> TRUE, alive |-> TRUE, tran |-> FALSE, ac |-> TRUE,
             iso |-> FALSE, stmts |-> 0, db |-> DB0, default_db |-> DB0,
             sess |-> FALSE, ro |-> FALSE]

Shut(K, S) == [s \in Socks |-> IF s \in S THEN [K[s] EXCEPT !.open = FALSE] ELSE K[s]]

NoServer(k) == [k EXCEPT !.server = None, !.backend = None, !.backend_ndx = None]

(***************************************************************************)
(* src/network-conn-pool-wrap.c                                            *)
(***************************************************************************)

Servers(k) == IF Multi(k) THEN Range(k.servers) ELSE {k.server} \ {None}

\* network_pool_add_conn's last part: every held socket goes to its pool, but
\* the old ones, made before the last refresh, are closed.
ToPool(w, old) ==
    LET k == w.con
        held(b) == IF Multi(k)
                   THEN IF k.ndx_array[b] > 0 THEN {k.servers[k.ndx_array[b]]} ELSE {}
                   ELSE IF b = k.backend THEN {k.server} ELSE {}
    IN  [w EXCEPT !.con = [NoServer(k) EXCEPT
                             !.servers = <<>>, !.ndx_array = [b \in Backends |-> 0],
                             !.is_prepared = @ /\ Multi(k)],
                  !.sock = Shut(@, old),
                  !.pool = [b \in Backends |-> @[b] \cup (held(b) \ old)],
                  !.clients = [b \in Backends |-> @[b] - Cardinality(held(b))]]

\* The connection is not fit for the pool: it is closed instead.
Discard(w) ==
    [w EXCEPT !.con = NoServer(@),
              !.sock = Shut(@, {w.con.server}),
              !.clients[w.con.backend] = @ - 1]

\* Prepared statements do not keep a connection from the pool.
network_pool_add_conn_wrong(w, is_swap) ==
    LET k == w.con IN
    IF \/ k.server = None
       \/ k.backend = None
       \/ k.sess /\ backend[k.backend].type = "rw"
       \/ w.sock[k.server].sess
    THEN {Ret(w, FALSE)}
    ELSE (IF k.ac_received THEN {}
          ELSE {Ret(ToPool(w, old), TRUE) :
                  old \in IF "refresh" \in mix THEN SUBSET Servers(k) ELSE {{}}})
         \cup
         (IF k.ac_received \/ (ReduceConns /\ ~is_swap /\ ~Multi(k))
          THEN {Ret(Discard(w), FALSE)} ELSE {})

network_pool_add_conn(w, is_swap) ==
    LET k == w.con IN
    IF \/ k.server = None
       \/ k.backend = None
       \/ k.prepare_stmt_count > 0
       \/ k.sess /\ backend[k.backend].type = "rw"
       \/ w.sock[k.server].sess
    THEN {Ret(w, FALSE)}
    ELSE (IF k.ac_received THEN {}
          ELSE {Ret(ToPool(w, old), TRUE) :
                  old \in IF "refresh" \in mix THEN SUBSET Servers(k) ELSE {{}}})
         \cup
         (IF k.ac_received \/ (ReduceConns /\ ~is_swap /\ ~Multi(k))
          THEN {Ret(Discard(w), FALSE)} ELSE {})

\* mysqld_con_reserved_connections_add: a second server for prepared statements.
mysqld_con_reserved_connections_add(w, s, b) ==
    LET k == w.con
        first == IF Multi(k) THEN k.servers ELSE <<k.server>>
        arr == IF Multi(k) THEN k.ndx_array
               ELSE [x \in Backends |-> IF x = k.backend_ndx THEN 1 ELSE 0]
    IN  [w EXCEPT !.con.servers = Append(first, s),
                  !.con.ndx_array = [arr EXCEPT ![b] = Len(first) + 1]]

\* The socket becomes the connection's server; its backend is charged for it.
Attach(w, s, b) ==
    [w EXCEPT !.con.server = s, !.con.backend = b, !.con.backend_ndx = b,
              !.clients[b] = @ + 1]

\* The connection held so far is not given back.
network_connection_pool_swap_wrong(w, b) ==
    LET k == w.con
        moved == k.backend_ndx # None /\ k.prepare_stmt_count > 0 /\ k.backend_ndx # b
        kept == IF moved /\ Multi(k) THEN k.ndx_array[b] ELSE 0
        took(s) == [w EXCEPT !.pool[b] = @ \ {s}]
    IN  IF moved /\ backend[b].type = "ro" /\ ~k.use_slave_forced
        THEN {Ret(w, FALSE)}
        ELSE IF kept > 0
        THEN {Ret([w EXCEPT !.con.server = k.servers[kept], !.con.backend_ndx = b], TRUE)}
        ELSE IF w.pool[b] = {}
        THEN IF moved \/ k.server = None THEN {Ret(IF moved THEN w ELSE [w EXCEPT !.con = NoServer(@)], FALSE)}
             ELSE {Ret(o.w, FALSE) : o \in network_pool_add_conn(w, TRUE)}
        ELSE UNION {
             IF moved
             THEN {Ret(Attach(mysqld_con_reserved_connections_add(took(s), s, b), s, b), TRUE)}
             ELSE {Ret(Attach(took(s), s, b), TRUE)}
             : s \in w.pool[b]}

network_connection_pool_swap(w, b) ==
    LET k == w.con
        moved == k.backend_ndx # None /\ k.prepare_stmt_count > 0 /\ k.backend_ndx # b
        kept == IF moved /\ Multi(k) THEN k.ndx_array[b] ELSE 0
        took(s) == [w EXCEPT !.pool[b] = @ \ {s}]
    IN  IF moved /\ backend[b].type = "ro" /\ ~k.use_slave_forced
        THEN {Ret(w, FALSE)}
        ELSE IF kept > 0
        THEN {Ret([w EXCEPT !.con.server = k.servers[kept], !.con.backend_ndx = b], TRUE)}
        ELSE IF w.pool[b] = {}
        THEN IF moved \/ k.server = None THEN {Ret(IF moved THEN w ELSE [w EXCEPT !.con = NoServer(@)], FALSE)}
             ELSE {Ret(o.w, FALSE) : o \in network_pool_add_conn(w, TRUE)}
        ELSE UNION {
             IF moved
             THEN {Ret(Attach(mysqld_con_reserved_connections_add(took(s), s, b), s, b), TRUE)}
             ELSE IF k.server = None
             THEN {Ret(Attach(took(s), s, b), TRUE)}
             ELSE {IF o.ret THEN Ret(Attach(o.w, s, b), TRUE) ELSE Ret(o.w, FALSE) :
                      o \in network_pool_add_conn(took(s), TRUE)}
             : s \in w.pool[b]}

(***************************************************************************)
(* plugins/proxy/proxy-plugin.c: choosing the server of a statement.       *)
(***************************************************************************)

\* network_backends_get_rw_ndx; the code takes the first one.
RwNdx == {b \in Backends : backend[b].type = "rw" /\ Usable(b)}

\* network_backends_get_ro_ndx, round robin.
RoNdx == {b \in Backends : backend[b].type = "ro" /\ Usable(b)}

OrNone(S) == IF S = {} THEN {None} ELSE S

\* The backends proxy_get_backend_ndx may choose.
Ndx(type, force_slave) ==
    IF type = "rw" THEN OrNone(RwNdx)
    ELSE (IF force_slave \/ ReadMaster # "all" THEN OrNone(RoNdx) ELSE {})
         \cup (IF ~force_slave /\ ReadMaster # "none" THEN OrNone(RwNdx) ELSE {})

\* master_unavailable is kept in the connection: no read/write backend is up.
proxy_get_backend_ndx(w, type, force_slave) ==
    LET v == [w EXCEPT !.con.master_unavailable = FALSE]
        k == w.con
        noMaster(u) == Ret([u EXCEPT !.con.master_unavailable = TRUE], FALSE)
    IN  UNION {
          IF b = None
          THEN IF type = "ro" THEN {Ret(v, TRUE)}
               ELSE IF k.server = None THEN {noMaster(v)}
               ELSE {noMaster(o.w) : o \in network_pool_add_conn(v, FALSE)}
          ELSE IF b = k.backend_ndx /\ k.server # None
          THEN {Ret(v, TRUE)}
          ELSE network_connection_pool_swap(v, b)
          : b \in Ndx(type, force_slave)}

\* con->server is a connection to a read-only backend.
OnSlave(k) == k.server # None /\ k.backend # None /\ backend[k.backend].type = "ro"

\* Outcomes of the parts of network_read_query: "go" on, answer with a
\* "result", retry for lack of a connection ("noconn"), or just "quit".
Need(outs) == {Ret(o.w, IF o.ret THEN "go" ELSE "noconn") : o \in outs}
Prefer(outs) == {Ret(o.w, "go") : o \in outs}
Go(w) == {Ret(w, "go")}
Then(outs, F(_)) == UNION {IF o.ret = "go" THEN F(o.w) ELSE {o} : o \in outs}

GetMaster(w) == Need(proxy_get_backend_ndx(w, "rw", FALSE))

forced_visit(w, q) ==
    LET k == w.con
        type == IF q \in ForceMaster THEN "rw" ELSE "ro"
        v == IF type = "ro" THEN [w EXCEPT !.con.use_slave_forced = TRUE] ELSE w
    IN  IF k.server # None /\ w.sock[k.server].sess
        THEN Go([w EXCEPT !.con.sess = TRUE])
        ELSE IF k.backend # None /\ backend[k.backend].type = type
        THEN Go(v)
        ELSE UNION {IF o.ret \/ type = "rw" THEN Need({o}) ELSE GetMaster(o.w) :
                      o \in proxy_get_backend_ndx(v, type, q \in ForceSlave)}

\* A write keeps the slave connection that is held.
process_non_trans_query_wrong(w, q) ==
    LET k == w.con
        v == [w EXCEPT !.con =
                [@ EXCEPT !.calc = IF q \in {"select", "found"} THEN q = "found" ELSE @,
                          !.ac = IF q = "ac0" THEN FALSE ELSE IF q = "ac1" THEN TRUE ELSE @,
                          !.in_tran = @ \/ q = "ac0",
                          !.changed_user_when_quit = @ /\ q # "ac0",
                          !.db = IF q = "use" /\ k.ac THEN k.arg ELSE @]]
        master == \/ MasterPreferred
                  \/ q \in Writes \cup {"ac0", "ac1"}
                  \/ q \in {"select", "found"} /\ k.last_record_updated
    IN  IF master \/ ReadMaster = "all"
        THEN Go(v)
        ELSE IF OnSlave(k) THEN Go(v)
        ELSE Prefer(proxy_get_backend_ndx(v, "ro", FALSE))

\* Outside a transaction: reads go to a slave, the rest to the master.
process_non_trans_query(w, q) ==
    LET k == w.con
        v == [w EXCEPT !.con =
                [@ EXCEPT !.calc = IF q \in {"select", "found"} THEN q = "found" ELSE @,
                          !.ac = IF q = "ac0" THEN FALSE ELSE IF q = "ac1" THEN TRUE ELSE @,
                          !.in_tran = @ \/ q = "ac0",
                          !.changed_user_when_quit = @ /\ q # "ac0",
                          !.db = IF q = "use" /\ k.ac THEN k.arg ELSE @]]
        master == \/ MasterPreferred
                  \/ q \in Writes \cup {"ac0", "ac1"}
                  \/ q \in {"select", "found"} /\ k.last_record_updated
    IN  IF master \/ ReadMaster = "all"
        THEN IF OnSlave(k) THEN GetMaster(v) ELSE Go(v)
        ELSE IF OnSlave(k) THEN Go(v)
        ELSE Prefer(proxy_get_backend_ndx(v, "ro", FALSE))

process_trans_query(w, q) ==
    LET w0 == [w EXCEPT !.con.ac = FALSE]
        w1 == [w EXCEPT !.con.ac_received = TRUE]
        on(u) == [u EXCEPT !.con.ac = TRUE]
    IN  CASE q = "ac0" -> {w0}
          [] q = "ac1" -> IF Multi(w.con)
                          THEN {IF o.ret THEN on(o.w) ELSE o.w :
                                  o \in proxy_get_backend_ndx(w1, "rw", FALSE)}
                          ELSE {on(w1)}
          [] OTHER -> {w}

\* Preparing outside a transaction: always on the master.
process_non_trans_prepare_stmt(w) ==
    LET first == ~MasterPreferred /\ w.con.prepare_stmt_count = 0 /\ ~OnSlave(w.con)
    IN  IF OnSlave(w.con) THEN GetMaster(w)
        ELSE IF first THEN Prefer(proxy_get_backend_ndx(w, "rw", FALSE))
        ELSE Go(w)

Reserve(w) == [w EXCEPT !.con.conn_reserved = TRUE]

process_rw_split(w, q, is_under_sess_scope) ==
    LET k == w.con IN
    IF ~k.in_tran /\ ~is_under_sess_scope /\ q \in Queries
    THEN process_non_trans_query(w, q)
    ELSE IF k.in_tran
    THEN IF q \in Queries
         THEN UNION {Go(u) : u \in process_trans_query(Reserve(w), q)}
         ELSE Go([Reserve(w) EXCEPT !.con.is_prepared = TRUE])
    ELSE IF q \in Prepares
    THEN process_non_trans_prepare_stmt([Reserve(w) EXCEPT !.con.is_prepared = TRUE])
    ELSE IF k.prepare_stmt_count > 0 \/ ~k.ac \/ k.sess
    THEN Go(Reserve(w))
    ELSE Go(w)

process_query_or_stmt_prepare(w, q) ==
    LET k == w.con
        v == [w EXCEPT !.con.trx_changed = IF q = "settran" THEN TRUE
                                           ELSE IF q = "unsettran" THEN FALSE ELSE @]
        split(u) == process_rw_split(u, q, u.con.trx_changed \/ q \in {"settran", "unsettran"})
        scoped(u) == split([u EXCEPT !.con.sess = TRUE])
    IN  IF q = "local" \/ (q \in ForceSlave /\ k.in_tran)
        THEN {Ret(w, "result")}
        ELSE IF q \in ForceSlave \cup ForceMaster
        THEN forced_visit(w, q)
        ELSE IF ~v.con.trx_changed
        THEN split(v)
        ELSE Then(IF k.backend # None /\ backend[k.backend].type # "rw"
                  THEN GetMaster(v) ELSE Go(v), scoped)

process_quit_cmd(w) ==
    LET k == w.con IN
    IF \/ k.backend_ndx = None
       \/ ~k.in_tran /\ ~k.trx_changed
       \/ k.server = None
    THEN {Ret(w, "quit")}
    ELSE {Ret([w EXCEPT !.con.changed_user_when_quit = TRUE, !.con.trx_changed = FALSE,
                        !.con.injected = <<"reset">>, !.sock[k.server].sess = FALSE], "inject")}

\* The backend is changed, the server is not.
change_stmt_id_wrong(w) ==
    LET B == {b \in Backends : w.con.ndx_array[b] = w.con.arg.index + 1}
    IN  [w EXCEPT !.con.backend_ndx = IF B = {} THEN @ ELSE CHOOSE b \in B : TRUE]

\* COM_STMT_EXECUTE and _CLOSE with several servers: the id names the server.
change_stmt_id(w) ==
    LET k == w.con
        i == k.arg.index + 1
        B == {b \in Backends : k.ndx_array[b] = i}
    IN  [w EXCEPT !.con.server = k.servers[i],
                  !.con.backend_ndx = IF B = {} THEN @ ELSE CHOOSE b \in B : TRUE]

change_server_by_rw(w) ==
    [w EXCEPT !.con.server = w.con.servers[w.con.ndx_array[w.con.backend_ndx]]]

\* The database of the connection is not adjusted.
Inject_wrong(w) == Ret([w EXCEPT !.con.injected = <<"query">>], "inject")

\* adjust_default_db, and the injected packets in the order they are sent.
Inject(w) ==
    LET k == w.con
        differs == k.db # w.sock[k.server].default_db
    IN  Ret([w EXCEPT !.con.injected = IF differs THEN <<"initdb", "query">> ELSE <<"query">>],
            "inject")

\* The end of network_read_query: a server is there, the packets are queued.
QueueQuery(w, q) ==
    LET k == w.con
        b == k.backend
        v == [w EXCEPT !.sock[k.server].sess = k.sess]
        ro == Usable(b) /\ backend[b].type = "ro"
        ready == [v EXCEPT !.sock[k.server].ro = ro, !.con.last_record_updated = FALSE]
        routed == IF ~Multi(k) THEN ready
                  ELSE IF q \in {"exec", "close"} THEN change_stmt_id(ready)
                  ELSE IF q \in Queries THEN change_server_by_rw(ready)
                  ELSE ready
        held == [routed EXCEPT !.con.reserved = @ \/ k.conn_reserved \/ Multi(k)]
    IN  IF b = None THEN {Ret(v, "noconn")}
        ELSE IF ~Usable(b) /\ q \in Queries \cup Prepares \cup {"exec"}
        THEN {Ret([v EXCEPT !.sock[k.server].ro = FALSE], "result")}
        ELSE {Inject(held)}

network_read_query(w, q) ==
    LET v == [w EXCEPT !.con.use_slave_forced = FALSE, !.con.conn_reserved = FALSE,
                       !.con.injected = <<>>, !.con.sess = FALSE]
        lastResort(u) == LET k == u.con IN
            \/ k.server = None
            \/ ~k.is_prepared /\ OnSlave(k) /\ ~Usable(k.backend)
        withServer(u) == IF lastResort(u) THEN GetMaster(u) ELSE Go(u)
        queue(u) == QueueQuery(u, q)
    IN  IF q = "quit" THEN process_quit_cmd(v)
        ELSE Then(Then(IF q \in Queries \cup Prepares
                       THEN process_query_or_stmt_prepare(v, q) ELSE Go(v),
                       withServer),
                  queue)

(***************************************************************************)
(* The plugin and con_handle: from a statement to the answer.              *)
(***************************************************************************)

\* proxy_send_query_result: close the server when it has to be closed.
AfterResult(w) ==
    LET k == w.con
        v == [w EXCEPT !.con.ac_received = FALSE, !.con.st = "read"]
    IN  IF k.to_be_closed /\ ~Multi(k) /\ k.server # None
        THEN [Discard(v) EXCEPT !.con.to_be_closed = FALSE]
        ELSE v

\* process_rw_write: the head of the queue is written to the server.
\* COM_STMT_CLOSE and COM_STMT_SEND_LONG_DATA have no answer.
process_rw_write(w, q) ==
    LET k == w.con
        left == IF k.prepare_stmt_count > 0 THEN k.prepare_stmt_count - 1 ELSE 0
        v == [w EXCEPT !.con.st = "read", !.con.prepare_stmt_count = left,
                       !.sock[k.server].stmts = IF q = "close" /\ @ > 0 THEN @ - 1 ELSE @]
    IN  IF Head(k.injected) = "query" /\ q \in Unanswered
        THEN IF left = 0 /\ ~k.in_tran
             THEN {o.w : o \in network_pool_add_conn(v, FALSE)}
             ELSE {v}
        ELSE {[w EXCEPT !.con.st = "result",
                        !.con.sent_to = backend[w.sock[k.server].be].type]}

\* process_service_unavailable: the client is told, its server is given up.
\* (retry_serv_cnt is left as it is.)
Unavailable(w) == {AfterResult([w EXCEPT !.con.to_be_closed = TRUE])}

\* handle_read_query for what proxy_read_query returned.
Dispatch(o, q) ==
    LET w == [o.w EXCEPT !.con.last_type = IF o.w.con.server = None THEN None
                                           ELSE backend[o.w.con.backend].type]
        done == [w EXCEPT !.con.retry = 0]
    IN  CASE o.ret = "result" -> {AfterResult(done)}
          [] o.ret = "inject" -> process_rw_write(done, q)
          [] o.ret = "quit"   -> {[done EXCEPT !.con.st = "quit"]}
          [] o.ret = "noconn" ->
               IF w.con.master_unavailable \/ w.con.retry >= MaxRetry
               THEN Unavailable(w)
               ELSE {[w EXCEPT !.con.st = "wait", !.con.retry = @ + 1]}

\* The held server belongs to a backend that changed its type or went away.
server_attr_changed(k) ==
    /\ k.server # None
    /\ \/ k.last_type # backend[k.backend].type
       \/ ~Usable(k.backend) /\ ~k.is_prepared

proxy_read_query(w, q) ==
    LET v == [w EXCEPT !.con.ac_received = FALSE, !.con.to_be_closed = FALSE]
        changed == server_attr_changed(w.con)
        start == IF changed THEN {o.w : o \in network_pool_add_conn(v, FALSE)} ELSE {v}
    IN  IF changed /\ w.con.reserved
        THEN {AfterResult([v EXCEPT !.con.to_be_closed = TRUE, !.con.retry = 0])}
        ELSE UNION {Dispatch(o, q) : o \in UNION {network_read_query(u, q) : u \in start}}

\* proxy_disconnect_client, proxy_plugin_con_free and network_mysqld_con_free:
\* a server that is not given back to the pool is closed.
Release(w) ==
    LET k == w.con
        S == Servers(k)
        charged(b) == IF Multi(k) THEN k.ndx_array[b] > 0 ELSE S # {} /\ b = k.backend
    IN  [w EXCEPT !.con = Closed,
                  !.sock = Shut(@, S),
                  !.clients = [b \in Backends |-> IF charged(b) THEN @[b] - 1 ELSE @[b]]]

proxy_disconnect_client(w, abnormal) ==
    LET v == IF w.con.changed_user_when_quit
             THEN [w EXCEPT !.con.in_tran = FALSE, !.con.ac = TRUE] ELSE w
        k == v.con
    IN  IF abnormal \/ k.in_tran \/ ~k.ac \/ k.sess
        THEN {Release(w)}
        ELSE {Release(o.w) : o \in network_pool_add_conn(v, FALSE)}

(***************************************************************************)
(* The MySQL servers, as the proxy sees them (external).                   *)
(***************************************************************************)

\* What a statement that succeeds does to the session it runs in.
Executed(x, q, arg) ==
    CASE q = "begin"  -> [x EXCEPT !.tran = TRUE]
      [] q = "commit" -> [x EXCEPT !.tran = FALSE]
      [] q = "ac0"    -> [x EXCEPT !.ac = FALSE]
      [] q = "ac1"    -> [x EXCEPT !.ac = TRUE, !.tran = FALSE]
      [] q = "settran"   -> [x EXCEPT !.iso = TRUE]
      [] q = "unsettran" -> [x EXCEPT !.iso = FALSE]
      [] q = "use"    -> [x EXCEPT !.db = arg]
      [] q \in Prepares -> [x EXCEPT !.stmts = @ + 1]
      [] q \in {"select", "found", "update", "ro_select", "rw_select", "exec"} ->
           [x EXCEPT !.tran = @ \/ ~x.ac]
      [] OTHER -> x

\* COM_RESET_CONNECTION.
Reset(x) == [x EXCEPT !.tran = FALSE, !.ac = TRUE, !.iso = FALSE, !.stmts = 0]

(***************************************************************************)
(* The answer of the server.                                               *)
(***************************************************************************)

\* Whether the server status of the answer says that a transaction is open.
\* Only COM_QUERY and COM_STMT_EXECUTE copy it from the answer; for the other
\* commands the injection's status stays 0.
InTransStatus(x, q) == q \in Queries \cup {"exec"} /\ x.tran

\* An open transaction does not reserve the connection.
proxy_c_read_query_result_unreserved(k, x, q, warning) ==
    IF q \in Prepares THEN k
    ELSE LET in == IF InTransStatus(x, q) THEN k.in_tran \/ ~x.ro ELSE FALSE
         IN  [k EXCEPT !.in_tran = in \/ ~k.ac,
                       !.reserved = ~k.ac \/ k.calc \/ k.is_prepared \/ k.sess \/ warning]

\* proxy_c_read_query_result for the client's own statement, answered OK.
proxy_c_read_query_result(k, x, q, warning) ==
    IF q \in Prepares THEN k
    ELSE LET in == IF InTransStatus(x, q) THEN k.in_tran \/ ~x.ro ELSE FALSE
         IN  [k EXCEPT !.in_tran = in \/ ~k.ac,
                       !.reserved = \/ in \/ ~k.ac \/ k.calc
                                    \/ k.is_prepared \/ k.sess \/ warning]

\* proxy_read_query_result: what the answer to the statement records.
Answered(k, q, ok) ==
    [k EXCEPT !.prepare_stmt_count = IF ok /\ q \in Prepares THEN @ + 1 ELSE @,
              !.last_record_updated = @ \/ (ok /\ q = "update"),
              !.changed_user_when_quit = @ /\ (ok \/ ~k.in_tran),
              !.injected = Tail(@)]

(***************************************************************************)
(* What the client may rely on (history).                                  *)
(***************************************************************************)
\* db: the databases it may be in; two after a USE that got an error.
NoView == [tran |-> None, ac |-> TRUE, db |-> {DB0}, stmts |-> {}]

\* A prepared statement, as its id names it: the index of its server among
\* con->servers; s is the server that really holds it.
Handle(n, index, s) == [n |-> n, index |-> index, s |-> s]

\* The client has read the OK of q, which ran on socket s, in session x.
Told(v, q, arg, index, s, x) ==
    [v EXCEPT !.tran = IF x.tran THEN s ELSE None,
              !.ac = x.ac,
              !.db = IF q = "use" THEN {arg} ELSE @,
              !.stmts = IF q \notin Prepares THEN @
                        ELSE LET n == CHOOSE n \in 1..MaxPrep : \A h \in @ : h.n # n
                             IN  @ \cup {Handle(n, index, s)}]

\* An error told the client that its server, and all it had there, is lost.
Lost(v, K) == [v EXCEPT !.tran = IF @ # None /\ ~(K[@].open /\ K[@].alive) THEN None ELSE @,
                        !.stmts = {h \in @ : K[h.s].open /\ K[h.s].alive}]

(***************************************************************************)
(* Actions.                                                                *)
(***************************************************************************)

\* Fields that the next statement sets before it reads them.
Settled(k) ==
    IF k.st \notin {"read", "wait"} THEN k
    ELSE [k EXCEPT !.conn_reserved = FALSE, !.use_slave_forced = FALSE,
                   !.master_unavailable = FALSE, !.sent_to = None, !.injected = <<>>,
                   !.cmd = IF k.st = "read" /\ @ # "quit" THEN None ELSE @,
                   !.arg = IF k.st = "read" THEN None ELSE @]

Done(c, w, v) ==
    /\ con' = [con EXCEPT ![c] = Settled(w.con)]
    /\ sock' = w.sock
    /\ pool' = w.pool
    /\ clients' = w.clients
    /\ view' = [view EXCEPT ![c] = IF w.con.st = "closed" THEN NoView ELSE Lost(v, w.sock)]
    /\ UNCHANGED <<backend, mix>>

\* The handlers of ST_READ_QUERY and ST_CLIENT_QUIT, in one event.
handle_read_query(w, q) ==
    UNION {IF u.con.st = "quit" THEN proxy_disconnect_client(u, FALSE) ELSE {u} :
             u \in proxy_read_query(w, q)}

\* The argument of a statement: a database or a prepared statement.
Args(c, q) ==
    CASE q = "use" -> DBs
      [] q \in OnStmt -> view[c].stmts
      [] q \in Prepares -> IF con[c].prepare_stmt_count < MaxPrep THEN {None} ELSE {}
      [] OTHER -> {None}

\* The client sends a statement.
Query(c) ==
    /\ con[c].st = "read"
    /\ con[c].cmd = None
    /\ \E q \in mix \cap Statements : \E arg \in Args(c, q) :
         LET w == [World(c) EXCEPT !.con.cmd = q, !.con.arg = arg]
             v == CASE q = "close" -> [view[c] EXCEPT !.stmts = @ \ {arg}]
                    [] q = "use" -> [view[c] EXCEPT !.db = @ \cup {arg}]
                    [] OTHER -> view[c]
         IN  \E u \in handle_read_query(w, q) : Done(c, u, v)

\* The timer of a client that waits for a server connection.
Retry(c) ==
    /\ con[c].st = "wait"
    /\ \E u \in handle_read_query(World(c), con[c].cmd) : Done(c, u, view[c])

\* The server answers the first injected packet.
Reply(c) ==
    LET k == con[c]
        s == k.server
        q == k.cmd
        w == World(c)
    IN
    /\ k.st = "result"
    /\ sock[s].alive
    /\ \/ /\ Head(k.injected) = "initdb"
          /\ \E u \in process_rw_write(
                   [w EXCEPT !.sock[s].db = k.db, !.sock[s].default_db = k.db,
                             !.con.injected = Tail(@)], q) :
               Done(c, u, view[c])
       \/ /\ Head(k.injected) = "reset"
          /\ Done(c, AfterResult([w EXCEPT !.sock[s] = Reset(@)]), view[c])
       \/ /\ Head(k.injected) = "query"
          /\ \E warning \in IF "warning" \in mix THEN BOOLEAN ELSE {FALSE} :
               LET x == Executed(sock[s], q, k.arg)
                   index == IF Multi(k) THEN k.ndx_array[k.backend_ndx] - 1 ELSE 0
                   a == proxy_c_read_query_result(Answered(k, q, TRUE), x, q, warning)
               IN  Done(c, AfterResult([w EXCEPT !.con = a, !.sock[s] = x]),
                            Told(view[c], q, k.arg, index, s, x))
       \/ /\ Head(k.injected) = "query"
          /\ "error" \in mix
          /\ q \in MayFail
          /\ \E rollback \in BOOLEAN :
               Done(c, AfterResult([w EXCEPT !.con = Answered(k, q, FALSE),
                                             !.sock[s].tran = @ /\ ~rollback]),
                       [view[c] EXCEPT !.tran = IF rollback THEN None ELSE @])

\* "server closed prematurely": process_read_event on the server's socket.
ServerLost(c) ==
    /\ "lost" \in mix
    /\ con[c].st = "result"
    /\ LET s == con[c].server
           dead == [sock[s] EXCEPT !.alive = FALSE, !.tran = FALSE, !.ac = TRUE,
                                   !.iso = FALSE, !.stmts = 0]
       IN  Done(c, AfterResult([World(c) EXCEPT !.con.to_be_closed = TRUE,
                                                 !.sock[s] = dead]), view[c])

\* proxy_timeout in ST_READ_QUERY, after the short wait for the next statement.
ReturnToPool(c) ==
    /\ con[c].st = "read"
    /\ con[c].server # None
    /\ ~con[c].reserved
    /\ \E o \in network_pool_add_conn(World(c), FALSE) : Done(c, o.w, view[c])

\* The client closes, or is idle for too long.
Disconnect(c) ==
    /\ con[c].st = "read"
    /\ \E u \in proxy_disconnect_client(World(c), FALSE) : Done(c, u, view[c])

\* The answer times out, or the client is gone when it is written.
Abort(c) ==
    /\ con[c].st = "result"
    /\ \E u \in proxy_disconnect_client(World(c), TRUE) : Done(c, u, view[c])

Connect(c) ==
    /\ con[c].st = "closed"
    /\ \A d \in Clients \ {c} : con[d].st = "closed" \/ "two_clients" \in mix
    /\ con' = [con EXCEPT ![c] = Authed]
    /\ UNCHANGED <<sock, pool, clients, backend, mix, view>>

\* The pool gets a new connection (ConnPool models how).
Fill(b) ==
    /\ Usable(b)
    /\ \E s \in Socks :
         /\ ~sock[s].open
         /\ sock' = [sock EXCEPT ![s] = Fresh(b)]
         /\ pool' = [pool EXCEPT ![b] = @ \cup {s}]
    /\ UNCHANGED <<con, clients, backend, mix, view>>

\* network_mysqld_con_idle_handle: an idle connection ends.
IdleClosed(b) ==
    /\ "idle" \in mix
    /\ \E s \in pool[b] :
         /\ pool' = [pool EXCEPT ![b] = @ \ {s}]
         /\ sock' = Shut(sock, {s})
    /\ UNCHANGED <<con, clients, backend, mix, view>>

\* network_backends_modify: a backend goes down or comes back.
ChangeState(b) ==
    /\ "down" \in mix
    /\ backend' = [backend EXCEPT ![b].state = IF @ = "up" THEN "down" ELSE "up"]
    /\ UNCHANGED <<con, sock, pool, clients, mix, view>>

\* A failover: b becomes the master, and the old master a slave.
Failover(b) ==
    /\ "failover" \in mix
    /\ backend[b].type = "ro"
    /\ backend' = [x \in Backends |-> [backend[x] EXCEPT !.type = IF x = b THEN "rw" ELSE "ro"]]
    /\ UNCHANGED <<con, sock, pool, clients, mix, view>>

Init ==
    /\ mix \in Mixes
    /\ con = [c \in Clients |-> Closed]
    /\ sock = [s \in Socks |-> [Fresh(Master) EXCEPT !.open = FALSE]]
    /\ pool = [b \in Backends |-> {}]
    /\ clients = [b \in Backends |-> 0]
    /\ backend = [b \in Backends |->
                    [type |-> IF b = Master THEN "rw" ELSE "ro", state |-> "up"]]
    /\ view = [c \in Clients |-> NoView]

Next ==
    \/ \E c \in Clients : \/ Query(c) \/ Retry(c) \/ Reply(c) \/ ServerLost(c)
                          \/ ReturnToPool(c) \/ Disconnect(c) \/ Abort(c) \/ Connect(c)
    \/ \E b \in Backends : Fill(b) \/ IdleClosed(b) \/ ChangeState(b) \/ Failover(b)

Spec == Init /\ [][Next]_vars

(***************************************************************************)
(* Properties.                                                             *)
(***************************************************************************)
Held(c) == Servers(con[c])

\* The client's own statement is at the server con->server.
Sent(c) == con[c].st = "result" /\ Head(con[c].injected) = "query"

\* The shape of the state: a connection that awaits a result has a server
\* (proxy_get_server_list ends with one, or the client is told there is none),
\* and waiting for one is retried at most max_retry_serv_cnt times.
TypeOK ==
    /\ \A c \in Clients :
         /\ con[c].st \in {"read", "wait", "result", "closed"}
         /\ con[c].server \in Socks \cup {None}
         /\ con[c].st = "result" => con[c].server # None
         /\ con[c].retry \in 0..MaxRetry
    /\ \A b \in Backends : pool[b] \subseteq Socks /\ clients[b] \in Nat

\* Every open server connection is either idle in the pool of its backend or
\* held by exactly one client: network_connection_pool_swap,
\* network_pool_add_conn and the two proxy_disconnect paths never lose a
\* connection, never lend it twice and never pool it under another backend.
Owned ==
    \A s \in Socks :
      LET pools == {b \in Backends : s \in pool[b]}
          holders == {c \in Clients : s \in Held(c)}
      IN  IF sock[s].open
          THEN \/ pools = {sock[s].be} /\ holders = {}
               \/ pools = {} /\ Cardinality(holders) = 1
          ELSE pools = {} /\ holders = {}

\* connected_clients of a backend, by which the least loaded slave is chosen, is
\* the number of its connections in use: each path that takes a connection from
\* a pool, returns it or drops it after an error moves the counter once.
ClientsCounted ==
    \A b \in Backends :
      clients[b] = Cardinality({s \in Socks : sock[s].be = b
                                   /\ \E c \in Clients : s \in Held(c)})

\* A connection network_pool_add_conn has put in a pool carries nothing of the
\* client that had it: no open transaction, no autocommit=0, no isolation level
\* and no prepared statement. The next client takes it as it is.
PooledClean ==
    \A b \in Backends : \A s \in pool[b] :
      ~sock[s].tran /\ sock[s].ac /\ ~sock[s].iso /\ sock[s].stmts = 0

\* "All operations of a transaction are sent to the master": a statement runs
\* in the transaction its client has open, and that is still on the master.
TranKept ==
    \A c \in Clients : Sent(c) /\ view[c].tran # None
        => con[c].server = view[c].tran /\ con[c].sent_to = "rw"

\* "all statements that are not queries are sent to the master"
\* (doc/cetus-rw.md:175): the routing of process_non_trans_query, the reserved
\* connection and the swap between con->servers agree on that.
WritesOnMaster ==
    \A c \in Clients : Sent(c) /\ con[c].cmd \in Writes => con[c].sent_to = "rw"

\* A prepared statement is executed by the server that prepared it: the id the
\* client was given leads change_stmt_id to the same connection, however many
\* swaps to the other backend happened in between.
StmtAtServer ==
    \A c \in Clients : Sent(c) /\ con[c].cmd = "exec" => con[c].server = con[c].arg.s

\* A statement runs in the database the client has selected: adjust_default_db
\* puts a COM_INIT_DB before it when the pooled connection is in another one, and
\* nothing is forgotten when that connection is swapped for another.
DbSelected ==
    \A c \in Clients : Sent(c) => sock[con[c].server].db \in view[c].db

\* A statement runs with the autocommit setting the client has made: the
\* connection on which SET autocommit=0 ran stays reserved for this client
\* (is_auto_commit = 0) until it is set back.
AutocommitKept ==
    \A c \in Clients :
      Sent(c) /\ con[c].cmd \in {"select", "update", "exec"}
        => sock[con[c].server].ac = view[c].ac

\* The connections are accounted for: each has one owner, the counters of the backends are the
\* connections in use, and a client that awaits a result has a server (network_connection_pool_swap,
\* network_pool_add_conn, proxy_disconnect_client).
Accounted == TypeOK /\ Owned /\ ClientsCounted

\* A statement runs in the session its client has made, though not on the connection it made it on:
\* the database of its last USE and its autocommit setting (adjust_default_db, is_auto_commit).
SessionKept == DbSelected /\ AutocommitKept
=============================================================================
