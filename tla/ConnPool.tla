----------------------------- MODULE ConnPool -----------------------------
(***************************************************************************)
(* The pool of server connections one worker process keeps for one         *)
(* backend: the idle queues per user (network-conn-pool.c), the idle       *)
(* handler and the return path (network-conn-pool-wrap.c), and the timer   *)
(* and the connections the proxy opens by itself to keep the pool filled   *)
(* (network-mysqld.c, the "self" connections).                             *)
(*                                                                         *)
(* A worker is one event loop, so every callback is one action.  What a    *)
(* borrower does with a connection is left to XATran; here a connection is *)
(* lent, and later returned or closed.                                     *)
(***************************************************************************)
EXTENDS Integers, FiniteSets, Sequences

CONSTANTS
    Socks,          \* bound: server sockets that exist at the same time
    Users,          \* user names the sockets are authenticated as
    DefaultUser,    \* srv->default_username
    BackendType,    \* "RW" or "RO"
    MinIdle,        \* pool->min_idle_connections
    Mid,            \* backend->config->mid_conn_pool
    Max,            \* backend->config->max_conn_pool
    PerTime,        \* srv->connections_created_per_time
    ReduceConns,    \* srv->is_reduce_conns
    DisableThreads, \* srv->disable_threads: no monitor thread
    MaxKills,       \* bound: "kill query" connections that authenticate
    MaxTries,       \* MAX_TRY_NUM
    MaxTime         \* bound: seconds of the clock the server times are read from

ASSUME PoolAssumption ==
    /\ IsFiniteSet(Socks)
    /\ DefaultUser \in Users
    /\ BackendType \in {"RW", "RO"}
    /\ MinIdle \in Nat /\ Mid \in Nat /\ Max \in Nat /\ PerTime \in Nat
    /\ Mid <= Max
    /\ ReduceConns \in BOOLEAN /\ DisableThreads \in BOOLEAN
    /\ MaxKills \in Nat /\ MaxTries \in Nat /\ MaxTime \in Nat

VARIABLES
    queue,              \* pool->users: the idle sockets of each user, head first
    cur_idle,           \* pool->cur_idle_connections
    connected_clients,  \* backend->connected_clients
    sock,               \* every socket: where it is, its user, its age
    state,              \* backend->state
    last_check_time,    \* backend->last_check_time
    need_to_create,     \* srv->is_need_to_create_conns
    complement,         \* srv->complement_conn_flag
    need_to_refresh,    \* srv->need_to_refresh_server_connections
    refresh_time,       \* srv->server_conn_refresh_time
    maintain,           \* srv->maintain_close_mode
    now,                \* time(0)
    kills               \* history: "kill query" connections that authenticated

flags == <<need_to_create, complement, need_to_refresh, refresh_time, maintain>>
vars == <<queue, cur_idle, connected_clients, sock, state, last_check_time, flags, now, kills>>

(* Where a socket can be.  The middle four are the ST_ASYNC states in which *)
(* a connection opened by the proxy itself waits for an event.              *)
SelfPhases == {"conn", "handshake", "auth", "query"}
Phases == {"closed", "idle", "lent"} \union SelfPhases
States == {"unknown", "up", "down", "maintaining"}
Serving == {"unknown", "up"}

Closed == [at |-> "closed", user |-> DefaultUser, kill |-> FALSE, born |-> 0, tries |-> 0]
Idle == {s \in Socks : sock[s].at = "idle"}
InUse == {s \in Socks : sock[s].at \in SelfPhases \union {"lent"}}
Open == {s \in Socks : sock[s].at # "closed"}
FreeIds == Socks \ Open

Init ==
    /\ queue = [u \in Users |-> <<>>]
    /\ cur_idle = 0
    /\ connected_clients = 0
    /\ sock = [s \in Socks |-> Closed]
    /\ state = "unknown"
    /\ last_check_time = -1
    /\ need_to_create = TRUE
    /\ complement = FALSE
    /\ need_to_refresh = FALSE
    /\ refresh_time = 0
    /\ maintain = FALSE
    /\ now = 0
    /\ kills = 0

-----------------------------------------------------------------------------
(* The queues.  A socket enters at the head of its user's queue and leaves  *)
(* from the head, or from the middle when its idle handler fires.           *)

PushHead(q, s) == [i \in 1..(Len(q) + 1) |-> IF i = 1 THEN s ELSE q[i - 1]]

PosOf(q, s) == CHOOSE i \in 1..Len(q) : q[i] = s

DeleteLink(q, k) == [i \in 1..(Len(q) - 1) |-> IF i < k THEN q[i] ELSE q[i + 1]]

(* network_connection_pool_get_conns: the user's own queue, or else any    *)
(* queue that keeps more than MinIdle connections (which is then robbed).  *)
GetConns(u) ==
    IF Len(queue[u]) > 0 THEN {u} ELSE {v \in Users : Len(queue[v]) > MinIdle}

network_connection_pool_add(s) ==
    /\ queue' = [queue EXCEPT ![sock[s].user] = PushHead(@, s)]
    /\ cur_idle' = cur_idle + 1
    /\ sock' = [sock EXCEPT ![s].at = "idle", ![s].tries = 0]

network_connection_pool_remove_wrong(s) ==
    /\ queue' = [queue EXCEPT ![sock[s].user] = Tail(@)]
    /\ cur_idle' = cur_idle - 1
    /\ sock' = [sock EXCEPT ![s] = Closed]

network_connection_pool_remove(s) ==
    /\ queue' = [queue EXCEPT ![sock[s].user] = DeleteLink(@, PosOf(@, s))]
    /\ cur_idle' = cur_idle - 1
    /\ sock' = [sock EXCEPT ![s] = Closed]

CloseSock(s) ==
    /\ sock' = [sock EXCEPT ![s] = Closed]
    /\ UNCHANGED <<queue, cur_idle>>

(* The shared tail of every return path: a socket older than the last      *)
(* refresh is closed and a replacement is asked for.                       *)
AddOrRetire(s) ==
    IF refresh_time <= sock[s].born
    THEN network_connection_pool_add(s) /\ UNCHANGED complement
    ELSE CloseSock(s) /\ complement' = TRUE

network_conn_pool_do_reduce_conns_verdict == cur_idle > Mid /\ connected_clients < cur_idle

-----------------------------------------------------------------------------
(* Borrowers.                                                               *)

(* A client session takes a socket for user u: pool_swap of the            *)
(* read/write-splitting plugin and the shard plugin's get-connection.      *)
network_connection_pool_get(u) ==
    /\ \E v \in GetConns(u) :
         /\ sock' = [sock EXCEPT ![Head(queue[v])].at = "lent"]
         /\ queue' = [queue EXCEPT ![v] = Tail(@)]
    /\ cur_idle' = cur_idle - 1
    /\ connected_clients' = connected_clients + 1
    /\ UNCHANGED <<state, last_check_time, flags, now, kills>>

(* The COM_CHANGE_USER sent on a robbed connection succeeded.              *)
ChangeUser(s, u) ==
    /\ sock[s].at = "lent" /\ sock[s].user # u
    /\ sock' = [sock EXCEPT ![s].user = u]
    /\ UNCHANGED <<queue, cur_idle, connected_clients, state, last_check_time, flags, now, kills>>

network_pool_add_conn_wrong(s) ==
    /\ sock[s].at = "lent"
    /\ IF ReduceConns /\ network_conn_pool_do_reduce_conns_verdict
       THEN CloseSock(s) /\ UNCHANGED <<complement, connected_clients>>
       ELSE AddOrRetire(s) /\ connected_clients' = connected_clients - 1
    /\ UNCHANGED <<state, last_check_time, need_to_create, need_to_refresh, refresh_time,
                   maintain, now, kills>>

(* A session gives its socket back.  With is_reduce_conns the pool may     *)
(* refuse it, and then asks for no replacement.                            *)
network_pool_add_conn(s) ==
    /\ sock[s].at = "lent"
    /\ connected_clients' = connected_clients - 1
    /\ IF ReduceConns /\ network_conn_pool_do_reduce_conns_verdict
       THEN CloseSock(s) /\ UNCHANGED complement
       ELSE AddOrRetire(s)
    /\ UNCHANGED <<state, last_check_time, need_to_create, need_to_refresh, refresh_time,
                   maintain, now, kills>>

(* A session closes its socket (server gone, transaction open, client      *)
(* aborted): the shard plugin asks for a replacement, the other does not.  *)
CloseLent(s) ==
    /\ sock[s].at = "lent"
    /\ connected_clients' = connected_clients - 1
    /\ CloseSock(s)
    /\ complement' \in {complement, TRUE}
    /\ UNCHANGED <<state, last_check_time, need_to_create, need_to_refresh, refresh_time,
                   maintain, now, kills>>

(* An idle socket is closed by the server (EV_READ) or reaches its age     *)
(* limit (EV_TIMEOUT).                                                     *)
network_mysqld_con_idle_handle(s) ==
    /\ sock[s].at = "idle"
    /\ network_connection_pool_remove(s)
    /\ complement' = TRUE
    /\ UNCHANGED <<connected_clients, state, last_check_time, need_to_create, need_to_refresh,
                   refresh_time, maintain, now, kills>>

-----------------------------------------------------------------------------
(* Connections the proxy opens by itself.                                   *)

NewSelf(u, kill, result) ==
    [at    |-> IF result = "success" THEN "handshake" ELSE "conn",
     user  |-> u, kill |-> kill, born |-> now, tries |-> 0]

MarkUp == IF DisableThreads THEN "up" ELSE state
MarkDown(st) == IF DisableThreads /\ BackendType # "RW" THEN "down" ELSE st

(* What network_socket_connect() says for a batch of new sockets S, opened *)
(* until the first error; sk holds the sockets before the batch.           *)
ConnectBatch(sk, S, u, failed) ==
    \E result \in [S -> {"success", "retry"}] :
        /\ sock' = [s \in Socks |-> IF s \in S THEN NewSelf(u, FALSE, result[s]) ELSE sk[s]]
        /\ LET up == IF \E s \in S : result[s] = "success" THEN MarkUp ELSE state
           IN  state' = IF failed THEN MarkDown(up) ELSE up

(* network_connection_pool_create_conns: fill the pool up to Mid, at most  *)
(* PerTime connections at a time.  sk and idle are the sockets and the     *)
(* idle counter the caller left behind.                                    *)
network_connection_pool_create_conns(sk, idle) ==
    LET total == idle + connected_clients
        allowed == IF Mid - total > PerTime THEN PerTime ELSE Mid - total
        free == {s \in Socks : sk[s].at = "closed"}
    IN  IF state \notin Serving \/ allowed <= 0
        THEN /\ sock' = sk
             /\ need_to_create' = FALSE
             /\ UNCHANGED <<connected_clients, state>>
        ELSE \E S \in SUBSET free, failed \in BOOLEAN :
                /\ IF failed THEN Cardinality(S) < allowed ELSE Cardinality(S) = allowed
                /\ ConnectBatch(sk, S, DefaultUser, failed)
                /\ connected_clients' = connected_clients + Cardinality(S)
                /\ need_to_create' = TRUE

(* check_and_create_conns_func, the 10 s timer: a pending refresh closes   *)
(* the idle sockets of a serving backend, and then the pool is filled if a *)
(* flag asks for it.                                                       *)
check_and_create_conns_func ==
    LET closing == need_to_refresh /\ state \in Serving
        kept == IF closing THEN [s \in Socks |-> IF s \in Idle THEN Closed ELSE sock[s]] ELSE sock
        idle == IF closing THEN cur_idle - Cardinality(Idle) ELSE cur_idle
        needed == need_to_create \/ need_to_refresh
    IN  /\ queue' = IF closing THEN [u \in Users |-> <<>>] ELSE queue
        /\ cur_idle' = idle
        /\ refresh_time' = IF need_to_refresh THEN now ELSE refresh_time
        /\ need_to_refresh' = FALSE
        /\ IF ~maintain /\ (needed \/ complement)
           THEN /\ network_connection_pool_create_conns(kept, idle)
                /\ complement' = (needed /\ complement)
           ELSE /\ sock' = kept
                /\ need_to_create' = needed
                /\ UNCHANGED <<connected_clients, state, complement>>
        /\ UNCHANGED <<last_check_time, maintain, now, kills>>

(* network_connection_pool_total_conns_count: the links of all queues.     *)
network_connection_pool_total_conns_count ==
    Cardinality(UNION {{u} \X (1..Len(queue[u])) : u \in Users})

CreateConnVerdict_wrong(total, shortaged) ==
    /\ total <= Max
    /\ total >= Mid => total - connected_clients <= connected_clients /\ shortaged

(* Whether network_connection_pool_create_conn opens a connection to this  *)
(* backend for a waiting client, given the client's *_conn_shortaged flag. *)
CreateConnVerdict(total, shortaged) ==
    /\ total < Max
    /\ total >= Mid => total - connected_clients <= connected_clients /\ shortaged

(* network_connection_pool_create_conn: at most one attempt per second is  *)
(* made while the backend's state is unknown, none for the rest of the     *)
(* second after the limit was met.                                         *)
network_connection_pool_create_conn(u, shortaged) ==
    LET pooled == network_connection_pool_total_conns_count
        total == pooled + connected_clients
    IN  /\ ~maintain
        /\ state \in Serving
        /\ last_check_time # now
        /\ last_check_time' = IF state = "unknown" \/ total >= Max THEN now ELSE last_check_time
        /\ cur_idle' = pooled
        /\ IF CreateConnVerdict(total, shortaged)
           THEN \/ /\ \E s \in FreeIds : ConnectBatch(sock, {s}, u, FALSE)
                   /\ connected_clients' = connected_clients + 1
                \/ state' = MarkDown(state) /\ UNCHANGED <<sock, connected_clients>>
           ELSE UNCHANGED <<sock, connected_clients, state>>
        /\ UNCHANGED <<queue, flags, now, kills>>

(* "kill query" on a session that holds socket s: a connection of its own, *)
(* whatever the size of the pool.                                          *)
network_connection_pool_create_conn_and_kill_query(s) ==
    /\ kills + Cardinality({k \in Socks : sock[k].kill}) < MaxKills
    /\ sock[s].at = "lent"
    /\ \E k \in FreeIds, result \in {"success", "retry"} :
         sock' = [sock EXCEPT ![k] = NewSelf(sock[s].user, TRUE, result)]
    /\ connected_clients' = connected_clients + 1
    /\ UNCHANGED <<queue, cur_idle, state, last_check_time, flags, now, kills>>

(* network_mysqld_self_con_handle, one event at a time.                     *)

(* ST_ASYNC_ERROR, or the server closed the socket (process_self_event).   *)
SelfError(s) ==
    /\ sock[s].at \in SelfPhases
    /\ connected_clients' = connected_clients - 1
    /\ state' = IF sock[s].at = "conn" THEN MarkDown(state) ELSE state
    /\ CloseSock(s)
    /\ UNCHANGED <<last_check_time, flags, now, kills>>

(* ST_ASYNC_CONN: the connect finished; the handshake is waited for with a *)
(* 3 s timer.                                                              *)
SelfConnected(s) ==
    /\ sock[s].at = "conn"
    /\ sock' = [sock EXCEPT ![s].at = "handshake", ![s].tries = 1]
    /\ state' = MarkUp
    /\ UNCHANGED <<queue, cur_idle, connected_clients, last_check_time, flags, now, kills>>

(* The handshake arrived: ST_ASYNC_SEND_AUTH, and the wait for its result, *)
(* unless the tries are used up (process_self_server_read).                *)
proxy_self_read_handshake(s) ==
    /\ sock[s].at = "handshake"
    /\ sock[s].kill \/ sock[s].tries + 1 < MaxTries
    /\ sock' = [sock EXCEPT ![s].at = "auth", ![s].tries = IF sock[s].kill THEN 1 ELSE @ + 1]
    /\ UNCHANGED <<queue, cur_idle, connected_clients, state, last_check_time, flags, now, kills>>

SelfReadTimeout_wrong(s) ==
    /\ sock[s].at \in {"handshake", "auth", "query"} /\ sock[s].tries > 0 /\ ~sock[s].kill
    /\ IF sock[s].tries >= MaxTries
       THEN connected_clients' = connected_clients - 1 /\ CloseSock(s)
       ELSE UNCHANGED <<sock, queue, cur_idle, connected_clients>>
    /\ UNCHANGED <<state, last_check_time, flags, now, kills>>

(* The 3 s timer of a read fired: wait again, or give up after MaxTries.   *)
(* A connection that asks to kill a query never gives up, and one whose    *)
(* connect() succeeded at once waits for its handshake without a timer.    *)
SelfReadTimeout(s) ==
    /\ sock[s].at \in {"handshake", "auth", "query"} /\ sock[s].tries > 0 /\ ~sock[s].kill
    /\ IF sock[s].tries + 1 >= MaxTries
       THEN connected_clients' = connected_clients - 1 /\ CloseSock(s)
       ELSE /\ sock' = [sock EXCEPT ![s].tries = @ + 1]
            /\ UNCHANGED <<queue, cur_idle, connected_clients>>
    /\ UNCHANGED <<state, last_check_time, flags, now, kills>>

(* OK to the authentication.                                               *)
process_self_read_auth_result(s) ==
    /\ sock[s].at = "auth"
    /\ connected_clients' = connected_clients - 1
    /\ IF sock[s].kill
       THEN /\ sock' = [sock EXCEPT ![s].at = "query"]
            /\ kills' = kills + 1
            /\ UNCHANGED <<queue, cur_idle, complement>>
       ELSE AddOrRetire(s) /\ UNCHANGED kills
    /\ UNCHANGED <<state, last_check_time, need_to_create, need_to_refresh, refresh_time,
                   maintain, now>>

(* The answer to KILL QUERY: ST_ASYNC_OVER or ST_ASYNC_ERROR.              *)
process_self_read_query_result(s) ==
    /\ sock[s].at = "query"
    /\ connected_clients' = connected_clients - 1
    /\ CloseSock(s)
    /\ UNCHANGED <<state, last_check_time, flags, now, kills>>

-----------------------------------------------------------------------------
(* The backend's state, the administrator and the clock.                    *)

(* network_backends_modify, called by the monitor thread and by            *)
(* administrators.                                                         *)
network_backends_modify(new) ==
    /\ state # new
    /\ state' = new
    /\ need_to_create' = (need_to_create \/ new \in Serving)
    /\ UNCHANGED <<queue, cur_idle, connected_clients, sock, last_check_time, complement,
                   need_to_refresh, refresh_time, maintain, now, kills>>

(* network_backends_check: without the monitor thread, a connecting client *)
(* wakes up a backend that has been down for 4 s.                          *)
network_backends_check ==
    /\ DisableThreads /\ state = "down"
    /\ state' = "unknown"
    /\ UNCHANGED <<queue, cur_idle, connected_clients, sock, last_check_time, flags, now, kills>>

admin_set_server_conn_refresh ==
    /\ need_to_refresh' = TRUE
    /\ UNCHANGED <<queue, cur_idle, connected_clients, sock, state, last_check_time,
                   need_to_create, complement, refresh_time, maintain, now, kills>>

admin_set_maintain ==
    /\ maintain' = ~maintain
    /\ UNCHANGED <<queue, cur_idle, connected_clients, sock, state, last_check_time,
                   need_to_create, complement, need_to_refresh, refresh_time, now, kills>>

update_time_func ==
    /\ now < MaxTime
    /\ now' = now + 1
    /\ UNCHANGED <<queue, cur_idle, connected_clients, sock, state, last_check_time, flags, kills>>

Next ==
    \/ \E u \in Users : network_connection_pool_get(u)
    \/ \E s \in Socks, u \in Users : ChangeUser(s, u)
    \/ \E s \in Socks : network_pool_add_conn(s)
    \/ \E s \in Socks : CloseLent(s)
    \/ \E s \in Socks : network_mysqld_con_idle_handle(s)
    \/ check_and_create_conns_func
    \/ \E u \in Users, b \in BOOLEAN : network_connection_pool_create_conn(u, b)
    \/ \E s \in Socks : network_connection_pool_create_conn_and_kill_query(s)
    \/ \E s \in Socks : SelfError(s)
    \/ \E s \in Socks : SelfConnected(s)
    \/ \E s \in Socks : proxy_self_read_handshake(s)
    \/ \E s \in Socks : SelfReadTimeout(s)
    \/ \E s \in Socks : process_self_read_auth_result(s)
    \/ \E s \in Socks : process_self_read_query_result(s)
    \/ \E new \in States : network_backends_modify(new)
    \/ network_backends_check
    \/ admin_set_server_conn_refresh
    \/ admin_set_maintain
    \/ update_time_func

Spec == Init /\ [][Next]_vars

(* What the code's timers guarantee: a connection being opened has a       *)
(* connect timer (60 s or 3 s) and then 3 s read timers.  Nothing is       *)
(* assumed of the servers.                                                 *)
SelfTimer(s) == (sock[s].at = "conn" /\ SelfError(s)) \/ SelfReadTimeout(s)

LiveSpec == Spec /\ \A s \in Socks : WF_vars(SelfTimer(s))

(* With the 10 s timer running, and servers that answer whatever they are  *)
(* sent unless they close the connection.                                  *)
SelfProgress(s) ==
    SelfConnected(s) \/ proxy_self_read_handshake(s) \/ process_self_read_auth_result(s)

FillSpec ==
    LiveSpec /\ WF_vars(check_and_create_conns_func) /\ \A s \in Socks : WF_vars(SelfProgress(s))

-----------------------------------------------------------------------------
(* Properties.                                                              *)

SockType == [at : Phases, user : Users, kill : BOOLEAN, born : Nat, tries : Nat]

(* Types of the variables.                                                 *)
TypeOK ==
    /\ queue \in [Users -> Seq(Socks)]
    /\ cur_idle \in Nat
    /\ connected_clients \in Int
    /\ sock \in [Socks -> SockType]
    /\ state \in States
    /\ need_to_create \in BOOLEAN /\ complement \in BOOLEAN
    /\ need_to_refresh \in BOOLEAN /\ maintain \in BOOLEAN
    /\ refresh_time \in Nat /\ last_check_time \in Int /\ now \in Nat /\ kills \in Nat

(* Sequence q holds every member of S once, and nothing else.              *)
Lists(q, S) ==
    /\ \A i \in 1..Len(q) : q[i] \in S
    /\ \A i, j \in 1..Len(q) : q[i] = q[j] => i = j
    /\ \A s \in S : \E i \in 1..Len(q) : q[i] = s

(* A socket that waits idle is in exactly one queue, once, that of the     *)
(* user it is authenticated as, and nothing else is in the queues: the     *)
(* same connection is never handed to two sessions, nor to a session while *)
(* its idle handler is armed (network_connection_pool_add, _get, _remove). *)
QueuesExact == \A u \in Users : Lists(queue[u], {s \in Idle : sock[s].user = u})

(* cur_idle_connections is the number of idle sockets, so the repair in    *)
(* network_connection_pool_total_conns_count never has anything to repair. *)
IdleCounted == cur_idle = Cardinality(Idle)

(* connected_clients is the number of sockets lent or being opened, less   *)
(* one for every "kill query" connection that has authenticated: such a    *)
(* connection is subtracted when it authenticates and again at its end.    *)
UsedCounted == connected_clients + kills = Cardinality(InUse)

(* A worker keeps at most max-pool-size connections to a backend, besides  *)
(* those that kill queries and as many as these made it lose count of:     *)
(* every path that opens one counts the idle, the lent and those being     *)
(* opened.                                                                 *)
ConnLimit == Cardinality({s \in Open : ~sock[s].kill}) <= Max + kills

(* The pool is consistent after every callback: the queues are exact, so   *)
(* the counters are, so the limit is kept. None of these is inductive      *)
(* alone.                                                                  *)
PoolInv == TypeOK /\ QueuesExact /\ IdleCounted /\ UsedCounted /\ ConnLimit

(* A connection the proxy opens for the pool, and whose connect() is       *)
(* pending, does not stay half open for ever, even if the server never     *)
(* answers: from there on every state of network_mysqld_self_con_handle    *)
(* waits with a timer and gives up after MAX_TRY_NUM tries.                *)
SelfConEnds ==
    \A s \in Socks :
        (sock[s].at = "conn" /\ ~sock[s].kill) ~> (sock[s].at \in {"idle", "closed", "lent"})

(* The backend is up and has fewer than default-pool-size connections.     *)
Short == state = "up" /\ ~maintain /\ Cardinality(Open) < Mid

(* A backend that is short of connections gets new ones by itself, from    *)
(* check_and_create_conns_func: "when there are fewer connections than     *)
(* this, connections are created automatically"                            *)
(* (doc/cetus-configuration.md:195).                                       *)
Refilled == Short ~> ~Short
=============================================================================
