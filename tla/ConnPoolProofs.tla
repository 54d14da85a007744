--------------------------- MODULE ConnPoolProofs ---------------------------
(***************************************************************************)
(* The safety properties of ConnPool hold for every set of sockets and     *)
(* users and every size of the pool.  PoolInv is inductive as it stands:   *)
(* the queues are exact, so the two counters are, so the limit is kept.    *)
(***************************************************************************)
EXTENDS ConnPoolLemmas

-----------------------------------------------------------------------------
(* The actions.                                                             *)

Rest ==
    /\ state \in States
    /\ need_to_create \in BOOLEAN /\ complement \in BOOLEAN
    /\ need_to_refresh \in BOOLEAN /\ maintain \in BOOLEAN
    /\ refresh_time \in Nat /\ last_check_time \in Int /\ now \in Nat

(* PoolInv is the core and the types of the other variables.               *)
LEMMA Parts == (PoolInv <=> Core /\ Rest) /\ (PoolInv' <=> Core' /\ Rest')
  BY DEF PoolInv, TypeOK, Core, Rest, PoolType

(* Steps that touch neither sockets nor counters.                          *)
LEMMA CoreSame ==
  ASSUME Core, UNCHANGED <<queue, cur_idle, connected_clients, sock, kills>>
  PROVE  Core'
  BY ZenonT(40) DEF Core, PoolType, QueuesExact, IdleCounted, UsedCounted, ConnLimit, Idle, InUse, Open

(* What a connect() leaves in backend->state.                              *)
LEMMA MarkTypes ==
  ASSUME state \in States PROVE MarkUp \in States /\ \A st \in States : MarkDown(st) \in States
  BY DEF MarkUp, MarkDown, States

(* A client session takes a socket (network_connection_pool_get).          *)
LEMMA get_Inv ==
  ASSUME PoolInv, NEW u \in Users, network_connection_pool_get(u) PROVE PoolInv'
<1>1. Core /\ Rest
  BY Parts
<1>2. PICK v \in GetConns(u) : /\ sock' = [sock EXCEPT ![Head(queue[v])].at = "lent"]
                               /\ queue' = [queue EXCEPT ![v] = Tail(@)]
  BY ZenonT(40) DEF network_connection_pool_get
<1>3. v \in Users /\ Len(queue[v]) > 0
  BY <1>1, <1>2, PoolAssumption, SMTT(40) DEF GetConns, Core, PoolType
<1>4. Core'
  BY <1>1, <1>2, <1>3, CoreLend, ZenonT(40) DEF network_connection_pool_get
<1>5. Rest'
  BY <1>1 DEF Rest, network_connection_pool_get, flags
<1> QED
  BY <1>4, <1>5, Parts

(* The two ends of a return.                                               *)
LEMMA AddOrRetireCore ==
  ASSUME Core, complement \in BOOLEAN, NEW s \in InUse, AddOrRetire(s),
         connected_clients' = connected_clients - 1, kills' = kills
  PROVE  Core' /\ complement' \in BOOLEAN
<1>1. CASE refresh_time <= sock[s].born
  BY <1>1, CoreAdd DEF AddOrRetire
<1>2. CASE ~(refresh_time <= sock[s].born)
  BY <1>2, CoreClose DEF AddOrRetire
<1> QED
  BY <1>1, <1>2

(* A session gives its socket back (network_pool_add_conn).                *)
LEMMA add_conn_Inv ==
  ASSUME PoolInv, NEW s \in Socks, network_pool_add_conn(s) PROVE PoolInv'
<1>1. Core /\ Rest
  BY Parts
<1>2. s \in InUse
  BY DEF network_pool_add_conn, InUse
<1>3. Core' /\ complement' \in BOOLEAN
  BY <1>1, <1>2, CoreClose, AddOrRetireCore DEF network_pool_add_conn, Rest
<1>4. Rest'
  BY <1>1, <1>3 DEF Rest, network_pool_add_conn
<1> QED
  BY <1>3, <1>4, Parts

(* A session closes its socket.                                            *)
LEMMA CloseLent_Inv ==
  ASSUME PoolInv, NEW s \in Socks, CloseLent(s) PROVE PoolInv'
<1>1. Core /\ Rest
  BY Parts
<1>2. s \in InUse
  BY DEF CloseLent, InUse
<1>3. Core'
  BY <1>1, <1>2, CoreClose DEF CloseLent
<1>4. Rest'
  BY <1>1, ZenonT(40) DEF Rest, CloseLent
<1> QED
  BY <1>3, <1>4, Parts

(* An idle socket goes (network_mysqld_con_idle_handle).                   *)
LEMMA idle_handle_Inv ==
  ASSUME PoolInv, NEW s \in Socks, network_mysqld_con_idle_handle(s) PROVE PoolInv'
<1>1. Core /\ Rest
  BY Parts
<1>2. s \in Idle
  BY DEF network_mysqld_con_idle_handle, Idle
<1>3. Core'
  BY <1>1, <1>2, CoreRemove DEF network_mysqld_con_idle_handle
<1>4. Rest'
  BY <1>1 DEF Rest, network_mysqld_con_idle_handle
<1> QED
  BY <1>3, <1>4, Parts

(* A robbed socket changes its user.                                       *)
LEMMA ChangeUser_Inv ==
  ASSUME PoolInv, NEW s \in Socks, NEW u \in Users, ChangeUser(s, u) PROVE PoolInv'
<1>1. Core /\ Rest
  BY Parts
<1>2. s \in InUse
  BY DEF ChangeUser, InUse
<1> DEFINE r == [sock[s] EXCEPT !.user = u]
<1>3. /\ r \in SockType /\ r.at \in UsePhases /\ r.kill = sock[s].kill
      /\ sock' = [sock EXCEPT ![s] = r]
  BY <1>1, ZenonT(40) DEF ChangeUser, Core, PoolType, SockType, UsePhases
<1> HIDE DEF r
<1>4. Core'
  BY <1>1, <1>2, <1>3, CoreStay, ZenonT(40) DEF ChangeUser
<1>5. Rest'
  BY <1>1, SMTT(40) DEF Rest, ChangeUser, flags
<1> QED
  BY <1>4, <1>5, Parts

(* A connection of the proxy's own fails (ST_ASYNC_ERROR).                 *)
LEMMA SelfError_Inv ==
  ASSUME PoolInv, NEW s \in Socks, SelfError(s) PROVE PoolInv'
<1>1. Core /\ Rest
  BY Parts
<1>2. s \in InUse
  BY DEF SelfError, InUse
<1>3. Core'
  BY <1>1, <1>2, CoreClose DEF SelfError
<1>4. Rest'
  BY <1>1, MarkTypes, SMTT(40) DEF Rest, SelfError, flags
<1> QED
  BY <1>3, <1>4, Parts

(* Its connect() succeeds (ST_ASYNC_CONN).                                 *)
LEMMA SelfConnected_Inv ==
  ASSUME PoolInv, NEW s \in Socks, SelfConnected(s) PROVE PoolInv'
<1>1. Core /\ Rest
  BY Parts
<1>2. s \in InUse
  BY DEF SelfConnected, InUse, SelfPhases
<1> DEFINE r == [sock[s] EXCEPT !.at = "handshake", !.tries = 1]
<1>3. /\ r \in SockType /\ r.at \in UsePhases /\ r.kill = sock[s].kill
      /\ sock' = [sock EXCEPT ![s] = r]
  BY <1>1, ZenonT(40) DEF SelfConnected, Core, PoolType, SockType, UsePhases, Phases, SelfPhases
<1> HIDE DEF r
<1>4. Core'
  BY <1>1, <1>2, <1>3, CoreStay, ZenonT(40) DEF SelfConnected
<1>5. Rest'
  BY <1>1, MarkTypes, SMTT(40) DEF Rest, SelfConnected, flags
<1> QED
  BY <1>4, <1>5, Parts

(* Its handshake arrives (proxy_self_read_handshake).                      *)
LEMMA handshake_Inv ==
  ASSUME PoolInv, NEW s \in Socks, proxy_self_read_handshake(s) PROVE PoolInv'
<1>1. Core /\ Rest
  BY Parts
<1>2. s \in InUse
  BY DEF proxy_self_read_handshake, InUse, SelfPhases
<1> DEFINE n == IF sock[s].kill THEN 1 ELSE sock[s].tries + 1
           r == [sock[s] EXCEPT !.at = "auth", !.tries = n]
<1>3. n \in Nat
  BY <1>1 DEF Core, PoolType, SockType
<1>4. sock' = [sock EXCEPT ![s] = r]
  BY <1>1, ZenonT(40) DEF proxy_self_read_handshake, Core, PoolType, SockType
<1> HIDE DEF n
<1>5. r \in SockType /\ r.at \in UsePhases /\ r.kill = sock[s].kill
  BY <1>1, <1>3, ZenonT(40) DEF Core, PoolType, SockType, UsePhases, Phases, SelfPhases
<1> HIDE DEF r
<1>6. Core'
  BY <1>1, <1>2, <1>4, <1>5, CoreStay, ZenonT(40) DEF proxy_self_read_handshake
<1>7. Rest'
  BY <1>1 DEF Rest, proxy_self_read_handshake, flags
<1> QED
  BY <1>6, <1>7, Parts

(* A read timer fires (process_self_server_read).                          *)
LEMMA SelfReadTimeout_Inv ==
  ASSUME PoolInv, NEW s \in Socks, SelfReadTimeout(s) PROVE PoolInv'
<1>1. Core /\ Rest
  BY Parts
<1>2. s \in InUse /\ sock[s].at \in UsePhases
  BY DEF SelfReadTimeout, InUse, SelfPhases, UsePhases
<1>3. Core'
  <2>1. CASE sock[s].tries + 1 >= MaxTries
    BY <1>1, <1>2, <2>1, CoreClose DEF SelfReadTimeout
  <2>2. CASE ~(sock[s].tries + 1 >= MaxTries)
    <3> DEFINE n == sock[s].tries + 1
               r == [sock[s] EXCEPT !.tries = n]
    <3>0. sock[s] \in SockType /\ n \in Nat
      BY <1>1 DEF Core, PoolType, SockType
    <3>1. r \in SockType /\ r.at = sock[s].at /\ r.kill = sock[s].kill
      <4> HIDE DEF n
      <4> QED
        BY <3>0 DEF SockType
    <3>2. sock' = [sock EXCEPT ![s] = r]
      BY <1>1, <2>2 DEF SelfReadTimeout, Core, PoolType, SockType
    <3> HIDE DEF r
    <3> QED
      BY <1>1, <1>2, <2>2, <3>1, <3>2, CoreStay, ZenonT(40) DEF SelfReadTimeout
  <2> QED
    BY <2>1, <2>2
<1>4. Rest'
  BY <1>1, SMTT(40) DEF Rest, SelfReadTimeout, flags
<1> QED
  BY <1>3, <1>4, Parts

(* Its authentication succeeds (process_self_read_auth_result).            *)
LEMMA auth_result_Inv ==
  ASSUME PoolInv, NEW s \in Socks, process_self_read_auth_result(s) PROVE PoolInv'
<1>1. Core /\ Rest
  BY Parts
<1>2. s \in InUse
  BY DEF process_self_read_auth_result, InUse, SelfPhases
<1>3. Core' /\ complement' \in BOOLEAN
  <2>1. CASE ~sock[s].kill
    BY <1>1, <1>2, <2>1, AddOrRetireCore DEF process_self_read_auth_result, Rest
  <2>2. CASE sock[s].kill
    <3> DEFINE r == [sock[s] EXCEPT !.at = "query"]
    <3>1. /\ r \in SockType /\ r.at \in UsePhases /\ r.kill = sock[s].kill
      BY <1>1, ZenonT(40) DEF Core, PoolType, SockType, UsePhases, Phases, SelfPhases
    <3>2. sock' = [sock EXCEPT ![s] = r]
      BY <1>1, <2>2 DEF process_self_read_auth_result, Core, PoolType
    <3>3. /\ queue' = queue /\ cur_idle' = cur_idle /\ connected_clients' \in Int /\ kills' \in Nat
          /\ kills' >= kills /\ connected_clients' + kills' = connected_clients + kills
          /\ complement' = complement
      BY <1>1, <2>2 DEF process_self_read_auth_result, Core
    <3> HIDE DEF r
    <3> QED
      BY <1>1, <1>2, <3>1, <3>2, <3>3, CoreMove, ZenonT(40) DEF Rest
  <2> QED
    BY <2>1, <2>2
<1>4. Rest'
  BY <1>1, <1>3, SMTT(40) DEF Rest, process_self_read_auth_result
<1> QED
  BY <1>3, <1>4, Parts

(* The answer to KILL QUERY (process_self_read_query_result).              *)
LEMMA query_result_Inv ==
  ASSUME PoolInv, NEW s \in Socks, process_self_read_query_result(s) PROVE PoolInv'
<1>1. Core /\ Rest
  BY Parts
<1>2. s \in InUse
  BY DEF process_self_read_query_result, InUse, SelfPhases
<1>3. Core'
  BY <1>1, <1>2, CoreClose DEF process_self_read_query_result
<1>4. Rest'
  BY <1>1 DEF Rest, process_self_read_query_result, flags
<1> QED
  BY <1>3, <1>4, Parts

(* A socket just opened by the proxy.                                      *)
LEMMA NewSelfType ==
  ASSUME Rest, NEW u \in Users, NEW kill \in BOOLEAN, NEW result
  PROVE  /\ NewSelf(u, kill, result) \in SockType /\ NewSelf(u, kill, result).kill = kill
         /\ NewSelf(u, kill, result).at \in SelfPhases
  BY DEF NewSelf, Rest, SockType, Phases, SelfPhases

(* "kill query" opens a connection.                                        *)
LEMMA kill_query_Inv ==
  ASSUME PoolInv, NEW s \in Socks, network_connection_pool_create_conn_and_kill_query(s)
  PROVE  PoolInv'
<1>1. Core /\ Rest
  BY Parts
<1>2. PICK k \in FreeIds, result \in {"success", "retry"} :
        sock' = [sock EXCEPT ![k] = NewSelf(sock[s].user, TRUE, result)]
  BY ZenonT(40) DEF network_connection_pool_create_conn_and_kill_query
<1> DEFINE r == NewSelf(sock[s].user, TRUE, result)
<1>3. r \in SockType /\ r.at \in UsePhases /\ r.kill
  <2>1. sock[s].user \in Users
    BY <1>1 DEF Core, PoolType, SockType
  <2> QED
    BY <1>1, <2>1, NewSelfType, ZenonT(40) DEF UsePhases
<1> HIDE DEF r
<1>4. sock' = [sock EXCEPT ![k] = r]
  BY <1>2 DEF r
<1>5. Core'
  BY <1>1, <1>2, <1>3, <1>4, CoreOpenKill, ZenonT(40) DEF network_connection_pool_create_conn_and_kill_query
<1>6. Rest'
  BY <1>1 DEF Rest, network_connection_pool_create_conn_and_kill_query, flags
<1> QED
  BY <1>5, <1>6, Parts, SMTT(40)

(* A batch of connections: the sockets and the state afterwards.           *)
LEMMA BatchFacts ==
  ASSUME Rest, NEW K \in [Socks -> SockType], NEW S \in SUBSET Socks, NEW u \in Users,
         NEW failed \in BOOLEAN, ConnectBatch(K, S, u, failed)
  PROVE  /\ sock' \in [Socks -> SockType] /\ \A s \in S : sock'[s].at \in SelfPhases
         /\ \A s \in Socks \ S : sock'[s] = K[s]
         /\ state' \in States
<1>1. PICK result \in [S -> {"success", "retry"}] :
        /\ sock' = [s \in Socks |-> IF s \in S THEN NewSelf(u, FALSE, result[s]) ELSE K[s]]
        /\ \E up \in {MarkUp, state} : state' = IF failed THEN MarkDown(up) ELSE up
  BY ZenonT(40) DEF ConnectBatch
<1>2. \A s \in S : NewSelf(u, FALSE, result[s]) \in SockType
                    /\ NewSelf(u, FALSE, result[s]).at \in SelfPhases
  BY NewSelfType, ZenonT(40)
<1>3. state' \in States
  BY <1>1, MarkTypes DEF Rest
<1> QED
  BY <1>1, <1>2, <1>3, ZenonT(40)

(* A connection is opened for a waiting client.                            *)
LEMMA create_conn_Inv ==
  ASSUME PoolInv, NEW u \in Users, NEW b \in BOOLEAN, network_connection_pool_create_conn(u, b)
  PROVE  PoolInv'
<1>1. Core /\ Rest
  BY Parts
<1> DEFINE total == network_connection_pool_total_conns_count + connected_clients
<1>2. /\ network_connection_pool_total_conns_count = cur_idle
      /\ cur_idle' = cur_idle /\ total = cur_idle + connected_clients
  BY <1>1, LinksCounted DEF Core, IdleCounted, network_connection_pool_create_conn
<1>3. UNCHANGED <<queue, kills, flags, now>>
  BY DEF network_connection_pool_create_conn
<1>4. last_check_time' \in Int
  BY <1>1 DEF network_connection_pool_create_conn, Rest
<1> HIDE DEF total
<1>5. Core' /\ state' \in States
  <2>1. CASE UNCHANGED <<sock, connected_clients>> /\ state' \in {state, MarkDown(state)}
    BY <2>1, <1>1, <1>2, <1>3, CoreSame, MarkTypes, SMTT(40) DEF Rest
  <2>2. ASSUME total < Max, NEW s \in FreeIds, ConnectBatch(sock, {s}, u, FALSE),
               connected_clients' = connected_clients + 1
        PROVE  Core' /\ state' \in States
    <3>1. s \in Socks /\ sock[s].at = "closed" /\ Cardinality({s}) = 1
      BY FS_Singleton DEF FreeIds, Open
    <3>2. /\ sock' \in [Socks -> SockType] /\ \A t \in {s} : sock'[t].at \in SelfPhases
          /\ \A t \in Socks \ {s} : sock'[t] = sock[t]
          /\ state' \in States
      BY <1>1, <2>2, <3>1, BatchFacts, ZenonT(40) DEF Core, PoolType
    <3>3. queue' \in [Users -> Seq(Socks)] /\ \A v \in Users : Lists(queue'[v], IdleOf(sock, v))
      BY <1>1, <1>3, ExactNow DEF Core, PoolType
    <3>4. cur_idle' \in Nat /\ cur_idle' = Cardinality({t \in Socks : sock[t].at = "idle"})
      BY <1>1, <1>2 DEF Core, IdleCounted, Idle
    <3>5. cur_idle' + connected_clients + Cardinality({s}) <= Max
      BY <1>1, <1>2, <2>2, <3>1, PoolAssumption, SMTT(40) DEF Core
    <3>6. connected_clients' = connected_clients + Cardinality({s}) /\ kills' = kills
      BY <2>2, <3>1, <1>3
    <3>7. sock \in [Socks -> SockType]
      BY <1>1 DEF Core, PoolType
    <3> DEFINE K == sock
               S == {s}
    <3>8. /\ K \in [Socks -> SockType] /\ S \in SUBSET Socks
          /\ \A t \in Socks : K[t] = sock[t] \/ (K[t] = Closed /\ sock[t].at = "idle")
          /\ \A v \in Users : Lists(queue'[v], IdleOf(K, v))
          /\ cur_idle' = Cardinality({t \in Socks : K[t].at = "idle"})
          /\ \A t \in S : K[t].at = "closed" /\ sock'[t].at \in SelfPhases
          /\ \A t \in Socks \ S : sock'[t] = K[t]
          /\ connected_clients' = connected_clients + Cardinality(S)
          /\ cur_idle' + connected_clients + Cardinality(S) <= Max
      BY <3>1, <3>2, <3>3, <3>4, <3>5, <3>6, <3>7, SMTT(40)
    <3> HIDE DEF K, S
    <3>9. Core'
      BY <1>1, <3>2, <3>3, <3>4, <3>6, <3>8, CoreOpen, ZenonT(40)
    <3> QED
      BY <3>2, <3>9
  <2>3. \/ UNCHANGED <<sock, connected_clients>> /\ state' \in {state, MarkDown(state)}
        \/ /\ total < Max
           /\ \E s \in FreeIds : ConnectBatch(sock, {s}, u, FALSE)
           /\ connected_clients' = connected_clients + 1
    BY ZenonT(40) DEF network_connection_pool_create_conn, CreateConnVerdict, total
  <2> QED
    BY <2>1, <2>2, <2>3, ZenonT(40)
<1>6. Rest'
  BY <1>1, <1>3, <1>4, <1>5 DEF Rest, flags
<1> QED
  BY <1>5, <1>6, Parts

(* The 10 s timer refreshes and fills the pool.                            *)
LEMMA check_and_create_Inv ==
  ASSUME PoolInv, check_and_create_conns_func PROVE PoolInv'
<1>1. Core /\ Rest
  BY Parts
<1> DEFINE closing == need_to_refresh /\ state \in Serving
           K == IF closing THEN [s \in Socks |-> IF s \in Idle THEN Closed ELSE sock[s]] ELSE sock
           idle == IF closing THEN cur_idle - Cardinality(Idle) ELSE cur_idle
           needed == need_to_create \/ need_to_refresh
<1>2. /\ queue' = (IF closing THEN [u \in Users |-> <<>>] ELSE queue)
      /\ cur_idle' = idle
      /\ refresh_time' = (IF need_to_refresh THEN now ELSE refresh_time)
      /\ need_to_refresh' = FALSE
      /\ UNCHANGED <<last_check_time, maintain, now, kills>>
      /\ \/ /\ network_connection_pool_create_conns(K, idle)
            /\ complement' = (needed /\ complement)
         \/ /\ sock' = K /\ need_to_create' = needed
            /\ UNCHANGED <<connected_clients, state, complement>>
  BY DEF check_and_create_conns_func
<1>3. Closed \in SockType /\ Closed.at = "closed"
  BY PoolAssumption DEF Closed, SockType, Phases
<1>4. /\ K \in [Socks -> SockType]
      /\ \A s \in Socks : K[s] = sock[s] \/ (K[s] = Closed /\ sock[s].at = "idle")
  BY <1>1, <1>3, SMTT(40) DEF Core, PoolType, Idle
<1>5. /\ queue' \in [Users -> Seq(Socks)] /\ \A u \in Users : Lists(queue'[u], IdleOf(K, u))
      /\ idle \in Nat /\ idle = Cardinality({s \in Socks : K[s].at = "idle"})
  <2>1. CASE closing
    <3>1. {s \in Socks : K[s].at = "idle"} = {} /\ \A u \in Users : IdleOf(K, u) = {}
      BY <2>1, <1>3 DEF Idle, IdleOf
    <3>2. idle = 0
      BY <2>1, <1>1 DEF Core, IdleCounted
    <3>3. \A u \in Users : queue'[u] = <<>>
      BY <2>1, <1>2
    <3>4. Lists(<<>>, {})
      BY DEF Lists
    <3>5. queue' \in [Users -> Seq(Socks)]
      BY <2>1, <1>2
    <3> HIDE DEF K, idle
    <3> QED
      BY <3>1, <3>2, <3>3, <3>4, <3>5, FS_EmptySet, ZenonT(40)
  <2>2. CASE ~closing
    BY <2>2, <1>1, <1>2, ExactNow, ZenonT(40) DEF Core, PoolType, IdleCounted, Idle
  <2> QED
    BY <2>1, <2>2, SMTT(40)
<1> HIDE DEF K, idle, closing, needed
<1>6. ASSUME NEW S \in SUBSET Socks, \A s \in S : K[s].at = "closed",
             sock' \in [Socks -> SockType], \A s \in S : sock'[s].at \in SelfPhases,
             \A s \in Socks \ S : sock'[s] = K[s],
             connected_clients' = connected_clients + Cardinality(S),
             S = {} \/ idle + connected_clients + Cardinality(S) <= Max
      PROVE  Core'
  BY <1>1, <1>2, <1>4, <1>5, <1>6, CoreOpen, ZenonT(40)
<1>7. ASSUME sock' = K, UNCHANGED connected_clients PROVE Core'
  <2> DEFINE S == {}
  <2>1. /\ S \in SUBSET Socks /\ \A s \in S : K[s].at = "closed" /\ sock'[s].at \in SelfPhases
        /\ sock' \in [Socks -> SockType] /\ \A s \in Socks \ S : sock'[s] = K[s]
    BY <1>4, <1>7
  <2>2. connected_clients' = connected_clients + Cardinality(S)
    BY <1>1, <1>7, FS_EmptySet DEF Core
  <2>3. S = {}
    OBVIOUS
  <2> HIDE DEF S
  <2> QED
    BY <2>1, <2>2, <2>3, <1>6
<1>8. ASSUME network_connection_pool_create_conns(K, idle)
      PROVE  Core' /\ state' \in States /\ need_to_create' \in BOOLEAN
  <2> DEFINE total == idle + connected_clients
             allowed == IF Mid - total > PerTime THEN PerTime ELSE Mid - total
             free == {s \in Socks : K[s].at = "closed"}
  <2>1. CASE state \notin Serving \/ allowed <= 0
    BY <2>1, <1>1, <1>7, <1>8, ZenonT(40) DEF network_connection_pool_create_conns, Rest
  <2>2. CASE ~(state \notin Serving \/ allowed <= 0)
    <3>1. PICK S \in SUBSET free, failed \in BOOLEAN :
            /\ IF failed THEN Cardinality(S) < allowed ELSE Cardinality(S) = allowed
            /\ ConnectBatch(K, S, DefaultUser, failed)
            /\ connected_clients' = connected_clients + Cardinality(S)
            /\ need_to_create' = TRUE
      BY <2>2, <1>8 DEF network_connection_pool_create_conns
    <3>2. S \in SUBSET Socks /\ \A s \in S : K[s].at = "closed"
      OBVIOUS
    <3>3. Cardinality(S) \in Nat
      BY <3>2, PoolAssumption, FS_Subset, FS_CardinalityType, SMTT(40)
    <3>4. idle + connected_clients + Cardinality(S) <= Max
      BY <3>1, <3>3, <1>1, <1>5, PoolAssumption, SMTT(40) DEF Core
    <3>5. /\ sock' \in [Socks -> SockType] /\ \A s \in S : sock'[s].at \in SelfPhases
          /\ \A s \in Socks \ S : sock'[s] = K[s]
          /\ state' \in States
      BY <1>1, <1>4, <3>1, <3>2, PoolAssumption, BatchFacts, ZenonT(40)
    <3> QED
      BY <3>1, <3>2, <3>4, <3>5, <1>6, SMTT(40)
  <2> QED
    BY <2>1, <2>2, SMTT(40)
<1>9. Core' /\ state' \in States /\ need_to_create' \in BOOLEAN /\ complement' \in BOOLEAN
  BY <1>1, <1>2, <1>7, <1>8, SMTT(40) DEF Rest, needed
<1>10. Rest'
  BY <1>1, <1>2, <1>9, ZenonT(40) DEF Rest
<1> QED
  BY <1>9, <1>10, Parts

(* The steps of the backend's state, the administrator and the clock.      *)
LEMMA OtherSteps_Inv ==
  ASSUME PoolInv,
         \/ \E new \in States : network_backends_modify(new)
         \/ network_backends_check \/ admin_set_server_conn_refresh
         \/ admin_set_maintain \/ update_time_func \/ UNCHANGED vars
  PROVE  PoolInv'
<1>1. Core /\ Rest
  BY Parts
<1>2. UNCHANGED <<queue, cur_idle, connected_clients, sock, kills>>
  BY DEF network_backends_modify, network_backends_check, admin_set_server_conn_refresh,
         admin_set_maintain, update_time_func, vars
<1>3. Core'
  BY <1>1, <1>2, CoreSame
<1>4. Rest'
  <2>1. ASSUME NEW new \in States, network_backends_modify(new) PROVE Rest'
    BY <1>1, <2>1 DEF Rest, network_backends_modify
  <2>2. CASE network_backends_check
    BY <1>1, <2>2 DEF Rest, network_backends_check, flags, States
  <2>3. CASE admin_set_server_conn_refresh
    BY <1>1, <2>3, SMTT(40) DEF Rest, admin_set_server_conn_refresh
  <2>4. CASE admin_set_maintain
    BY <1>1, <2>4, SMTT(40) DEF Rest, admin_set_maintain
  <2>5. CASE update_time_func
    BY <1>1, <2>5, SMTT(40) DEF Rest, update_time_func, flags
  <2>6. CASE UNCHANGED vars
    BY <1>1, <2>6 DEF Rest, vars, flags
  <2> QED
    BY <2>1, <2>2, <2>3, <2>4, <2>5, <2>6, SMTT(40)
<1> QED
  BY <1>3, <1>4, Parts

(* The empty pool.                                                         *)
LEMMA InitPoolInv == Init => PoolInv
<1> SUFFICES ASSUME Init PROVE PoolInv
  OBVIOUS
<1>1. Closed \in SockType /\ Closed.at = "closed"
  BY PoolAssumption DEF Closed, SockType, Phases
<1>2. PoolType
  BY <1>1 DEF Init, PoolType
<1>3. Idle = {} /\ InUse = {} /\ Open = {} /\ {s \in Open : ~sock[s].kill} = {}
  BY <1>1 DEF Init, Idle, InUse, Open, SelfPhases
<1>4. IdleCounted /\ UsedCounted /\ ConnLimit
  BY <1>3, FS_EmptySet, PoolAssumption, SMTT(40) DEF Init, IdleCounted, UsedCounted, ConnLimit
<1>5. QueuesExact
  BY <1>3 DEF QueuesExact, Lists, Init
<1>6. Core
  BY <1>2, <1>4, <1>5, SMTT(40) DEF Core, Init
<1>7. Rest
  <2>1. /\ need_to_create \in BOOLEAN /\ complement \in BOOLEAN
        /\ need_to_refresh \in BOOLEAN /\ maintain \in BOOLEAN /\ state \in States
    BY ZenonT(40) DEF Init, States
  <2>2. refresh_time \in Nat /\ last_check_time \in Int /\ now \in Nat
    BY DEF Init
  <2> QED
    BY <2>1, <2>2 DEF Rest
<1> QED
  BY <1>6, <1>7, Parts

(* Every action keeps PoolInv.                                             *)
LEMMA NextPoolInv == PoolInv /\ [Next]_vars => PoolInv'
<1> SUFFICES ASSUME PoolInv, [Next]_vars PROVE PoolInv'
  OBVIOUS
<1>1. ASSUME NEW u \in Users, network_connection_pool_get(u) PROVE PoolInv'
  BY <1>1, get_Inv
<1>2. ASSUME NEW s \in Socks, NEW u \in Users, ChangeUser(s, u) PROVE PoolInv'
  BY <1>2, ChangeUser_Inv, SMTT(40)
<1>3. ASSUME NEW s \in Socks, network_pool_add_conn(s) PROVE PoolInv'
  BY <1>3, add_conn_Inv
<1>4. ASSUME NEW s \in Socks, CloseLent(s) PROVE PoolInv'
  BY <1>4, CloseLent_Inv
<1>5. ASSUME NEW s \in Socks, network_mysqld_con_idle_handle(s) PROVE PoolInv'
  BY <1>5, idle_handle_Inv
<1>6. CASE check_and_create_conns_func
  BY <1>6, check_and_create_Inv
<1>7. ASSUME NEW u \in Users, NEW b \in BOOLEAN, network_connection_pool_create_conn(u, b)
      PROVE  PoolInv'
  BY <1>7, create_conn_Inv, SMTT(40)
<1>8. ASSUME NEW s \in Socks, network_connection_pool_create_conn_and_kill_query(s) PROVE PoolInv'
  BY <1>8, kill_query_Inv
<1>9. ASSUME NEW s \in Socks, SelfError(s) PROVE PoolInv'
  BY <1>9, SelfError_Inv
<1>10. ASSUME NEW s \in Socks, SelfConnected(s) PROVE PoolInv'
  BY <1>10, SelfConnected_Inv
<1>11. ASSUME NEW s \in Socks, proxy_self_read_handshake(s) PROVE PoolInv'
  BY <1>11, handshake_Inv
<1>12. ASSUME NEW s \in Socks, SelfReadTimeout(s) PROVE PoolInv'
  BY <1>12, SelfReadTimeout_Inv
<1>13. ASSUME NEW s \in Socks, process_self_read_auth_result(s) PROVE PoolInv'
  BY <1>13, auth_result_Inv
<1>14. ASSUME NEW s \in Socks, process_self_read_query_result(s) PROVE PoolInv'
  BY <1>14, query_result_Inv
<1>15. CASE \/ \E new \in States : network_backends_modify(new)
            \/ network_backends_check \/ admin_set_server_conn_refresh
            \/ admin_set_maintain \/ update_time_func \/ UNCHANGED vars
  BY <1>15, OtherSteps_Inv
<1> QED
  BY <1>1, <1>2, <1>3, <1>4, <1>5, <1>6, <1>7, <1>8, <1>9, <1>10, <1>11, <1>12, <1>13, <1>14,
     <1>15, SMTT(40) DEF Next

(* The invariant holds in every reachable state.                           *)
THEOREM PoolInvAlways == Spec => []PoolInv
  BY InitPoolInv, NextPoolInv, PTL DEF Spec

(* For every number of sockets and users: the idle queues list exactly the *)
(* idle sockets, each once and under its own user, so that no socket is    *)
(* lent twice.                                                             *)
THEOREM QueuesExactAlways == Spec => []QueuesExact
<1>1. PoolInv => QueuesExact
  BY DEF PoolInv
<1> QED
  BY <1>1, PoolInvAlways, PTL

(* cur_idle_connections is always the number of idle sockets.              *)
THEOREM IdleCountedAlways == Spec => []IdleCounted
<1>1. PoolInv => IdleCounted
  BY DEF PoolInv
<1> QED
  BY <1>1, PoolInvAlways, PTL

(* connected_clients is the number of sockets in use, less one for each    *)
(* "kill query" connection that authenticated.                             *)
THEOREM UsedCountedAlways == Spec => []UsedCounted
<1>1. PoolInv => UsedCounted
  BY DEF PoolInv
<1> QED
  BY <1>1, PoolInvAlways, PTL

(* The pool exceeds max-pool-size by at most the connections that kill     *)
(* queries made it lose count of.                                          *)
THEOREM ConnLimitAlways == Spec => []ConnLimit
<1>1. PoolInv => ConnLimit
  BY DEF PoolInv
<1> QED
  BY <1>1, PoolInvAlways, PTL
=============================================================================
