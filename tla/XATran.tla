------------------------------- MODULE XATran -------------------------------
(***************************************************************************)
(* The distributed (XA) transaction of one client connection of the        *)
(* sharding build: the connection's statement loop                         *)
(* (network_mysqld_con_handle), the server sessions it holds, one per      *)
(* shard group, and the MySQL servers behind them, which are external.     *)
(*                                                                         *)
(* A group is a natural number: con->servers is kept sorted by group name  *)
(* (ss_comp), and the loops of the code visit the sessions in that order.  *)
(* Out of scope here: partition mode, statements that do not use a         *)
(* distributed transaction, and connection-attribute adjustment (a pooled  *)
(* connection is taken to have the client's attributes already).           *)
(***************************************************************************)
EXTENDS Naturals, Sequences, FiniteSets, FiniteSetsExt

CONSTANTS
    Groups,           \* the shard groups, ordered by <
    ClientStmts,      \* the statements the client uses: a subset of Stmts
    Nested,           \* does it open a transaction inside an open one
    Faults,           \* which faults happen: see FaultKinds
    PreparedInTrans   \* does the answer to XA PREPARE carry SERVER_STATUS_IN_TRANS

(* A backend connection lost while statements run ("querydrop") or while   *)
(* the transaction is being ended ("enddrop"), an answer later than the    *)
(* read timeout, a pool without a free connection, a connection past       *)
(* max_alive_time, a client that goes away, and the error answers of a     *)
(* server.                                                                 *)
FaultKinds == {"querydrop", "enddrop", "timeout", "shortage", "aged", "quit",
               "err", "dup", "rb", "xaer"}

ASSUME GroupsAssumption == Groups \subseteq Nat /\ IsFiniteSet(Groups)
ASSUME FaultsAssumption == Faults \subseteq FaultKinds /\ PreparedInTrans \in BOOLEAN

Stmts == {"START", "COMMIT", "ROLLBACK", "AC0", "AC1", "WRITE", "READ"}

ASSUME ClientAssumption == ClientStmts \subseteq Stmts /\ Nested \in BOOLEAN

VARIABLES
    con,      \* network_mysqld_con
    ss,       \* server_session_t and its network_socket, one per group
    db,       \* the MySQL server of each group, and the connection to it
    xalog,    \* what tc_log_info wrote for the current xid
    issued,   \* history: the XA commands sent for the current xid
    dirty     \* history: a connection was pooled before its last answer came

vars == <<con, ss, db, xalog, issued, dirty>>

-----------------------------------------------------------------------------
(* network_mysqld_con_dist_tran_state_t; 0 is "no state yet".              *)
XA_START == 1
XA_QUERY == 2
XA_END == 3
XA_PREPARE == 4
XA_COMMIT == 5
XA_ROLLBACK == 6
XA_CANDIDATE_OVER == 7
XA_OVER == 8

Commands == {"START", "WRITE", "READ", "END", "PREPARE", "COMMIT", "COMMIT1", "ROLLBACK"}
Decisions == {"COMMIT", "COMMIT1", "ROLLBACK"}

(* OK_T is an OK packet with SERVER_STATUS_IN_TRANS; RB are the error      *)
(* codes ER_XA_RB* and ER_LOCK_*; XAER any other error whose SQL state     *)
(* begins with XA; DUP is ER_DUP_ENTRY and ERR every other error.          *)
Responses == {"OK", "OK_T", "ERR", "DUP", "RB", "XAER"}

ConStates == {"READ_QUERY", "GET_SERVER_LIST", "SEND_QUERY", "READ_M", "SEND_RESULT"}

(* network_mysqld_con_new; plan_set is con->sharding_plan != NULL and plan *)
(* the groups in it.                                                       *)
NewCon ==
    [state |-> "READ_QUERY", stmt |-> "READ", send_queue |-> <<>>,
     plan_set |-> FALSE, plan |-> {}, write_flag |-> FALSE,
     use_all_prev_servers |-> FALSE, resp_expected_num |-> 0,
     dist_tran |-> FALSE, dist_tran_state |-> 0, dist_tran_failed |-> FALSE,
     dist_tran_decided |-> FALSE, dist_tran_xa_start_generated |-> FALSE,
     is_auto_commit |-> TRUE, is_start_tran_command |-> FALSE,
     is_start_trans_buffered |-> FALSE, is_auto_commit_trans_buffered |-> FALSE,
     is_in_transaction |-> FALSE, is_server_conn_reserved |-> FALSE,
     is_commit_or_rollback |-> FALSE, is_rollback |-> FALSE,
     is_timeout |-> FALSE, is_xa_query_sent |-> FALSE,
     xa_query_status_error_and_abort |-> FALSE,
     server_to_be_closed |-> FALSE, is_client_to_be_closed |-> FALSE]

(* A group for which con->servers has no session.                          *)
NoSession ==
    [held |-> FALSE, state |-> "NONE", participated |-> FALSE,
     dist_tran_participated |-> FALSE, dist_tran_state |-> 0,
     has_xa_write |-> FALSE, is_xa_over |-> FALSE,
     xa_start_already_sent |-> FALSE, xa_query_status_error_and_abort |-> FALSE,
     is_in_tran_context |-> FALSE, unavailable |-> FALSE, is_closed |-> FALSE,
     send_queue |-> <<>>, recv_queue |-> <<>>]

(* A session just taken from the pool by proxy_add_server_connection.      *)
NewSession ==
    [NoSession EXCEPT !.held = TRUE, !.participated = TRUE,
                      !.dist_tran_participated = TRUE, !.dist_tran_state = XA_START]

(* The server of a group: the branch of the transaction there, whether it  *)
(* has the current xid and holds a write, the requests and answers in      *)
(* flight, and the connection: "idle" in the pool, "up" held by a session, *)
(* "gone" lost, "closing" given up by the proxy and not yet noticed. done, *)
(* lost and stray are history: a write of the current xid was committed,   *)
(* was rolled back, or ran outside the branch.                             *)
NewServer == [branch |-> "none", cur_xid |-> TRUE, wrote |-> FALSE,
              done |-> FALSE, lost |-> FALSE, stray |-> FALSE,
              req |-> <<>>, resp |-> <<>>, link |-> "idle"]

Init ==
    /\ con = NewCon
    /\ ss = [g \in Groups |-> NoSession]
    /\ db = [g \in Groups |-> NewServer]
    /\ xalog = {}
    /\ issued = {}
    /\ dirty = FALSE

Held(s) == {g \in Groups : s[g].held}
servers == Held(ss)

-----------------------------------------------------------------------------
(* Giving connections back.                                                *)

OpenBranch == {"active", "idle", "prepared", "rbonly"}

RolledBack(d) ==
    [d EXCEPT !.branch = "rolledback", !.lost = @ \/ (d.wrote /\ d.cur_xid)]

(* The end of a connection, as the server sees it: a branch that is not    *)
(* prepared is rolled back, a prepared one stays.                          *)
Disconnected(d) ==
    [(IF d.branch \in {"active", "idle", "rbonly"} THEN RolledBack(d) ELSE d)
        EXCEPT !.req = <<>>]

(* Wrong forms of a definition, named ..._wrong, change it as a slip in    *)
(* the code would; each is refuted by a property.                          *)
PutAllowed_wrong(c, s, old) ==
    {g \in Held(s) \ old : ~c.server_to_be_closed /\ ~s[g].is_closed /\ s[g].recv_queue = <<>>}

(* is_put_to_pool_allowed; old are the sessions past max_alive_time, past  *)
(* the refresh time, or that the pool does not want back.                  *)
PutAllowed(c, s, old) ==
    {g \in Held(s) \ old :
        /\ ~c.server_to_be_closed
        /\ ~s[g].is_closed
        /\ ~s[g].is_in_tran_context
        /\ s[g].is_xa_over
        /\ s[g].recv_queue = <<>>}

(* No request unanswered and no answer unread on the connection.           *)
Settled(d) == d.req = <<>> /\ d.resp = <<>>

(* A connection that is pooled with an answer still to come is removed by  *)
(* network_mysqld_con_idle_handle when the answer comes, and so is a dead  *)
(* one; every other one that is not pooled is sent a quit and freed.       *)
AfterRelease(c, s, d, old) ==
    [g \in Groups |->
        CASE ~s[g].held -> d[g]
          [] s[g].held /\ g \in PutAllowed(c, s, old) /\ Settled(d[g]) /\ d[g].link = "up" ->
                [d[g] EXCEPT !.link = "idle"]
          [] OTHER -> [d[g] EXCEPT !.link = "closing"]]

PooledUnsettled(c, s, d, old) ==
    \E g \in PutAllowed(c, s, old) :
        d[g].link = "up" /\ (~Settled(d[g]) \/ d[g].branch \in OpenBranch)

MaybeAged(s) == IF "aged" \in Faults THEN SUBSET Held(s) ELSE {{}}

(* proxy_put_shard_conn_to_pool: every session is pooled or closed and     *)
(* con->servers becomes NULL.                                              *)
proxy_put_shard_conn_to_pool(c, old) ==
    /\ ss' = [g \in Groups |-> NoSession]
    /\ db' = AfterRelease(c, ss, db, old)
    /\ dirty' = (dirty \/ PooledUnsettled(c, ss, db, old))

KeepSessions == UNCHANGED <<ss, db, dirty>>

-----------------------------------------------------------------------------
(* A statement of the client: proxy_read_query.                            *)

Answer(c, r) == [c EXCEPT !.state = "SEND_RESULT", !.send_queue = Append(@, r)]
GetServers(c) == [c EXCEPT !.state = "GET_SERVER_LIST"]

(* What is left from the previous statement, if that ended a transaction.  *)
AfterCommitOrRollback(c) ==
    IF ~c.is_commit_or_rollback THEN c
    ELSE [c EXCEPT
            !.is_auto_commit_trans_buffered = @ \/ ~c.is_auto_commit,
            !.server_to_be_closed = @ \/ /\ c.dist_tran_state \in {0, XA_OVER}
                                          /\ c.dist_tran_xa_start_generated
                                          /\ ~c.dist_tran_decided
                                          /\ servers # {},
            !.is_server_conn_reserved = FALSE]

(* analysis_query                                                          *)
analysis_query(c, stmt) ==
    CASE stmt = "START" /\ c.is_auto_commit ->
            [c EXCEPT !.is_start_trans_buffered = TRUE,
                      !.is_start_tran_command = TRUE, !.is_auto_commit = FALSE]
      [] stmt = "COMMIT" -> [c EXCEPT !.is_commit_or_rollback = TRUE]
      [] stmt = "ROLLBACK" ->
            [c EXCEPT !.is_commit_or_rollback = TRUE, !.is_rollback = TRUE]
      [] stmt = "AC0" ->
            [c EXCEPT !.is_auto_commit = FALSE, !.is_auto_commit_trans_buffered = TRUE]
      [] stmt = "AC1" ->
            [c EXCEPT !.is_auto_commit = TRUE, !.is_auto_commit_trans_buffered = FALSE]
      [] OTHER -> c

proxy_parse_query(c, stmt) ==
    analysis_query(
        [AfterCommitOrRollback(c) EXCEPT
            !.stmt = stmt, !.is_commit_or_rollback = FALSE, !.is_rollback = FALSE,
            !.is_timeout = FALSE, !.is_xa_query_sent = FALSE,
            !.xa_query_status_error_and_abort = FALSE],
        stmt)

TransBuffered(c) == c.is_start_trans_buffered \/ c.is_auto_commit_trans_buffered

(* Does before_get_server_list give the sessions back?                     *)
GivesBack(c) ==
    /\ servers # {}
    /\ c.dist_tran_decided \/ (TransBuffered(c) /\ ~c.is_server_conn_reserved)

(* before_get_server_list, and the resets of proxy_get_server_list after   *)
(* it; kept are the sessions still held.                                   *)
before_get_server_list(c, kept) ==
    LET b == [c EXCEPT
                !.is_in_transaction = @ \/ TransBuffered(c),
                !.dist_tran_xa_start_generated =
                    @ /\ ~TransBuffered(c) /\ ~c.dist_tran_decided,
                !.is_server_conn_reserved = @ /\ ~GivesBack(c),
                !.plan_set = @ /\ kept # {},
                !.plan = IF kept = {} THEN {} ELSE @]
    IN [b EXCEPT !.write_flag = (c.stmt = "WRITE"), !.use_all_prev_servers = FALSE,
                 !.dist_tran_decided = FALSE, !.server_to_be_closed = FALSE,
                 !.is_server_conn_reserved = @ /\ b.is_in_transaction]

EmptyPlan(c) == [c EXCEPT !.plan_set = TRUE, !.plan = {}]

(* make_decisions for USE_DIS_TRAN                                         *)
UseDisTran(c) ==
    GetServers([c EXCEPT
        !.dist_tran_state = IF c.dist_tran THEN @ ELSE XA_START,
        !.dist_tran_xa_start_generated = @ /\ c.dist_tran,
        !.dist_tran = TRUE, !.dist_tran_failed = FALSE])

(* A reply made up by the proxy, or the groups of the previous statement.  *)
FakeRespOrPlan(c) ==
    LET f == [c EXCEPT !.is_auto_commit_trans_buffered = FALSE,
                       !.is_start_trans_buffered = FALSE, !.dist_tran_failed = FALSE]
    IN IF c.plan # {} THEN GetServers(f) ELSE Answer(f, "OK")

(* SET autocommit = 1                                                      *)
process_rv_use_same(c, kept) ==
    IF c.dist_tran /\ kept # {} /\ c.dist_tran_state < XA_END
    THEN FakeRespOrPlan([c EXCEPT !.is_server_conn_reserved = FALSE,
                                  !.is_commit_or_rollback = TRUE])
    ELSE Answer([EmptyPlan(c) EXCEPT !.is_in_transaction = FALSE, !.dist_tran = FALSE,
                                     !.is_server_conn_reserved = FALSE], "OK")

(* COMMIT and ROLLBACK                                                     *)
process_rv_use_previous_tran_conns(c) ==
    CASE ~c.plan_set -> Answer([c EXCEPT !.is_server_conn_reserved = FALSE], "OK")
      [] c.plan_set /\ c.is_auto_commit -> FakeRespOrPlan(c)
      [] c.plan_set /\ ~c.is_auto_commit /\ ~c.dist_tran -> Answer(c, "OK")
      [] c.plan_set /\ ~c.is_auto_commit /\ c.dist_tran ->
            UseDisTran([c EXCEPT !.use_all_prev_servers = TRUE])

(* Statements that need groups. A multi-group statement outside a          *)
(* transaction uses a distributed transaction of its own if it writes.     *)
Multi(grps) == Cardinality(grps) > 1

InDisTran(c, stmt, grps) ==
    \/ ~c.is_auto_commit
    \/ ~Multi(grps) /\ c.dist_tran
    \/ Multi(grps) /\ (c.is_start_tran_command \/ stmt = "WRITE")

process_rv_default(c, grps) ==
    LET p == [c EXCEPT !.plan_set = TRUE, !.plan = grps]
    IN CASE ~Multi(grps) /\ c.dist_tran -> GetServers([p EXCEPT !.dist_tran_failed = FALSE])
         [] ~Multi(grps) /\ ~c.dist_tran -> UseDisTran(p)
         [] Multi(grps) ->
                UseDisTran([p EXCEPT !.dist_tran_xa_start_generated =
                                @ /\ (~c.is_auto_commit \/ c.is_start_tran_command)])

make_first_decision(c, kept, grps) ==
    CASE c.stmt \in {"START", "AC0"} -> Answer(EmptyPlan(c), "OK")
      [] c.stmt = "AC1" -> process_rv_use_same(c, kept)
      [] c.stmt \in {"COMMIT", "ROLLBACK"} -> process_rv_use_previous_tran_conns(c)
      [] c.stmt \in {"WRITE", "READ"} -> process_rv_default(c, grps)

proxy_read_query(stmt, grps) ==
    /\ con.state = "READ_QUERY"
    /\ stmt \in {"START", "AC0"} => Nested \/ con.is_auto_commit
    /\ LET p == proxy_parse_query(con, stmt)
            kept == IF GivesBack(p) THEN {} ELSE servers
        IN /\ stmt \in {"WRITE", "READ"} => InDisTran(p, stmt, grps)
           /\ con' = make_first_decision(before_get_server_list(p, kept), kept, grps)
           /\ IF GivesBack(p)
              THEN \E old \in MaybeAged(ss) : proxy_put_shard_conn_to_pool(p, old)
              ELSE KeepSessions
    /\ UNCHANGED <<xalog, issued>>

-----------------------------------------------------------------------------
(* Getting the sessions, and the first command to each.                    *)

(* proxy_add_server_connection_array and proxy_add_server_connection       *)
WithPlan(c, s) ==
    [g \in Groups |->
        LET again == c.dist_tran_state = XA_START \/ s[g].dist_tran_state \in {0, XA_OVER}
        IN CASE g \notin c.plan -> [s[g] EXCEPT !.participated = FALSE]
             [] g \in c.plan /\ ~s[g].held -> NewSession
             [] g \in c.plan /\ s[g].held ->
                    [s[g] EXCEPT !.participated = TRUE, !.state = "NONE",
                                 !.dist_tran_participated = TRUE,
                                 !.dist_tran_state = IF again THEN XA_START ELSE @,
                                 !.xa_start_already_sent = @ /\ ~again]]

(* generate_or_retrieve_xid_str with a new xid: what the servers and the   *)
(* log hold from now on belongs to an earlier transaction.                 *)
NewXid(d) ==
    [g \in Groups |->
        IF d[g].branch \in OpenBranch /\ d[g].link # "idle"
        THEN [d[g] EXCEPT !.cur_xid = FALSE, !.done = FALSE, !.lost = FALSE, !.stray = FALSE]
        ELSE [NewServer EXCEPT !.req = d[g].req, !.resp = d[g].resp, !.link = d[g].link]]

Connected(d, fresh) ==
    [g \in Groups |-> IF g \in fresh THEN [d[g] EXCEPT !.link = "up"] ELSE d[g]]

EndState(c) == IF c.dist_tran_failed \/ c.is_rollback THEN XA_ROLLBACK ELSE XA_PREPARE
QueryCommand(c) == IF c.write_flag THEN "WRITE" ELSE "READ"
QueryState(c) == IF c.is_auto_commit THEN XA_END ELSE XA_QUERY

proxy_get_server_conn_list ==
    /\ con.state = "GET_SERVER_LIST"
    /\ LET fresh == IF con.use_all_prev_servers THEN {} ELSE con.plan \ servers
            s == IF con.use_all_prev_servers THEN ss ELSE WithPlan(con, ss)
            newxid == con.dist_tran /\ ~con.dist_tran_xa_start_generated
            c == IF newxid
                 THEN [con EXCEPT !.dist_tran_state = XA_QUERY,
                                  !.dist_tran_xa_start_generated = TRUE,
                                  !.is_start_trans_buffered = FALSE,
                                  !.is_auto_commit_trans_buffered = FALSE]
                 ELSE con
            start_phase == \E g \in Held(s) : ~s[g].xa_start_already_sent
            work == {g \in Held(s) : (c.is_commit_or_rollback \/ s[g].participated)
                                        /\ ~s[g].unavailable}
            start == {g \in work : s[g].dist_tran_state = XA_START}
            live == {g \in work : s[g].dist_tran_state \notin {XA_START, XA_OVER}}
            ending == IF c.is_commit_or_rollback \/ c.dist_tran_failed THEN live ELSE {}
            query == IF ending # {} \/ start_phase THEN {} ELSE live
        IN /\ \A g \in fresh : db[g].link = "idle"
           /\ con' = [c EXCEPT !.state = "SEND_QUERY",
                              !.dist_tran_state = IF ending # {} THEN EndState(c) ELSE @,
                              !.is_xa_query_sent = @ \/ query # {},
                              !.resp_expected_num = Cardinality(start \cup ending \cup query)]
           /\ ss' = [g \in Groups |->
                CASE g \in start ->
                        [s[g] EXCEPT !.dist_tran_state = XA_QUERY, !.state = "NONE",
                                     !.xa_start_already_sent = FALSE,
                                     !.send_queue = Append(@, "START")]
                  [] g \in ending ->
                        [s[g] EXCEPT !.dist_tran_state = EndState(c), !.state = "NONE",
                                     !.participated = TRUE, !.xa_start_already_sent = TRUE,
                                     !.send_queue = Append(@, "END")]
                  [] g \in query ->
                        [s[g] EXCEPT !.dist_tran_state = QueryState(c), !.state = "NONE",
                                     !.has_xa_write = @ \/ c.write_flag,
                                     !.xa_start_already_sent = TRUE,
                                     !.send_queue = Append(@, QueryCommand(c))]
                  [] g \in work \ (start \cup ending \cup query) ->
                        [s[g] EXCEPT !.xa_start_already_sent = TRUE]
                  [] OTHER -> s[g]]
           /\ db' = Connected(IF newxid THEN NewXid(db) ELSE db, fresh)
           /\ xalog' = IF newxid THEN {} ELSE xalog
           /\ issued' = IF newxid THEN {} ELSE issued
    /\ UNCHANGED dirty

(* network_mysqld_con_clear_xa_env_when_not_expected                       *)
ClearXaEnv(c) ==
    [c EXCEPT !.dist_tran = FALSE, !.dist_tran_failed = FALSE,
              !.is_auto_commit = @ \/ c.is_start_tran_command,
              !.is_start_tran_command = FALSE, !.is_in_transaction = FALSE,
              !.is_server_conn_reserved = FALSE, !.server_to_be_closed = TRUE]

process_service_unavailable(c) ==
    [Answer(IF c.dist_tran THEN ClearXaEnv(c) ELSE c, "ERR")
        EXCEPT !.server_to_be_closed = TRUE]

(* The pool of a group stayed empty for all the retries; the sessions that *)
(* were got for this statement go back to the pool, the others are closed  *)
(* when the error is sent.                                                 *)
ServersNotGot ==
    /\ "shortage" \in Faults
    /\ con.state = "GET_SERVER_LIST"
    /\ ~con.use_all_prev_servers
    /\ con.plan \ servers # {}
    /\ con' = process_service_unavailable(con)
    /\ UNCHANGED <<ss, db, xalog, issued, dirty>>

(* process_shard_write; a write to a lost connection may fail at once.     *)
process_shard_write ==
    /\ con.state = "SEND_QUERY"
    /\ LET ready == {g \in servers : ss[g].participated /\ ~ss[g].unavailable}
            sending == {g \in ready : ss[g].send_queue # <<>>}
        IN \E failing \in SUBSET {g \in sending : db[g].link = "gone"} :
             /\ con' = IF failing = {} THEN [con EXCEPT !.state = "READ_M"]
                       ELSE [con EXCEPT
                                !.state = "SEND_RESULT", !.server_to_be_closed = TRUE,
                                !.dist_tran = FALSE, !.is_client_to_be_closed = TRUE,
                                !.send_queue = @ \o [i \in 1..Cardinality(failing) |-> "ERR"]]
             /\ ss' = [g \in Groups |->
                    CASE g \in sending \ failing ->
                            [ss[g] EXCEPT !.state = "READ", !.send_queue = <<>>]
                      [] g \in failing \cup (ready \ sending) -> [ss[g] EXCEPT !.state = "NONE"]
                      [] OTHER -> ss[g]]
             /\ db' = [g \in Groups |->
                    IF g \in sending /\ db[g].link = "up"
                    THEN [db[g] EXCEPT !.req = @ \o ss[g].send_queue] ELSE db[g]]
             /\ issued' = issued \cup UNION {Range(ss[g].send_queue) : g \in sending \ failing}
    /\ UNCHANGED <<xalog, dirty>>

-----------------------------------------------------------------------------
(* The events of a server session: server_session_con_handler.             *)

(* check_query_status: what an OK packet says about the transaction.       *)
check_query_status(c, r) ==
    CASE r = "OK_T" -> [c EXCEPT !.is_in_transaction = TRUE, !.is_server_conn_reserved = TRUE]
      [] r = "OK" -> [c EXCEPT !.is_in_transaction = ~c.is_auto_commit,
                               !.is_server_conn_reserved = ~c.is_auto_commit]
      [] OTHER -> c

(* disp_err_packet                                                         *)
disp_err_packet(c, r) ==
    CASE r = "RB" -> [c EXCEPT !.dist_tran_failed = TRUE, !.is_commit_or_rollback = TRUE,
                               !.xa_query_status_error_and_abort = TRUE]
      [] r = "XAER" -> [c EXCEPT !.dist_tran_failed = TRUE,
                                 !.xa_query_status_error_and_abort = TRUE]
      [] OTHER -> c

(* read_mul_packets: one answer is taken from the socket.                  *)
process_read_server(g) ==
    /\ con.state = "READ_M"
    /\ ss[g].state = "READ"
    /\ db[g].resp # <<>>
    /\ LET r == Head(db[g].resp)
        IN /\ con' = disp_err_packet(check_query_status(con, r), r)
           /\ ss' = [ss EXCEPT ![g].state = "FINISHED", ![g].recv_queue = Append(@, r),
                               ![g].is_in_tran_context = IF r \in {"OK", "OK_T"}
                                                         THEN r = "OK_T" ELSE @]
    /\ db' = [db EXCEPT ![g].resp = Tail(@)]
    /\ UNCHANGED <<xalog, issued, dirty>>

FailsTran_wrong(c) == c.dist_tran_state > XA_START

(* record_xa_log_for_mending: does the loss of this answer fail the        *)
(* transaction?                                                            *)
FailsTran(c) == c.dist_tran_state > XA_START /\ c.dist_tran_state < XA_CANDIDATE_OVER

process_read_event_closed_wrong(g) ==
    /\ con.state = "READ_M"
    /\ ss[g].state = "READ"
    /\ db[g].link = "gone" /\ db[g].resp = <<>>
    /\ ss' = [ss EXCEPT ![g].state = "NONE", ![g].is_closed = TRUE]
    /\ UNCHANGED <<con, db, xalog, issued, dirty>>

(* process_read_event with nothing to read: the server closed.             *)
process_read_event_closed(g) ==
    /\ con.state = "READ_M"
    /\ ss[g].state = "READ"
    /\ db[g].link = "gone" /\ db[g].resp = <<>>
    /\ con' = [con EXCEPT !.dist_tran_failed = TRUE]
    /\ ss' = [ss EXCEPT ![g].state = "FINISHED", ![g].unavailable = TRUE,
                        ![g].is_closed = TRUE]
    /\ UNCHANGED <<db, xalog, issued, dirty>>

process_timeout_event_wrong(g) ==
    /\ "timeout" \in Faults
    /\ con.state = "READ_M"
    /\ ss[g].state = "READ"
    /\ db[g].resp = <<>>
    /\ con' = [con EXCEPT !.dist_tran_failed = @ \/ FailsTran(con), !.is_timeout = TRUE]
    /\ UNCHANGED <<ss, db, xalog, issued, dirty>>

process_timeout_event(g) ==
    /\ "timeout" \in Faults
    /\ con.state = "READ_M"
    /\ ss[g].state = "READ"
    /\ db[g].resp = <<>>
    /\ LET c == [con EXCEPT !.dist_tran_failed = @ \/ FailsTran(con), !.is_timeout = TRUE]
        IN /\ con' = c
           /\ ss' = [ss EXCEPT ![g].state = "FINISHED",
                               ![g].is_closed = @ \/ c.dist_tran_failed]
    /\ UNCHANGED <<db, xalog, issued, dirty>>

-----------------------------------------------------------------------------
(* The next XA command for every worker: build_xa_statements.              *)

(* check_dist_tran_resultset on the first packet of the session.           *)
check_dist_tran_resultset(c, s, g) ==
    /\ s[g].recv_queue # <<>>
    /\ \/ Head(s[g].recv_queue) \in {"RB", "XAER"}
       \/ Head(s[g].recv_queue) = "DUP" /\ c.resp_expected_num > 1

Participants(s) == {g \in Held(s) : s[g].dist_tran_participated /\ ~s[g].unavailable}
BaseWorkers(c, s) == {g \in Participants(s) : c.is_commit_or_rollback \/ s[g].participated}

(* Is dist_tran_failed set when the loop has looked at session g?          *)
FailedAt(c, s, g) ==
    \/ c.dist_tran_failed
    \/ \E h \in BaseWorkers(c, s) : h <= g /\ check_dist_tran_resultset(c, s, h)

(* Once a session is sent XA END for a rollback, is_commit_or_rollback is  *)
(* set and the later sessions that took no part in the statement join.     *)
XaWorkers(c, s) ==
    BaseWorkers(c, s) \cup
    {g \in Participants(s) :
        /\ c.dist_tran_state <= XA_QUERY
        /\ \E h \in BaseWorkers(c, s) : h < g /\ FailedAt(c, s, h)}

WriteServerNum(s) == Cardinality({g \in Held(s) : s[g].has_xa_write})
OnePhase_wrong(s) == Cardinality(Held(s)) = 1 \/ WriteServerNum(s) <= 2

OnePhase(s) == Cardinality(Held(s)) = 1 \/ WriteServerNum(s) <= 1

(* build_xa_command: the command for a session in state st, and its next   *)
(* state.                                                                  *)
build_xa_command(s, st, failed) ==
    CASE st = XA_END -> [cmd |-> "END", next |-> IF failed THEN XA_ROLLBACK ELSE XA_PREPARE]
      [] st = XA_PREPARE -> IF OnePhase(s) THEN [cmd |-> "COMMIT1", next |-> XA_CANDIDATE_OVER]
                            ELSE [cmd |-> "PREPARE", next |-> XA_COMMIT]
      [] st = XA_COMMIT -> [cmd |-> "COMMIT", next |-> XA_CANDIDATE_OVER]
      [] st = XA_ROLLBACK -> [cmd |-> "ROLLBACK", next |-> XA_CANDIDATE_OVER]
      [] OTHER -> [cmd |-> "none", next |-> XA_OVER]

disp_xa_abnormal_resultset_wrong(c, s, g) ==
    IF c.dist_tran_state <= XA_QUERY THEN build_xa_command(s, XA_END, TRUE)
    ELSE build_xa_command(s, IF s[g].dist_tran_state = XA_OVER THEN XA_OVER ELSE XA_ROLLBACK, TRUE)

disp_xa_abnormal_resultset(c, s, g) ==
    LET st == s[g].dist_tran_state
    IN CASE c.dist_tran_state <= XA_QUERY -> build_xa_command(s, XA_END, TRUE)
         [] c.dist_tran_state \in XA_END..XA_COMMIT -> build_xa_command(s, XA_ROLLBACK, TRUE)
         [] c.dist_tran_state = XA_ROLLBACK ->
                build_xa_command(s, IF st < XA_ROLLBACK THEN XA_ROLLBACK ELSE st, TRUE)
         [] c.dist_tran_state = XA_CANDIDATE_OVER -> build_xa_command(s, st, TRUE)
         [] OTHER -> [cmd |-> "none", next |-> st]

disp_xa_according_state(c, s, g) ==
    IF s[g].dist_tran_state = XA_QUERY THEN [cmd |-> QueryCommand(c), next |-> QueryState(c)]
    ELSE build_xa_command(s, s[g].dist_tran_state, FALSE)

XaStep(c, s, g) ==
    IF FailedAt(c, s, g) THEN disp_xa_abnormal_resultset(c, s, g)
    ELSE disp_xa_according_state(c, s, g)

Queries == {"WRITE", "READ"}
Logged == {"PREPARE", "COMMIT", "COMMIT1", "ROLLBACK"}

SessionAfterBuild(c, s, g) ==
    LET x == XaStep(c, s, g)
        over == x.next = XA_OVER /\ x.cmd = "none"
    IN IF g \notin XaWorkers(c, s) THEN s[g]
       ELSE [s[g] EXCEPT
                !.participated = TRUE, !.dist_tran_state = x.next,
                !.xa_query_status_error_and_abort =
                    \/ check_dist_tran_resultset(c, s, g)
                    \/ @ /\ FailedAt(c, s, g),
                !.is_xa_over = @ \/ over,
                !.dist_tran_participated = @ /\ ~over,
                !.state = IF x.cmd = "none" THEN @ ELSE "NONE",
                !.send_queue = IF x.cmd = "none" THEN @ ELSE Append(@, x.cmd),
                !.xa_start_already_sent = @ \/ x.cmd \in Queries,
                !.has_xa_write = @ \/ (x.cmd \in Queries /\ c.write_flag)]

ConAfterBuild(c, s) ==
    LET work == XaWorkers(c, s)
        x == [g \in work |-> XaStep(c, s, g)]
        last == Max(work)
        end == last = Max(Held(s))
        sent == {x[g].cmd : g \in work} \ {"none"}
        fails == \E g \in work : check_dist_tran_resultset(c, s, g)
        sends == \/ sent \cap Queries # {}
                 \/ end /\ x[last].cmd # "none"
                 \/ ~end /\ x[last].next # XA_OVER
        over == end /\ x[last].cmd = "none" /\ c.is_start_tran_command
    IN IF work = {}
       THEN [c EXCEPT !.server_to_be_closed = TRUE, !.dist_tran_state = XA_OVER,
                      !.resp_expected_num = 0]
       ELSE [c EXCEPT
                !.state = IF sends THEN "SEND_QUERY" ELSE @,
                !.dist_tran_state = IF end /\ x[last].cmd \in Queries THEN @ ELSE x[last].next,
                !.resp_expected_num = Cardinality({g \in work : x[g].cmd # "none"}),
                !.dist_tran_failed = @ \/ fails,
                !.xa_query_status_error_and_abort = @ \/ fails,
                !.dist_tran_decided = @ \/ sent \cap Decisions # {},
                !.is_commit_or_rollback =
                    @ \/ \E g \in work : x[g] = [cmd |-> "END", next |-> XA_ROLLBACK],
                !.is_xa_query_sent = @ \/ sent \cap Queries # {},
                !.is_auto_commit = @ \/ over,
                !.is_start_tran_command = @ /\ ~over,
                !.is_in_transaction = @ /\ ~over]

LogAfterBuild_wrong(c, s) == {}

(* The record build_xa_statements leaves in the transaction log: the       *)
(* command of the first worker that has one.                               *)
LogAfterBuild(c, s) ==
    LET work == XaWorkers(c, s)
        logged == {g \in work : XaStep(c, s, g).cmd \in Logged}
    IN IF /\ logged # {}
          /\ \A g \in work : XaStep(c, s, g).cmd \notin Queries
          /\ ConAfterBuild(c, s).dist_tran_decided
          /\ WriteServerNum(s) > 1
       THEN {XaStep(c, s, Min(logged)).cmd} ELSE {}

build_xa_statements(c, s) ==
    [con |-> ConAfterBuild(c, s), log |-> LogAfterBuild(c, s),
     ss |-> [g \in Groups |-> SessionAfterBuild(c, s, g)]]

-----------------------------------------------------------------------------
(* All answers are in: handle_read_mul_servers_resp.                       *)

Pending == {g \in servers : ss[g].state = "READ"}
Down == {g \in servers : ss[g].participated /\ ss[g].unavailable}
Responded == {g \in servers : ss[g].participated /\ ~ss[g].unavailable
                                 /\ ss[g].state = "FINISHED"}
AllAnswered == con.state = "READ_M" /\ Pending = {}
NotMatched == Cardinality(Responded) # Cardinality(servers \ Down)

remove_mul_server_recv_packets(s) ==
    [g \in Groups |-> [s[g] EXCEPT !.recv_queue = <<>>]]

PrematureClose ==
    /\ AllAnswered
    /\ Down # {} /\ con.dist_tran_state <= XA_QUERY
    /\ con' = [con EXCEPT !.state = "SEND_RESULT", !.send_queue = <<"ERR">>,
                          !.server_to_be_closed = TRUE]
    /\ ss' = remove_mul_server_recv_packets(ss)
    /\ UNCHANGED <<db, xalog, issued, dirty>>

PastPrematureClose == AllAnswered /\ (Down = {} \/ con.dist_tran_state > XA_QUERY)

disp_no_workers ==
    /\ PastPrematureClose
    /\ servers \ Down = {}
    /\ con' = process_service_unavailable(
                 [con EXCEPT !.dist_tran_state = IF con.dist_tran THEN XA_OVER ELSE @,
                             !.dist_tran_failed = @ /\ ~con.dist_tran, !.send_queue = <<>>])
    /\ UNCHANGED <<ss, db, xalog, issued, dirty>>

(* Some sessions took no part in this step, and the transaction failed.    *)
FailedNotMatched ==
    /\ NotMatched
    /\ con.dist_tran /\ con.dist_tran_failed /\ ~con.xa_query_status_error_and_abort

disp_resp_workers_not_matched ==
    /\ PastPrematureClose
    /\ servers \ Down # {}
    /\ FailedNotMatched
    /\ LET builds == ~con.is_timeout /\ con.dist_tran_state < XA_CANDIDATE_OVER
            b == IF builds THEN build_xa_statements(con, ss)
                 ELSE [con |-> [con EXCEPT !.server_to_be_closed = @ \/ con.is_timeout],
                       ss |-> ss, log |-> {}]
        IN /\ xalog' = xalog \cup b.log
           /\ IF builds /\ b.con.dist_tran_state # XA_OVER
              THEN con' = b.con /\ ss' = b.ss
              ELSE /\ con' = [process_service_unavailable(
                                [b.con EXCEPT !.dist_tran_state = XA_OVER])
                              EXCEPT !.dist_tran_failed = FALSE]
                   /\ ss' = remove_mul_server_recv_packets(b.ss)
    /\ UNCHANGED <<db, issued, dirty>>

(* retrieve_one_resp_for_xa_trans, retrieve_error_info_for_xa_trans and    *)
(* disp_single_resp: the answer of the first session of some kind.         *)
AnswerOf(s, S) == IF S = {} THEN <<>> ELSE s[Min(S)].recv_queue
Available(s) == {g \in Held(s) : s[g].participated /\ ~s[g].unavailable}
retrieve_one_resp_for_xa_trans(s) ==
    AnswerOf(s, {g \in Available(s) : s[g].recv_queue # <<>>})
retrieve_error_info_for_xa_trans(s) ==
    AnswerOf(s, {g \in Held(s) : s[g].xa_query_status_error_and_abort})
disp_single_resp(s) == AnswerOf(s, Available(s))

IsOk(r) == r \in {"OK", "OK_T"}

(* normal_result_merge and merge_for_modify over all participants          *)
normal_result_merge(c, s) ==
    IF \A g \in Held(s) : s[g].participated =>
            s[g].recv_queue # <<>> /\ IsOk(Head(s[g].recv_queue))
    THEN [c EXCEPT !.send_queue = Append(@, "OK")]
    ELSE [c EXCEPT !.send_queue = <<"ERR">>,
                   !.server_to_be_closed = @ \/ c.is_timeout]

(* disp_result_not_reserved                                                *)
disp_result_not_reserved(c) ==
    IF c.send_queue # <<>> THEN [c EXCEPT !.state = "SEND_RESULT"]
    ELSE [Answer(c, IF c.dist_tran_decided THEN "OK" ELSE "ERR") EXCEPT
            !.server_to_be_closed = TRUE,
            !.is_commit_or_rollback = @ \/ c.dist_tran,
            !.dist_tran_state = IF c.dist_tran THEN XA_OVER ELSE @,
            !.dist_tran = FALSE]

OverReply_wrong(c, s) ==
    [c EXCEPT
        !.send_queue = IF c.xa_query_status_error_and_abort THEN @
                       ELSE @ \o retrieve_one_resp_for_xa_trans(s),
        !.dist_tran = FALSE, !.dist_tran_failed = FALSE,
        !.is_server_conn_reserved = FALSE]

(* The transaction is over: what is added to the reply.                    *)
OverReply(c, s) ==
    [c EXCEPT
        !.send_queue =
            CASE c.xa_query_status_error_and_abort \/ ~c.is_commit_or_rollback -> @
              [] ~c.xa_query_status_error_and_abort /\ c.is_commit_or_rollback ->
                    IF c.dist_tran_failed THEN <<"ERR">>
                    ELSE IF c.is_timeout THEN Append(@, "OK")
                    ELSE @ \o retrieve_one_resp_for_xa_trans(s),
        !.dist_tran = FALSE, !.dist_tran_failed = FALSE,
        !.is_server_conn_reserved = FALSE]

(* The error that made the transaction roll back.                          *)
RollbackReply(c, s) ==
    IF c.dist_tran_failed /\ c.dist_tran_state = XA_ROLLBACK
    THEN [c EXCEPT !.send_queue =
            @ \o IF c.xa_query_status_error_and_abort
                 THEN retrieve_error_info_for_xa_trans(s) ELSE retrieve_one_resp_for_xa_trans(s)]
    ELSE c

StatementReply(c, s, n) ==
    IF n > 1 THEN normal_result_merge(c, s)
    ELSE [c EXCEPT !.send_queue = @ \o disp_single_resp(s)]

(* disp_after_resp with handle_dist_tran_after_read_mul_resp               *)
disp_after_resp ==
    /\ PastPrematureClose
    /\ servers \ Down # {}
    /\ ~FailedNotMatched
    /\ Responded # {}
    /\ LET builds == \/ con.is_timeout \/ con.is_auto_commit
                     \/ ~con.is_xa_query_sent \/ con.xa_query_status_error_and_abort
            b == IF builds THEN build_xa_statements(con, ss)
                 ELSE [con |-> con, ss |-> ss, log |-> {}]
            prepares == builds /\ b.con.dist_tran_state = XA_PREPARE
            sends == builds /\ ~prepares /\ b.con.state = "SEND_QUERY"
            over == builds /\ ~sends /\ b.con.dist_tran_state = XA_OVER
            reply == StatementReply(b.con, b.ss, Cardinality(Responded))
        IN /\ con' = CASE sends -> RollbackReply(b.con, b.ss)
                       [] over -> disp_result_not_reserved(OverReply(b.con, b.ss))
                       [] prepares /\ b.con.is_auto_commit -> reply
                       [] OTHER -> disp_result_not_reserved(reply)
           /\ ss' = remove_mul_server_recv_packets(b.ss)
           /\ xalog' = xalog \cup b.log
    /\ UNCHANGED <<db, issued, dirty>>

-----------------------------------------------------------------------------
(* The reply, and the client that waits or goes away.                      *)

(* ST_READ_QUERY is entered and there is no further statement yet.         *)
BackToReadQuery(c) ==
    LET ends == c.is_commit_or_rollback /\ c.is_start_tran_command
    IN [c EXCEPT !.state = "READ_QUERY", !.send_queue = <<>>,
                 !.is_auto_commit = @ \/ ends,
                 !.is_start_tran_command = @ /\ ~ends,
                 !.is_in_transaction = @ /\ ~ends,
                 !.is_server_conn_reserved = @ /\ ~ends]

(* send_result_to_client and proxy_send_query_result                       *)
send_result_to_client ==
    /\ con.state = "SEND_RESULT"
    /\ IF con.server_to_be_closed /\ servers # {}
       THEN /\ \E old \in MaybeAged(ss) : proxy_put_shard_conn_to_pool(con, old)
            /\ con' = IF con.is_client_to_be_closed THEN NewCon
                      ELSE BackToReadQuery([con EXCEPT !.is_server_conn_reserved = FALSE])
       ELSE /\ KeepSessions
            /\ con' = BackToReadQuery(con)
    /\ UNCHANGED <<xalog, issued>>

(* The client is found gone when the reply is written.                     *)
SendResultFails ==
    /\ "quit" \in Faults
    /\ con.state = "SEND_RESULT"
    /\ \E old \in MaybeAged(ss) :
            proxy_put_shard_conn_to_pool([con EXCEPT !.server_to_be_closed = TRUE], old)
    /\ con' = NewCon
    /\ UNCHANGED <<xalog, issued>>

(* proxy_disconnect_client when the client quits between statements; the   *)
(* next client starts with a new network_mysqld_con.                       *)
proxy_disconnect_client ==
    /\ "quit" \in Faults
    /\ con.state = "READ_QUERY"
    /\ LET undecided == /\ con.is_in_transaction \/ ~con.is_auto_commit
                        /\ con.dist_tran_state # XA_OVER
        IN \E old \in MaybeAged(ss) :
             proxy_put_shard_conn_to_pool(
                [con EXCEPT !.server_to_be_closed = @ \/ undecided], old)
    /\ con' = NewCon
    /\ UNCHANGED <<xalog, issued>>

(* proxy_timeout while no statement is running: sessions that are not      *)
(* reserved go back to the pool.                                           *)
proxy_timeout ==
    /\ con.state = "READ_QUERY"
    /\ servers # {} /\ ~con.is_server_conn_reserved
    /\ \E old \in MaybeAged(ss) : proxy_put_shard_conn_to_pool(con, old)
    /\ UNCHANGED <<con, xalog, issued>>

-----------------------------------------------------------------------------
(* The MySQL servers (external).                                           *)

(* What a server may do with a command, and what it answers.               *)
Outcomes(d, cmd) ==
    LET ok(b) == [d |-> [d EXCEPT !.branch = b], r |-> "OK_T"]
        rollback(r) == [d |-> RolledBack(d), r |-> r]
        commit == [d |-> [d EXCEPT !.branch = "committed", !.done = d.wrote], r |-> "OK"]
        error(r) == [d |-> d, r |-> r]
        fault(k, S) == IF k \in Faults THEN S ELSE {}
        own == d.cur_xid
    IN CASE cmd = "START" /\ d.branch \in {"none", "committed", "rolledback"} ->
                {[d |-> [d EXCEPT !.branch = "active", !.wrote = FALSE, !.cur_xid = TRUE],
                  r |-> "OK_T"]}
                \cup fault("xaer", {error("XAER")})
         [] cmd \in Queries /\ d.branch = "active" ->
                {[d |-> [d EXCEPT !.wrote = @ \/ cmd = "WRITE",
                                  !.stray = @ \/ (cmd = "WRITE" /\ ~own /\ d.link = "up")], r |-> "OK_T"]}
                \cup fault("err", {error("ERR")})
                \cup fault("dup", {error("DUP")})
                \cup fault("rb", {error("RB"), [d |-> [d EXCEPT !.branch = "rbonly"], r |-> "RB"]})
         [] cmd \in Queries /\ d.branch \in {"none", "committed", "rolledback"} ->
                {[d |-> [d EXCEPT !.stray = @ \/ cmd = "WRITE"], r |-> "OK"]}
         [] cmd = "END" /\ own /\ d.branch = "active" ->
                {ok("idle")}
                \cup fault("rb", {[d |-> [d EXCEPT !.branch = "rbonly"], r |-> "RB"]})
         [] cmd = "END" /\ own /\ d.branch = "rbonly" -> {error("RB")}
         [] cmd = "PREPARE" /\ own /\ d.branch = "idle" ->
                {[d |-> [d EXCEPT !.branch = "prepared"],
                  r |-> IF PreparedInTrans THEN "OK_T" ELSE "OK"]}
                \cup fault("rb", {rollback("RB")})
         [] cmd = "COMMIT1" /\ own /\ d.branch = "idle" ->
                {commit} \cup fault("rb", {rollback("RB")})
         [] cmd = "COMMIT" /\ own /\ d.branch = "prepared" -> {commit}
         [] cmd = "ROLLBACK" /\ own /\ d.branch \in {"idle", "prepared", "rbonly"} ->
                {rollback("OK")}
         [] OTHER -> {error("XAER")}

(* A server takes the next command; its answer reaches a session that      *)
(* still holds the connection.                                             *)
Serve(g) ==
    /\ db[g].req # <<>>
    /\ \E o \in Outcomes(db[g], Head(db[g].req)) :
         db' = [db EXCEPT ![g] =
                  [o.d EXCEPT !.req = Tail(@),
                              !.resp = IF db[g].link = "up" THEN Append(@, o.r) ELSE @]]
    /\ UNCHANGED <<con, ss, xalog, issued, dirty>>

(* A connection held by a session is lost, with or without the answers     *)
(* that are under way.                                                     *)
LoseConnection(g) ==
    /\ db[g].link = "up"
    /\ (IF con.dist_tran_state <= XA_QUERY THEN "querydrop" ELSE "enddrop") \in Faults
    /\ \E r \in {<<>>, db[g].resp} : db' = [db EXCEPT ![g].link = "gone", ![g].resp = r]
    /\ UNCHANGED <<con, ss, xalog, issued, dirty>>

(* The server notices that the connection is no more; commands it has not  *)
(* taken yet are never taken.                                              *)
ConnectionEnds(g) ==
    /\ \/ db[g].link = "closing"
       \/ db[g].link = "gone" /\ (db[g].req # <<>> \/ db[g].branch \in OpenBranch \ {"prepared"})
    /\ db' = [db EXCEPT ![g] =
                IF @.link = "gone" THEN Disconnected(@)
                ELSE [Disconnected(@) EXCEPT
                        !.link = "idle", !.resp = <<>>, !.cur_xid = TRUE,
                        !.branch = IF db[g].cur_xid THEN @ ELSE "none",
                        !.wrote = @ /\ db[g].cur_xid]]
    /\ UNCHANGED <<con, ss, xalog, issued, dirty>>

-----------------------------------------------------------------------------
GroupSets == (SUBSET Groups) \ {{}}

Next ==
    \/ \E stmt \in ClientStmts \ Queries : proxy_read_query(stmt, {})
    \/ \E stmt \in ClientStmts \cap Queries, grps \in GroupSets : proxy_read_query(stmt, grps)
    \/ proxy_get_server_conn_list \/ ServersNotGot \/ process_shard_write
    \/ \E g \in Groups : \/ process_read_server(g)
                          \/ process_read_event_closed(g)
                          \/ process_timeout_event(g)
    \/ PrematureClose \/ disp_no_workers \/ disp_resp_workers_not_matched \/ disp_after_resp
    \/ send_result_to_client \/ SendResultFails
    \/ proxy_disconnect_client \/ proxy_timeout
    \/ \E g \in Groups : Serve(g) \/ LoseConnection(g) \/ ConnectionEnds(g)

Spec == Init /\ [][Next]_vars

-----------------------------------------------------------------------------
DistTranStates == 0..XA_OVER

ConType ==
    [state : ConStates, stmt : Stmts, send_queue : Seq(Responses),
     plan_set : BOOLEAN, plan : SUBSET Groups, write_flag : BOOLEAN,
     use_all_prev_servers : BOOLEAN, resp_expected_num : Nat,
     dist_tran : BOOLEAN, dist_tran_state : DistTranStates, dist_tran_failed : BOOLEAN,
     dist_tran_decided : BOOLEAN, dist_tran_xa_start_generated : BOOLEAN,
     is_auto_commit : BOOLEAN, is_start_tran_command : BOOLEAN,
     is_start_trans_buffered : BOOLEAN, is_auto_commit_trans_buffered : BOOLEAN,
     is_in_transaction : BOOLEAN, is_server_conn_reserved : BOOLEAN,
     is_commit_or_rollback : BOOLEAN, is_rollback : BOOLEAN,
     is_timeout : BOOLEAN, is_xa_query_sent : BOOLEAN,
     xa_query_status_error_and_abort : BOOLEAN,
     server_to_be_closed : BOOLEAN, is_client_to_be_closed : BOOLEAN]

SessionType ==
    [held : BOOLEAN, state : {"NONE", "READ", "FINISHED"}, participated : BOOLEAN,
     dist_tran_participated : BOOLEAN, dist_tran_state : DistTranStates,
     has_xa_write : BOOLEAN, is_xa_over : BOOLEAN,
     xa_start_already_sent : BOOLEAN, xa_query_status_error_and_abort : BOOLEAN,
     is_in_tran_context : BOOLEAN, unavailable : BOOLEAN, is_closed : BOOLEAN,
     send_queue : Seq(Commands), recv_queue : Seq(Responses)]

ServerType ==
    [branch : {"none", "committed", "rolledback"} \cup OpenBranch,
     cur_xid : BOOLEAN, wrote : BOOLEAN, done : BOOLEAN, lost : BOOLEAN, stray : BOOLEAN,
     req : Seq(Commands), resp : Seq(Responses), link : {"idle", "up", "gone", "closing"}]

(* The shape of the connection, of its sessions and of the servers.        *)
TypeOK ==
    /\ con \in ConType
    /\ ss \in [Groups -> SessionType]
    /\ db \in [Groups -> ServerType]
    /\ xalog \subseteq Logged
    /\ issued \subseteq Commands
    /\ dirty \in BOOLEAN

(* All or nothing: no write of a distributed transaction is committed on   *)
(* one group while another of its writes is rolled back.                   *)
Atomicity == ~ \E g, h \in Groups : db[g].done /\ db[h].lost

(* build_xa_statements never sends both commits and rollbacks for one xid. *)
OneDecision == "ROLLBACK" \in issued => issued \cap {"COMMIT", "COMMIT1"} = {}

(* tc_log_info has written the decision before any second-phase XA COMMIT  *)
(* is sent, and never the other decision.                                  *)
DecisionLogged ==
    /\ "COMMIT" \in issued => "COMMIT" \in xalog
    /\ "ROLLBACK" \in issued => "COMMIT" \notin xalog

(* proxy_put_shard_conn_to_pool pools no connection that has an open       *)
(* branch or an answer still to come.                                      *)
PooledIsClean == ~dirty

(* Every write runs inside the branch of its transaction.                  *)
WritesInBranch == \A g \in Groups : ~db[g].stray

(* handle_read_mul_servers_resp always has something to do when the last   *)
(* answer is in: it never stops with no event to wait for.                 *)
NeverStranded ==
    AllAnswered => \/ Down # {} /\ con.dist_tran_state <= XA_QUERY
                   \/ servers \ Down = {}
                   \/ FailedNotMatched
                   \/ Responded # {}

(* "we should only send one result back to the client"                     *)
OneResult ==
    con.state = "SEND_RESULT" /\ ~con.is_client_to_be_closed => Len(con.send_queue) = 1

(* While a client is idle inside a distributed transaction that has        *)
(* written, its connections are reserved and proxy_timeout leaves them.    *)
IdleKeepsTran ==
    con.state = "READ_QUERY" /\ con.dist_tran /\ (\E g \in servers : db[g].wrote)
        => con.is_server_conn_reserved

(* The statement stmt is answered, with OK or an error first in the queue. *)
Finishes(stmt, ok) ==
    /\ con.state = "READ_M" /\ con'.state = "SEND_RESULT"
    /\ con.stmt = stmt /\ con'.send_queue # <<>> /\ IsOk(Head(con'.send_queue)) = ok

(* OK to a COMMIT means that no write of the transaction was rolled back:  *)
(* an error a server gave to XA END, XA PREPARE or XA COMMIT on the way is *)
(* never replaced by the OK of disp_result_not_reserved.                   *)
CommitOkTruthful == [][Finishes("COMMIT", TRUE) => \A g \in Groups : ~db[g].lost]_vars

(* An error reply to a COMMIT, or to a multi-group write outside a         *)
(* transaction, means that no write of the transaction was committed: the  *)
(* "service unavailable" and timeout replies come before the decision.     *)
ErrorTruthful ==
    [][Finishes("COMMIT", FALSE) \/ Finishes("WRITE", FALSE)
        => \A g \in Groups : ~db[g].done]_vars

(* The refinement mapping: the branch of a group that has written is       *)
(* working until XA PREPARE, and commit is decided by the first XA COMMIT  *)
(* sent or by the XA COMMIT ONE PHASE that takes effect.                   *)
BranchOf(g) ==
    CASE db[g].done -> "committed"
      [] db[g].lost -> "aborted"
      [] ~db[g].done /\ ~db[g].lost /\ db[g].wrote /\ db[g].cur_xid ->
            IF db[g].branch = "prepared" THEN "prepared" ELSE "working"
      [] OTHER -> "none"

AC == INSTANCE AtomicCommit WITH
        branch <- [g \in Groups |-> BranchOf(g)],
        committing <- "COMMIT" \in issued \/ \E g \in Groups : db[g].done

(* The XA commands build_xa_statements sends, whatever the servers answer, *)
(* take the writes of a transaction through the steps of AtomicCommit: no  *)
(* commit before every branch that wrote is prepared, no abort after one.  *)
ImplementsAtomicCommit == AC!Spec

-----------------------------------------------------------------------------
(* What the event loop of the proxy does by itself. Each step is the       *)
(* handler of an event that stays pending (a readable socket, an expired   *)
(* timer) or the continuation of one, so it is taken eventually.           *)
ProxyStep ==
    \/ proxy_get_server_conn_list \/ ServersNotGot \/ process_shard_write
    \/ \E g \in Groups : \/ process_read_server(g)
                          \/ process_read_event_closed(g)
                          \/ process_timeout_event(g)
    \/ PrematureClose \/ disp_no_workers \/ disp_resp_workers_not_matched \/ disp_after_resp
    \/ send_result_to_client

(* Nothing is assumed of the servers: one that never answers is met by the *)
(* read timeout and the bound on the retries.                              *)
LiveSpec == Spec /\ WF_vars(ProxyStep)

(* Every statement is answered, or its connection closed: with servers     *)
(* that hang and pools that stay empty the timers of                       *)
(* network_mysqld_con_handle still bring the client back to reading.       *)
EveryStatementAnswered == con.state # "READ_QUERY" ~> con.state = "READ_QUERY"

(* The state of a distributed transaction is sound after every turn of the *)
(* event loop, whatever failed: each write is in the branch of its         *)
(* transaction, the decision is logged before it is sent and never         *)
(* contradicted, no connection is pooled with an open branch or an answer  *)
(* to come, a transaction that has written keeps its connections while its *)
(* client is idle, and handle_read_mul_servers_resp is never left without  *)
(* an event to wait for.                                                   *)
TranInv ==
    TypeOK /\ WritesInBranch /\ DecisionLogged /\ PooledIsClean /\ IdleKeepsTran /\ NeverStranded

(* The groups agree on the outcome: build_xa_statements gives one decision *)
(* per xid, and no write is committed while another is rolled back.        *)
Agreement == OneDecision /\ Atomicity
=============================================================================
