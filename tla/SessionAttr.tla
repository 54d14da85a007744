---------------------------- MODULE SessionAttr ----------------------------
(***************************************************************************)
(* The session attributes of the sharding build (shard-plugin.c,           *)
(* network-mysqld.c, server-session.c). A pooled server connection still   *)
(* has the user, database, character set and multi-statement option of its *)
(* last client; before a statement is sent, every connection that takes    *)
(* part is brought to the attributes of the client, one attribute after    *)
(* the other, each on all the connections that differ in it.               *)
(*                                                                         *)
(* Every group has one pooled connection: what Cetus records of it, the    *)
(* session it really has at the server, and the answer on its way. A       *)
(* server executes what it is sent at once and answers packet by packet.   *)
(* Clients are in autocommit mode; transactions are in XATran.             *)
(***************************************************************************)
EXTENDS RespTrack

CONSTANTS SAMixes, SAGroups, SADefault

VARIABLE sa

SAFixed == CHOOSE g \in SAGroups : \A h \in SAGroups : g <= h

(* A client: its statements so far have left it with these attributes.     *)
SAClient(user, db, cs, multi) == [user |-> user, db |-> db, cs |-> cs, multi |-> multi]

(* A statement: "query" goes to the groups of its plan; SET NAMES and USE  *)
(* (as a query or as COM_INIT_DB) to the fixed group.                      *)
SAStmt(k, plan, arg) == [k |-> k, plan |-> plan, arg |-> arg]

(* What a run may do: the clients in turn, the statements to choose from   *)
(* and their number, refused commands, lost connections, read timeouts.    *)
SAMix(clients, stmts, len, refused, lost, late) ==
    [clients |-> clients, stmts |-> stmts, len |-> len, refused |-> refused,
     lost |-> lost, late |-> late]

SANone == SAStmt("none", {}, "")

SAFreshSession == SAClient("u1", SADefault, "c1", FALSE)

(* network_connection_pool_new_conn: a connection opened for the pool.     *)
SAFresh ==
    [rec |-> SAFreshSession, real |-> SAFreshSession, alive |-> TRUE, held |-> FALSE,
     attr_consistent_checked |-> FALSE, attr_consistent |-> FALSE, attr_diff |-> {},
     attr_adjusted_now |-> FALSE, is_robbed |-> FALSE, finished |-> FALSE,
     qs_state |-> "INIT", inbox |-> <<>>, ran |-> {}]

SANew(mix) ==
    [pc |-> "idle", mix |-> mix, cl |-> Head(mix.clients), db |-> Head(mix.clients).db,
     next |-> Tail(mix.clients), st |-> SANone, c |-> [g \in SAGroups |-> SAFresh],
     adj |-> "START", unmatched |-> {}, q |-> network_mysqld_com_query_result_new,
     resp_err_met |-> FALSE, chuser_failed |-> FALSE, closing |-> FALSE,
     confused |-> FALSE, odd |-> FALSE]

SAOff == [SANew(SAMix(<<SAFreshSession>>, {}, 0, 0, 0, 0)) EXCEPT !.pc = "off"]

SAInit == \E mix \in SAMixes : sa = SANew(mix)

Held(s) == {g \in SAGroups : s.c[g].held}

(***************************************************************************)
(* Connections taken from and returned to the pool.                        *)
(***************************************************************************)

(* A connection with a stale answer is closed by the handler of idle       *)
(* connections, one that may not be pooled is closed and replaced.         *)
Returned(c, closing) ==
    IF closing \/ ~c.alive \/ c.inbox # <<>> THEN SAFresh ELSE [SAFresh EXCEPT !.rec = c.rec, !.real = c.real]

proxy_put_shard_conn_to_pool(s) ==
    [s EXCEPT !.c = [g \in SAGroups |-> IF @[g].held THEN Returned(@[g], s.closing) ELSE @[g]],
              !.adj = "START"]

proxy_add_server_connection_wrong(c, cl) ==
    IF c.held THEN c
    ELSE [c EXCEPT !.held = TRUE, !.is_robbed = FALSE,
                   !.attr_consistent_checked = FALSE, !.attr_consistent = FALSE]

(* A new server session; the connection is robbed when the queue of the    *)
(* client's own user is empty.                                             *)
proxy_add_server_connection(c, cl) ==
    IF c.held THEN c
    ELSE [c EXCEPT !.held = TRUE, !.is_robbed = (c.rec.user # cl.user),
                   !.attr_consistent_checked = FALSE, !.attr_consistent = FALSE]

(* The sessions of the groups in the plan are kept, the others returned.   *)
proxy_add_server_connection_array(s) ==
    [s EXCEPT !.c = [g \in SAGroups |->
        CASE g \in s.st.plan -> proxy_add_server_connection(@[g], s.cl)
          [] @[g].held -> Returned(@[g], FALSE)
          [] OTHER -> @[g]]]

(***************************************************************************)
(* Which attributes differ, and in which order they are adjusted.          *)
(***************************************************************************)

session_attr_flags == <<"USER", "DB", "CHARSET", "OPTION">>

SADiff(c, cl, cmd) ==
    (IF c.is_robbed THEN {"USER"}
     ELSE IF cmd # "INIT_DB" /\ cl.db # "" /\ cl.db # c.rec.db THEN {"DB"} ELSE {})
    \cup (IF cl.cs # c.rec.cs THEN {"CHARSET"} ELSE {})
    \cup (IF cl.multi # c.rec.multi THEN {"OPTION"} ELSE {})

SACommand(st) == IF st.k = "initdb" THEN "INIT_DB" ELSE "QUERY"

(* SET NAMES is not preceded by an adjustment: its charset is recorded.    *)
check_and_set_attr_bitmap(s) ==
    IF s.st.k = "names"
    THEN [s EXCEPT !.c = [g \in SAGroups |-> IF @[g].held THEN [@[g] EXCEPT !.rec.cs = s.cl.cs] ELSE @[g]]]
    ELSE LET Look(c) ==
               IF ~c.held THEN c
               ELSE IF c.attr_consistent_checked THEN [c EXCEPT !.attr_consistent = TRUE]
               ELSE LET d == SADiff(c, s.cl, SACommand(s.st))
                    IN [c EXCEPT !.attr_diff = d, !.attr_consistent = @ \/ d = {},
                                 !.attr_consistent_checked = TRUE]
         IN [s EXCEPT !.c = [g \in SAGroups |-> Look(@[g])],
                      !.unmatched = UNION {SADiff(s.c[g], s.cl, SACommand(s.st)) :
                                             g \in {h \in Held(s) : ~s.c[h].attr_consistent_checked}}]

(* The first attribute of `flags' after `attr', or START.                  *)
next_attribute(flags, attr) ==
    LET At(a) == CHOOSE i \in 1..4 : session_attr_flags[i] = a
        from == IF attr = "START" THEN 0 ELSE At(attr)
        later == {i \in (from + 1)..4 : session_attr_flags[i] \in flags}
    IN IF later = {} THEN "START" ELSE session_attr_flags[CHOOSE i \in later : \A j \in later : i <= j]

(***************************************************************************)
(* Sending. The server executes the command when it is sent: fate is       *)
(* "done" or "refused", rows says whether a query answers with rows.       *)
(***************************************************************************)

(* External: what MySQL does with a command, and what it answers. A user   *)
(* that is refused has the connection closed on them.                      *)
SAExecuted(c, cmd, cl, arg, fate) ==
    IF ~c.alive THEN c
    ELSE LET ok == fate # "refused" \/ cmd = "OPTION"
             real == CASE ~ok -> c.real
                       [] cmd = "USER" -> [c.real EXCEPT !.user = cl.user, !.db = cl.db, !.cs = cl.cs]
                       [] cmd \in {"DB", "use", "initdb"} -> [c.real EXCEPT !.db = arg]
                       [] cmd \in {"CHARSET", "names"} -> [c.real EXCEPT !.cs = arg]
                       [] cmd = "OPTION" -> [c.real EXCEPT !.multi = cl.multi]
                       [] OTHER -> c.real
             answer == CASE ~ok -> <<Plain("err")>>
                         [] cmd = "OPTION" -> <<Plain("eof")>>
                         [] cmd = "query" /\ fate = "rows" -> Header({}) \o <<Plain("eof")>>
                         [] OTHER -> <<Plain("ok")>>
         IN [c EXCEPT !.real = real, !.alive = @ /\ ~(cmd = "USER" /\ ~ok),
                      !.inbox = @ \o answer,
                      !.ran = IF cmd = "query" THEN @ \cup {c.real} ELSE @]

(* The value the command carries: the client's, or the statement's own.    *)
SAValue(s, cmd) ==
    CASE cmd = "DB" -> s.cl.db
      [] cmd = "CHARSET" -> s.cl.cs
      [] OTHER -> s.st.arg

(* One attribute is sent to the sessions that differ in it. SET NAMES and  *)
(* the option are recorded as soon as they are sent.                       *)
shard_set_consistant(s, attr, fate) ==
    LET Adjust(c, f) ==
          CASE ~c.held \/ c.attr_consistent -> c
            [] attr \notin c.attr_diff -> [c EXCEPT !.attr_adjusted_now = FALSE]
            [] OTHER -> [SAExecuted(c, attr, s.cl, SAValue(s, attr), f)
                           EXCEPT !.attr_adjusted_now = TRUE, !.finished = FALSE, !.qs_state = "INIT",
                                  !.is_robbed = @ /\ attr # "USER",
                                  !.rec.cs = IF attr = "CHARSET" THEN s.cl.cs ELSE @,
                                  !.rec.multi = IF attr = "OPTION" THEN s.cl.multi ELSE @]
        blank(c) == attr = "USER" /\ c.held /\ c.is_robbed /\ s.cl.db = "" /\ c.rec.db # ""
    IN [s EXCEPT !.adj = attr, !.resp_err_met = FALSE, !.pc = "wait",
                 !.c = [g \in SAGroups |-> Adjust(@[g], fate[g])],
                 !.odd = @ \/ \E g \in SAGroups : blank(s.c[g])]

(* The statement itself, to every session.                                 *)
disp_query_after_consistant_attr(s, fate) ==
    LET Send(c, f) ==
          IF c.held THEN [SAExecuted(c, s.st.k, s.cl, s.st.arg, f)
                            EXCEPT !.finished = FALSE, !.qs_state = "INIT"]
          ELSE c
        unseen(g) == /\ s.c[g].held /\ s.st.k = "use" /\ s.c[g].rec.db # s.st.arg
    IN [s EXCEPT !.adj = "START", !.resp_err_met = FALSE, !.pc = "wait",
                 !.c = [g \in SAGroups |-> Send(@[g], fate[g])],
                 !.db = IF s.st.k \in {"use", "initdb"} /\ fate[SAFixed] # "refused" THEN s.st.arg ELSE @,
                 !.odd = @ \/ \E g \in SAGroups : unseen(g)]

build_attr_statements(s, fate) ==
    LET attr == next_attribute(s.unmatched, s.adj)
    IN IF attr = "START" THEN disp_query_after_consistant_attr(s, fate)
       ELSE shard_set_consistant(s, attr, fate)

(* The outcomes of one round of commands: at most `refused' refusals.      *)
SAFates(s) ==
    {f \in [SAGroups -> {"done", "rows", "refused"}] :
        /\ Cardinality({g \in SAGroups : f[g] = "refused"}) <= s.mix.refused
        /\ \A g \in SAGroups : ~s.c[g].held => f[g] = "done"
        /\ \A g, h \in SAGroups : f[g] = "rows" => s.st.k = "query" /\ (s.c[h].held => f[h] # "done")}

SASpent(s, f) == [s EXCEPT !.mix.refused = @ - Cardinality({g \in SAGroups : f[g] = "refused"})]

(***************************************************************************)
(* Reading.                                                                *)
(***************************************************************************)

(* The sessions whose answer is awaited.                                   *)
Awaited(s) ==
    {g \in Held(s) : /\ ~s.c[g].finished
                     /\ s.adj # "START" => s.c[g].attr_adjusted_now /\ ~s.c[g].attr_consistent}

SAReading(s) ==
    CASE s.adj = "USER" -> "CHANGE_USER"
      [] s.adj = "DB" -> "INIT_DB"
      [] s.adj = "OPTION" -> "SET_OPTION"
      [] OTHER -> SACommand(s.st)

(* What is recorded when an answer is complete, whatever it says.          *)
set_conn_attr(s, g) ==
    CASE SAReading(s) = "CHANGE_USER" -> [s EXCEPT !.c[g].rec.user = s.cl.user]
      [] SAReading(s) = "INIT_DB" -> [s EXCEPT !.c[g].rec.db = s.cl.db]
      [] OTHER -> s

SAFinish(s, g) == [set_conn_attr(s, g) EXCEPT !.c[g].finished = TRUE]

(* COM_INIT_DB is tracked through the data of the running command: the     *)
(* first word of a query's tracker is taken for the name of the database.  *)
network_mysqld_proto_get_com_init_db(s, g, p) ==
    LET foreign == SACommand(s.st) = "QUERY" /\ s.q # network_mysqld_com_query_result_new
    IN IF p.t = "err" THEN [s EXCEPT !.resp_err_met = TRUE, !.confused = @ \/ foreign]
       ELSE [s EXCEPT !.c[g].rec.db = s.cl.db, !.confused = @ \/ foreign]

(* A packet of a query: the tracker is shared, the state is the session's. *)
SAQueryPacket(s, g, p) ==
    LET r == network_mysqld_proto_get_com_query_result([s.q EXCEPT !.state = s.c[g].qs_state], p, FALSE)
        t == [s EXCEPT !.q = r.parse, !.c[g].qs_state = r.parse.state]
    IN IF r.finished = 0 THEN t
       ELSE SAFinish([t EXCEPT !.resp_err_met = @ \/ r.parse.query_status = "err"], g)

SAChangeUserPacket(s, g, p) ==
    IF p.t = "err" THEN [s EXCEPT !.chuser_failed = TRUE]
    ELSE [s EXCEPT !.c[g].rec.user = s.cl.user, !.c[g].rec.db = IF s.cl.db # "" THEN s.cl.db ELSE @]

network_mysqld_read_mul_packets(s, g) ==
    LET p == Head(s.c[g].inbox)
        t == [s EXCEPT !.c[g].inbox = Tail(@)]
    IN CASE SAReading(s) = "CHANGE_USER" -> SAFinish(SAChangeUserPacket(t, g, p), g)
         [] SAReading(s) = "INIT_DB" -> SAFinish(network_mysqld_proto_get_com_init_db(t, g, p), g)
         [] SAReading(s) = "SET_OPTION" -> SAFinish(t, g)
         [] OTHER -> SAQueryPacket(t, g, p)

(* The statement has its result: sessions to be closed are closed; after a *)
(* failed change of user the client is closed.                             *)
proxy_send_query_result(s) ==
    LET t == IF s.closing THEN proxy_put_shard_conn_to_pool(s) ELSE s
        unheeded == s.cl.db # s.db \/ (s.st.k # "query" /\ (s.resp_err_met \/ s.closing))
    IN [t EXCEPT !.odd = @ \/ unheeded, !.st = SANone, !.pc = IF s.chuser_failed /\ ~s.closing THEN "gone" ELSE "idle",
                 !.chuser_failed = @ /\ s.closing]

(* An attribute is adjusted everywhere: the next one, or the statement.    *)
disp_attr(s, fate) ==
    IF s.resp_err_met THEN proxy_send_query_result([s EXCEPT !.closing = TRUE])
    ELSE build_attr_statements(s, fate)

(* All answers are in: go on with the attributes, or answer the client     *)
(* (with an error when a session has nothing to say); otherwise wait.      *)
SAResume(after) ==
    \E s \in {after} :
        IF Awaited(s) # {} THEN sa' = s
        ELSE IF s.adj = "START" THEN sa' = proxy_send_query_result(s)
        ELSE \E f \in SAFates(s) : sa' = disp_attr(SASpent(s, f), f)

(***************************************************************************)
(* Actions.                                                                *)
(***************************************************************************)

(* The attributes the statement changes are the client's from now on.      *)
SAParsed(s, st) ==
    LET given == IF s.cl.db = "" /\ st.k # "use" THEN SADefault ELSE s.cl.db
    IN [s EXCEPT !.st = st, !.mix.len = @ - 1, !.adj = "START", !.closing = IF st.k = "initdb" THEN @ ELSE FALSE,
                 !.q = network_mysqld_com_query_result_new, !.unmatched = {},
                 !.cl.cs = IF st.k = "names" THEN st.arg ELSE @,
                 !.cl.db = IF st.k \in {"use", "initdb"} THEN st.arg ELSE given,
                 !.db = IF @ = "" /\ st.k # "use" THEN SADefault ELSE @,
                 !.c = [g \in SAGroups |-> [@[g] EXCEPT !.ran = {}]]]

(* proxy_read_query to proxy_get_server_conn_list.                         *)
SAStatement(st) ==
    /\ sa.pc = "idle" /\ sa.mix.len > 0
    /\ \E s \in {proxy_add_server_connection_array(SAParsed(sa, st))} :
       \E t \in {check_and_set_attr_bitmap(s)} :
       \E f \in SAFates(t) : sa' = build_attr_statements(SASpent(t, f), f)

(* server_session_con_handler, the socket being readable.                  *)
SARead(g) ==
    /\ sa.pc = "wait" /\ g \in Awaited(sa) /\ sa.c[g].inbox # <<>>
    /\ SAResume(network_mysqld_read_mul_packets(sa, g))

SAEof_wrong(g) ==
    /\ sa.pc = "wait" /\ g \in Awaited(sa) /\ sa.c[g].inbox = <<>> /\ ~sa.c[g].alive
    /\ sa' = [sa EXCEPT !.closing = TRUE]

(* The server has closed the connection: nothing to read is an answer too. *)
SAEof(g) ==
    /\ sa.pc = "wait" /\ g \in Awaited(sa) /\ sa.c[g].inbox = <<>> /\ ~sa.c[g].alive
    /\ SAResume([SAFinish(sa, g) EXCEPT !.closing = TRUE])

(* The answer does not come in time: the session counts as read.           *)
process_timeout_event(g) ==
    /\ sa.pc = "wait" /\ g \in Awaited(sa) /\ sa.mix.late > 0
    /\ SAResume([sa EXCEPT !.mix.late = @ - 1, !.c[g].finished = TRUE, !.odd = TRUE,
                           !.closing = @ \/ sa.adj = "START"])

(* proxy_timeout: a client that is silent gives its connections back.      *)
SAIdle ==
    /\ sa.pc = "idle" /\ Held(sa) # {}
    /\ sa' = proxy_put_shard_conn_to_pool(sa)

(* The client leaves and the next one comes.                               *)
SANextClient ==
    /\ sa.pc \in {"idle", "gone"} /\ sa.next # <<>>
    /\ sa' = [proxy_put_shard_conn_to_pool(sa)
                EXCEPT !.pc = "idle", !.closing = FALSE, !.cl = Head(sa.next), !.db = Head(sa.next).db,
                       !.next = Tail(@), !.chuser_failed = FALSE]

(* External: a server or the network drops a connection in use.            *)
SALost(g) ==
    /\ sa.pc = "wait" /\ sa.c[g].held /\ sa.c[g].alive /\ sa.mix.lost > 0
    /\ sa' = [sa EXCEPT !.mix.lost = @ - 1, !.c[g].alive = FALSE]

SANext ==
    \/ \E st \in sa.mix.stmts : SAStatement(st)
    \/ \E g \in SAGroups : SARead(g)
    \/ \E g \in SAGroups : SAEof(g)
    \/ \E g \in SAGroups : process_timeout_event(g)
    \/ SAIdle
    \/ SANextClient
    \/ \E g \in SAGroups : SALost(g)

(* Answers that have arrived, and connections that are closed, are seen.   *)
SAFairness == WF_sa(\E g \in SAGroups : SARead(g) \/ SAEof(g))

SASpec == SAInit /\ [][SANext]_sa /\ SAFairness

(***************************************************************************)
(* Properties.                                                             *)
(***************************************************************************)

(* The states of the exchange: no session is left out of the adjustment    *)
(* that is under way, and the state the tracker keeps per session is one   *)
(* of its states.                                                          *)
SATypeOK ==
    /\ sa.pc \in {"off", "idle", "wait", "gone"}
    /\ sa.adj \in {"START", "USER", "DB", "CHARSET", "OPTION"}
    /\ sa.pc = "wait" => /\ Held(sa) = sa.st.plan
                         /\ Awaited(sa) # {}
    /\ \A g \in SAGroups : sa.c[g].qs_state \in {"INIT", "FIELD", "RESULT"}

(* A statement is executed by every server in the session of the client    *)
(* that sent it: user, database, character set and multi-statement option, *)
(* whatever the connection was used for before and whatever was refused or *)
(* lost on the way (check_and_set_attr_bitmap, disp_attr). `odd' marks the *)
(* cases in which the code gives this up.                                  *)
AttrsAgree ==
    ~sa.odd => \A g \in SAGroups : \A r \in sa.c[g].ran :
                  r = [sa.cl EXCEPT !.db = IF sa.db = "" THEN r.db ELSE sa.db]

(* What Cetus records of a connection that is not in the middle of an      *)
(* exchange is the session it has at the server: the next client's         *)
(* adjustment starts from it (set_conn_attr, server_to_be_closed).         *)
CacheTrue ==
    ~sa.odd /\ sa.pc = "idle" => \A g \in SAGroups : sa.c[g].alive => sa.c[g].rec = sa.c[g].real

(* The answers of several servers are tracked through one tracker: an      *)
(* answer counts as complete exactly when its last packet has been read    *)
(* (the qs_state saved and restored by network_mysqld_read_mul_packets).   *)
AnswersWhole ==
    ~sa.odd /\ sa.pc = "wait" =>
        \A g \in Held(sa) : sa.c[g].alive =>
            (g \in Awaited(sa) <=> sa.c[g].inbox # <<>>)

(* A COM_INIT_DB answer is read through the tracker of the query that is   *)
(* being prepared, whose first bytes are taken for a pointer: it is safe   *)
(* because databases are adjusted before anything that uses the tracker.   *)
InitDbFirst == ~sa.confused

(* Every statement is answered: no attribute, no closed connection and no  *)
(* timeout leaves the client waiting.                                      *)
SAAnswered == sa.pc = "wait" ~> sa.pc \in {"idle", "gone"}

(* "we have to track the default internally can only accept it if the      *)
(* server side OK'ed it" (network-mysqld-packet.h): the database Cetus     *)
(* has for the client is one a server has accepted.                        *)
DbAccepted == sa.pc = "idle" => sa.cl.db = sa.db

(* A statement runs in the session of the client that sent it, what is     *)
(* recorded of an idle connection is true, and the answers to the          *)
(* adjustments are read whole, each by its own tracker                     *)
(* (check_and_set_attr_bitmap, disp_attr, set_conn_attr).                  *)
SessionRight == SATypeOK /\ AttrsAgree /\ CacheTrue /\ AnswersWhole /\ InitDbFirst
=============================================================================
