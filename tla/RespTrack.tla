----------------------------- MODULE RespTrack -----------------------------
(***************************************************************************)
(* How Cetus tells where the answer of a server ends                       *)
(* (network-mysqld-packet.c). A packet is known by the first byte of its   *)
(* payload and by the status flags it carries; the tracker of the running  *)
(* command looks at one packet at a time and says 1 (this was the last),   *)
(* 0 (more to come) or -1 (not a packet of this command).                  *)
(*                                                                         *)
(* A row may begin with the byte of an EOF packet when its first value is  *)
(* huge: "long" is such a row, told apart by its length.                   *)
(***************************************************************************)
EXTENDS Integers, Sequences, FiniteSets

StatusFlags == {"more", "cursor", "out", "last"}

(* The packets of a server: type, status flags and the number of EOFs a    *)
(* prepared statement announces (parameters, columns).                     *)
Packet(t, flags, eofs) == [t |-> t, flags |-> flags, eofs |-> eofs]

Plain(t) == Packet(t, {}, 0)

network_mysqld_com_query_result_new ==
    [state |-> "INIT", query_status |-> "none", server_status |-> {}]

stmt_prepare_result_new == [first_packet |-> TRUE, want_eofs |-> 0]

Track(parse, finished) == [parse |-> parse, finished |-> finished]

(* The tracker of COM_QUERY and COM_STMT_EXECUTE.                          *)
QueryInit(q, p) ==
    CASE p.t = "err" -> Track([q EXCEPT !.query_status = "err"], 1)
      [] p.t = "ok" -> Track([q EXCEPT !.query_status = "ok", !.server_status = p.flags],
                             IF "more" \in p.flags THEN 0 ELSE 1)
      [] p.t = "null" -> Track([q EXCEPT !.state = "LOCAL_INFILE_DATA"], 1)
      [] p.t \in {"eof", "long"} -> Track(q, -1)
      [] OTHER -> Track([q EXCEPT !.query_status = "ok", !.state = "FIELD"], 0)

QueryField(q, p, binary) ==
    LET cursorOnly == binary /\ "cursor" \in p.flags /\ "more" \notin p.flags
    IN CASE p.t \in {"err", "ok", "null"} -> Track(q, -1)
         [] p.t = "eof" /\ cursorOnly -> Track([q EXCEPT !.server_status = p.flags], 1)
         [] p.t = "eof" -> Track([q EXCEPT !.state = "RESULT", !.server_status = p.flags], 0)
         [] p.t = "long" -> Track([q EXCEPT !.state = "RESULT"], 0)
         [] OTHER -> Track(q, 0)

(* A result set with output parameters keeps the flags of its first EOF.   *)
QueryResult(q, p) ==
    LET status == IF "out" \in q.server_status THEN q.server_status ELSE p.flags
    IN CASE p.t = "eof" ->
              IF "more" \in status
              THEN Track([q EXCEPT !.state = "INIT", !.server_status = status], 0)
              ELSE Track([q EXCEPT !.server_status = status], 1)
         [] p.t = "err" -> Track(q, 1)
         [] OTHER -> Track(q, 0)

network_mysqld_proto_get_com_query_result(q, p, binary) ==
    CASE q.state = "INIT" -> QueryInit(q, p)
      [] q.state = "FIELD" -> QueryField(q, p, binary)
      [] q.state = "RESULT" -> QueryResult(q, p)
      [] OTHER -> Track(q, 0)

(* The tracker of COM_STMT_PREPARE counts the EOFs the header announces.   *)
network_mysqld_proto_get_com_stmt_prep_result(u, p) ==
    IF u.first_packet
    THEN Track([first_packet |-> FALSE, want_eofs |-> p.eofs],
               IF p.t = "err" \/ p.eofs = 0 THEN 1 ELSE 0)
    ELSE LET left == IF p.t = "eof" THEN u.want_eofs - 1 ELSE u.want_eofs
         IN Track([u EXCEPT !.want_eofs = left], IF p.t = "eof" /\ left = 0 THEN 1 ELSE 0)

command_states_init(command) ==
    CASE command \in {"QUERY", "PROCESS_INFO", "STMT_EXECUTE"} -> network_mysqld_com_query_result_new
      [] command = "STMT_PREPARE" -> stmt_prepare_result_new
      [] OTHER -> <<>>

Finishes(p, types) == IF p.t \in types THEN 1 ELSE -1

network_mysqld_proto_get_query_result(command, parse, p) ==
    CASE command \in {"RESET_CONNECTION", "CHANGE_USER", "INIT_DB", "PING", "STMT_RESET"} ->
           Track(parse, Finishes(p, {"err", "ok"}))
      [] command = "SET_OPTION" -> Track(parse, Finishes(p, {"err", "eof", "long"}))
      [] command = "FIELD_LIST" ->
           Track(parse, IF p.t \in {"err", "eof", "long"} THEN 1
                        ELSE IF p.t \in {"null", "ok"} THEN -1 ELSE 0)
      [] command = "STMT_FETCH" ->
           Track(parse, IF p.t = "err" \/ (p.t \in {"eof", "long"} /\ p.flags \cap {"last", "cursor"} # {})
                        THEN 1 ELSE 0)
      [] command \in {"QUIT", "STATISTICS", "BINLOG_DUMP"} -> Track(parse, 1)
      [] command = "STMT_PREPARE" -> network_mysqld_proto_get_com_stmt_prep_result(parse, p)
      [] command = "STMT_EXECUTE" -> network_mysqld_proto_get_com_query_result(parse, p, TRUE)
      [] command \in {"QUERY", "PROCESS_INFO"} -> network_mysqld_proto_get_com_query_result(parse, p, FALSE)
      [] OTHER -> Track(parse, -1)

-----------------------------------------------------------------------------
(* What a server may send (external): the answers of the protocol to each  *)
(* command. A text row begins with any byte but that of an error, a binary *)
(* row with that of an OK.                                                 *)
Rows(kinds, max) == UNION {[1..n -> {Plain(k) : k \in kinds}] : n \in 0..max}

Header(flags) == <<Plain("data"), Plain("data"), Packet("eof", flags, 0)>>

OneResult(flags, kinds, max) ==
    {<<Packet("ok", flags, 0)>>}
        \cup {Header({}) \o rows \o <<Packet("eof", flags, 0)>> : rows \in Rows(kinds, max)}

Failing(kinds, max) ==
    {<<Plain("err")>>} \cup {Header({}) \o rows \o <<Plain("err")>> : rows \in Rows(kinds, max)}

QueryAnswers(kinds, max) ==
    OneResult({}, kinds, max) \cup Failing(kinds, max)
        \cup {first \o rest : first \in OneResult({"more"}, kinds, max),
                              rest \in OneResult({}, kinds, 0) \cup Failing(kinds, 0)}

(* A cursor opened by STMT_EXECUTE has no rows yet; a procedure with       *)
(* output parameters closes with an OK of its own.                         *)
ExecuteAnswers(kinds, max) ==
    QueryAnswers(kinds, max) \cup {Header({"cursor"})}
        \cup {Header({"out", "more"}) \o rows \o <<Plain("eof"), Plain("ok")>> : rows \in Rows(kinds, max)}

PrepareAnswers ==
    {<<Plain("err")>>, <<Plain("ok")>>,
     <<Packet("ok", {}, 1), Plain("data"), Plain("eof")>>,
     <<Packet("ok", {}, 2), Plain("data"), Plain("eof"), Plain("data"), Plain("data"), Plain("eof")>>}

FetchAnswers(kinds, max) ==
    {<<Plain("err")>>} \cup {rows \o <<Packet("eof", {f}, 0)>> : rows \in Rows(kinds, max), f \in {"last", "cursor"}}

Answers(command, kinds, max) ==
    CASE command = "QUERY" -> QueryAnswers(kinds, max)
      [] command = "STMT_EXECUTE" -> ExecuteAnswers({"ok"}, max)
      [] command = "STMT_PREPARE" -> PrepareAnswers
      [] command = "STMT_FETCH" -> FetchAnswers({"ok"}, max)
      [] command = "FIELD_LIST" -> {<<Plain("err")>>, <<Plain("eof")>>, <<Plain("data"), Plain("eof")>>}
      [] command = "SET_OPTION" -> {<<Plain("err")>>, <<Plain("eof")>>}
      [] command = "STATISTICS" -> {<<Plain("data")>>}
      [] OTHER -> {<<Plain("err")>>, <<Plain("ok")>>}
=============================================================================
