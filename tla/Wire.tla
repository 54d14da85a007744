-------------------------------- MODULE Wire --------------------------------
(***************************************************************************)
(* The bytes of one answer on their way from a server to the client        *)
(* (network-mysqld.c, network-queue.c, network-socket.c).                  *)
(*                                                                         *)
(* The server's bytes arrive in pieces of any size. On the plain path they *)
(* are cut into packets and every packet goes through the tracker of       *)
(* RespTrack. On the fast path (fast_analyze_stream) the pieces themselves *)
(* are queued for the client and the analysis jumps from header to header: *)
(*   next  analysis_next_pos, where the next header begins                 *)
(*   cur   cur_resp_len, the bytes analysed                                *)
(*   eofs  eof_met_cnt, EOFs counted once and errors twice                 *)
(*   held  last_payload_len, bytes of a header cut by the end of a piece   *)
(*   left  partically_record_left_cnt, pieces already analysed that were   *)
(*         held back because they end within a packet                      *)
(*                                                                         *)
(* A piece is the interval [from, to) of positions in the answer. The two  *)
(* cases in which the analysis is known to be wrong are remembered:        *)
(*   blind  a piece ended right before the byte that tells the type of the *)
(*          packet, and the byte read instead was none of the answer's     *)
(*   cut    the last packet was counted before all of it had come, and     *)
(*          nothing says that more is needed                               *)
(***************************************************************************)
EXTENDS RespTrack, SequencesExt

CONSTANTS WMixes     \* commands, answers and modes to try

VARIABLE w

NET_HEADER_SIZE == 4

(* Sizes with the header and type: at least 5; an EOF or an error may be   *)
(* cut twice after its type.                                               *)
WSize(p) == CASE p.t \in {"eof", "err"} -> 7 [] p.t = "data" -> 5 [] OTHER -> 6

WEnds(resp) ==
    LET end[k \in 0..Len(resp)] == IF k = 0 THEN 0 ELSE end[k - 1] + WSize(resp[k])
    IN end

(* A mix: the command, the packets of the answer and where each ends, the  *)
(* fast or plain path, the build, and whether parts of a plain answer are  *)
(* forwarded.                                                              *)
WMix(command, resp, fast, build, stream) ==
    [command |-> command, resp |-> resp, ends |-> WEnds(resp), total |-> WEnds(resp)[Len(resp)],
     fast |-> fast, build |-> build, stream |-> stream]

(* The packet whose header is read at a position of the answer.            *)
WAt(mix, pos) ==
    LET ks == {k \in 1..Len(mix.resp) : mix.ends[k - 1] = pos}
    IN IF ks = {} THEN Plain("ok") ELSE mix.resp[CHOOSE k \in ks : TRUE]

Piece(from, to) == [from |-> from, to |-> to]

(* A piece at the end of a queue; neighbours are as good as one.           *)
WPush(q, c) ==
    IF c.from = c.to THEN q
    ELSE IF q # <<>> /\ Last(q).to = c.from THEN [q EXCEPT ![Len(q)].to = c.to]
    ELSE Append(q, c)

WNew(mix) ==
    [mix |-> mix, pc |-> "reading", fed |-> 0, raw |-> <<>>, recv |-> <<>>, send |-> <<>>, got |-> 0,
     took |-> 0, parse |-> command_states_init(mix.command), todo |-> <<>>,
     next |-> 0, cur |-> 0, eofs |-> 0, held |-> 0, left |-> 0,
     output |-> FALSE, more |-> FALSE, cut |-> FALSE, blind |-> FALSE]

WOff == [WNew(WMix("QUERY", <<>>, FALSE, "rw", FALSE)) EXCEPT !.pc = "off"]

WInit == \E mix \in WMixes : w = WNew(mix)

-----------------------------------------------------------------------------
(* fast_analyze_stream, one piece c of the raw queue.                      *)
Weight(t) == CASE t = "eof" -> 1 [] t = "err" -> 2 [] OTHER -> 0

Weights(mix, ks) ==
    Cardinality({k \in ks : mix.resp[k].t = "eof"}) + 2 * Cardinality({k \in ks : mix.resp[k].t = "err"})

(* A packet that reaches beyond the piece: the piece is kept whole and the *)
(* next one is asked for, but nothing says that more is needed.            *)
Beyond(s, c, p, type) ==
    [s EXCEPT !.held = 0, !.cur = @ + (c.to - c.from), !.next = @ + WSize(p),
              !.eofs = @ + Weight(type), !.blind = @ \/ (type # p.t),
              !.cut = @ \/ s.next + WSize(p) = s.mix.total, !.raw = Append(@, c)]

(* The packets whose header and type lie in the rest of a piece.           *)
Starts(s, c, header) ==
    {k \in 1..Len(s.mix.resp) : s.mix.ends[k - 1] \in header..(c.to - 1 - NET_HEADER_SIZE)}

HoldBack_wrong(s, c, whole) ==
    [s EXCEPT !.more = TRUE, !.recv = <<Piece(c.from + whole, c.to)>>,
              !.raw = Append(@, Piece(c.from, c.from + whole))]

(* What follows the last complete packet of the piece is held back.        *)
HoldBack(s, c, whole) ==
    [s EXCEPT !.more = TRUE, !.recv = <<Piece(c.from + whole, c.to)>>,
              !.raw = Append(@, Piece(c.from, c.from + whole)), !.left = @ + 1]

(* One packet of the piece is complete: go on from header to header.       *)
Walk(s, c, p, header, complete) ==
    LET ks == Starts(s, c, header)
        stopAt == Max({header} \cup {s.mix.ends[k] : k \in ks})
        whole == complete + Max({0} \cup {s.mix.ends[k] - header : k \in {j \in ks : s.mix.ends[j] <= c.to}})
        cur == s.cur + (c.to - c.from)
        next == s.next + WSize(p) + (stopAt - header)
        walked == [s EXCEPT !.cur = cur, !.next = next, !.eofs = @ + Weight(p.t) + Weights(s.mix, ks),
                            !.held = IF stopAt < c.to THEN c.to - stopAt ELSE 0, !.output = TRUE]
    IN IF next = cur THEN [walked EXCEPT !.raw = Append(@, c)] ELSE HoldBack(walked, c, whole)

(* The header began in an earlier piece, which left "held" bytes of it.    *)
SplitHeader(s, c, junk) ==
    LET p == WAt(s.mix, s.next)
        type == IF NET_HEADER_SIZE - s.held < c.to - c.from THEN p.t ELSE junk
        header == c.from - (s.cur - s.next) + WSize(p)
    IN IF header <= c.to THEN Walk(s, c, p, header, WSize(p) - s.held)
       ELSE Beyond(s, c, p, type)

NewHeader(s, c) ==
    LET header == c.from + (s.next - s.cur)
        p == WAt(s.mix, header)
    IN IF header >= c.to - NET_HEADER_SIZE
       THEN [s EXCEPT !.cur = @ + (c.to - c.from), !.held = IF header >= c.to THEN 0 ELSE c.to - header,
                      !.cut = @ \/ (header > c.to /\ s.next = s.mix.total), !.raw = Append(@, c)]
       ELSE IF header + WSize(p) <= c.to
       THEN Walk(s, c, p, header + WSize(p), s.next - s.cur + WSize(p))
       ELSE Beyond(s, c, p, p.t)

AnalyzePiece(s, c, junk) ==
    CASE s.left > 0 -> [s EXCEPT !.left = @ - 1, !.raw = Append(@, c)]
      [] s.left = 0 /\ s.held > 0 /\ s.held + c.to - c.from < NET_HEADER_SIZE ->
           [s EXCEPT !.held = @ + (c.to - c.from), !.cur = @ + (c.to - c.from), !.raw = Append(@, c)]
      [] OTHER -> IF s.next < s.cur THEN SplitHeader(s, c, junk) ELSE NewHeader(s, c)

-----------------------------------------------------------------------------
(* network_mysqld_write: the client takes nothing, a part or all of the    *)
(* first piece queued for it.                                              *)
network_mysqld_write(s) ==
    IF s.send = <<>> THEN {s}
    ELSE LET c == s.send[1]
             half == (c.to - c.from) \div 2
         IN {s, [s EXCEPT !.send[1].from = @ + half, !.got = @ + half],
                [s EXCEPT !.send = Tail(@), !.got = @ + (c.to - c.from)]}

send_part_content_to_client(s, may) == IF may THEN network_mysqld_write(s) ELSE {s}

(* Bytes of the answer are there; all that ioctl() counts are read as one  *)
(* piece (network_socket_read).                                            *)
WRead(n) ==
    /\ w.pc = "reading"
    /\ w.fed + n <= w.mix.total
    /\ LET raw == Append(w.raw, Piece(w.fed, w.fed + n))
       IN w' = [w EXCEPT !.fed = @ + n, !.pc = IF w.mix.fast THEN "fast" ELSE "plain",
                         !.todo = IF w.mix.fast THEN raw ELSE <<>>,
                         !.raw = IF w.mix.fast THEN <<>> ELSE WPush(w.raw, Piece(w.fed, w.fed + n)),
                         !.output = FALSE, !.more = FALSE]

WPiece ==
    /\ w.pc = "fast" /\ w.todo # <<>>
    /\ \E junk \in {"data", "eof", "err"} :
          w' = AnalyzePiece([w EXCEPT !.todo = Tail(@)], Head(w.todo), junk)

(* The pieces go to the client's queue, what was held back becomes the raw *)
(* queue.                                                                  *)
Moved(s) ==
    [s EXCEPT !.send = IF s.raw = <<>> THEN @
                       ELSE IF Len(s.raw) = 1 THEN WPush(@, s.raw[1]) ELSE WPush(WPush(@, s.raw[1]), s.raw[2]),
              !.raw = s.recv, !.recv = <<>>]

(* The sharding build forwards nothing before the end and then empties the *)
(* server's queues.                                                        *)
network_mysqld_process_select_resp ==
    /\ w.pc = "fast" /\ w.todo = <<>>
    /\ \E s \in {Moved(w)} :
          IF w.eofs > 1 /\ ~w.more
          THEN w' = [s EXCEPT !.pc = "sending", !.raw = IF w.mix.build = "rw" THEN @ ELSE <<>>]
          ELSE w' \in send_part_content_to_client([s EXCEPT !.pc = "reading"],
                                                  w.mix.build = "rw" /\ w.output)

(* The plain path: network_mysqld_con_get_packet takes one packet and the  *)
(* tracker of the command looks at it. After the last one the packets go   *)
(* to the client (normal_read_query_result).                               *)
WTake ==
    /\ w.pc = "plain" /\ w.took < Len(w.mix.resp)
    /\ w.mix.ends[w.took + 1] <= w.fed
    /\ \E t \in {network_mysqld_proto_get_query_result(w.mix.command, w.parse, w.mix.resp[w.took + 1])} :
          LET c == Piece(w.mix.ends[w.took], w.mix.ends[w.took + 1])
              rest == WPush(<<>>, Piece(c.to, w.fed))
          IN w' = IF t.finished = 1
                  THEN [w EXCEPT !.took = @ + 1, !.parse = t.parse, !.raw = rest, !.pc = "sending",
                                 !.recv = <<>>, !.send = WPush(IF w.recv = <<>> THEN @ ELSE WPush(@, w.recv[1]), c)]
                  ELSE [w EXCEPT !.took = @ + 1, !.parse = t.parse, !.raw = rest, !.recv = WPush(@, c)]

(* The next packet is not complete: what there is goes to the client's     *)
(* queue, and is written when answers are streamed.                        *)
WWait ==
    /\ w.pc = "plain"
    /\ w.took = Len(w.mix.resp) \/ w.mix.ends[w.took + 1] > w.fed
    /\ \E s \in {[w EXCEPT !.pc = "reading", !.recv = <<>>,
                            !.send = IF w.recv = <<>> THEN @ ELSE WPush(@, w.recv[1])]} :
          w' \in send_part_content_to_client(s, w.mix.stream)

(* ST_SEND_QUERY_RESULT: what is queued is written until nothing is left.  *)
WSend ==
    /\ w.pc = "sending"
    /\ \E s \in network_mysqld_write(w) \ {w} :
          w' = [s EXCEPT !.pc = IF s.send = <<>> THEN "done" ELSE @]

WStep == WPiece \/ network_mysqld_process_select_resp \/ WTake \/ WWait

WArrive == \E n \in 1..w.mix.total : WRead(n)

WNext == WArrive \/ WStep \/ WSend

(* The server sends its whole answer and the client reads (the timeouts of *)
(* both are not modelled here).                                            *)
WFairness == WF_w(WArrive) /\ WF_w(WStep) /\ SF_w(WSend /\ w'.pc = "done")

-----------------------------------------------------------------------------
(* The counters and queues stay in range: the bytes of a header kept for   *)
(* later are at most a header, and at most one piece is held back.         *)
WTypeOK ==
    /\ w.pc \in {"off", "reading", "fast", "plain", "sending", "done"}
    /\ w.fed \in 0..w.mix.total /\ w.got \in 0..w.fed /\ Len(w.raw) <= 2 /\ Len(w.recv) <= 1
    /\ w.held \in 0..NET_HEADER_SIZE /\ w.left \in 0..1

(* The answer is taken as finished at its last byte: never before it (the  *)
(* rest would be read as the answer of the next statement) and never later *)
(* (the client would wait for nothing), however the bytes are cut into     *)
(* pieces, on the fast path and with the tracker of every command.         *)
EndExact ==
    w.pc \in {"reading", "sending", "done"} /\ ~w.cut /\ ~w.blind
        => (w.pc = "reading" <=> w.fed < w.mix.total)

(* The client gets the bytes of the server in order, none lost, none       *)
(* twice: what it has, what is queued for it and what is held back follow  *)
(* each other up to the last byte read.                                    *)
InOrder ==
    w.pc \in {"reading", "sending", "done"} =>
        LET queued == IF w.raw = <<>> THEN w.send ELSE WPush(w.send, w.raw[1])
        IN queued = WPush(<<>>, Piece(w.got, w.fed))

(* Between two reads the fast analysis stands at the start of a packet     *)
(* that it has not counted, and has counted every packet before it; a      *)
(* header is kept exactly when it has begun and its type is not yet known. *)
Aligned ==
    w.pc = "reading" /\ w.mix.fast /\ ~w.blind =>
        /\ w.cur = w.fed
        /\ w.next \in {w.mix.ends[k] : k \in 0..Len(w.mix.resp)}
        /\ w.eofs = Weights(w.mix, {k \in 1..Len(w.mix.resp) : w.mix.ends[k] <= w.next})
        /\ w.held = IF w.next < w.fed THEN w.fed - w.next ELSE 0

(* Every answer that comes in full reaches the client in full.             *)
WAnswered == (w.pc = "reading") ~> (w.blind \/ w.cut \/ (w.pc = "done" /\ w.got = w.mix.total))

(* However an answer is cut into pieces, its end is found at its last      *)
(* byte, the fast analysis stays aligned with the packets, and the client  *)
(* gets the bytes in order (network_mysqld_proto_get_query_result,         *)
(* fast_analyze_stream).                                                   *)
StreamRight == WTypeOK /\ EndExact /\ InOrder /\ Aligned
=============================================================================
