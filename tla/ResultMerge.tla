---------------------------- MODULE ResultMerge ----------------------------
(***************************************************************************)
(* Merging the result sets of several shards into one answer               *)
(* (src/resultset_merge.c, driven by src/server-session.c).                *)
(*                                                                         *)
(* A SELECT without aggregates is merged while it is still being read:     *)
(* every shard's rows arrive in chunks, the merge runs until it needs a    *)
(* row that is not there, registers a read event for the shard it lacks    *)
(* and is resumed from that event (do_tcp_stream_after_recv_resp).  With   *)
(* an ORDER BY the rows come off a heap of one row per shard; without one  *)
(* the queues are emptied shard by shard.  The process is single-threaded, *)
(* so while the merge loop runs (rm.pc is "sort", "simple" or "drop") no   *)
(* event is handled; a step of the model is one round of such a loop.      *)
(*                                                                         *)
(* A packet is a natural number: a row is its ORDER BY key, 0 standing for *)
(* a column that is NULL or empty; HDR, END, ERRP and SCI are below.       *)
(***************************************************************************)
EXTENDS Integers, Sequences, FiniteSets, SequencesExt

CONSTANTS
    RMShards,       \* 1 .. n: the participating server sessions
    RMInputs        \* the queries and the results of their shards, see RMInit

VARIABLES
    rm_in,          \* the query and the shards' answers
    rm_net,         \* what each shard has yet to deliver
    rm_q,           \* recv_queue of each shard
    rm_cand,        \* candidates[i] is not NULL (it is then the queue's head)
    rm_heap,        \* [ord: position -> element, el: element -> its flags]
    rm              \* the merge's own state and that of the client connection

rm_vars == <<rm_in, rm_net, rm_q, rm_cand, rm_heap, rm>>

HDR == 100          \* result header, field definitions and their EOF
END == 101          \* the EOF packet that ends the rows
ERRP == 102         \* an ERR packet
SCI == 103          \* a row whose key is a number in scientific notation

RMN == Cardinality(RMShards)
HdrLen == 2

\* get_pkt_type is EOF or ERR
IsEnd(p) == p \in {END, ERRP}

\* The column value get_column leaves in the buffer: for a packet that is no
\* row the length cannot be decoded, and the buffer stays empty.
KeyOf(p) == IF p \in {END, ERRP, HDR} THEN 0 ELSE p

(***************************************************************************)
(* The heap.                                                               *)
(***************************************************************************)
Rec(i) == rm_q[i][1]

\* is_prior_to for the rows at the head of the queues of shards a and b.
PriorTo(a, b) ==
    IF rm_in.desc THEN KeyOf(Rec(a)) >= KeyOf(Rec(b))
                  ELSE KeyOf(Rec(a)) <= KeyOf(Rec(b))

\* is_record_equal
SameKey(a, b) == KeyOf(Rec(a)) = KeyOf(Rec(b))

\* compare_failed: cmp_str_pos_num refuses the number
Uncomparable(a, b) == SCI \in {Rec(a), Rec(b)}

NewElement == [over |-> FALSE, refreshed |-> FALSE, prior |-> 0, dup |-> FALSE,
               null |-> FALSE]

PickChild_wrong(h, j) ==
    LET L == h.ord[j]
        R == h.ord[j + 1]
    IN  IF j = RMN THEN [h EXCEPT !.j = j, !.done = h.el[L].over]
        ELSE IF h.el[L].over THEN [h EXCEPT !.j = j + 1, !.done = h.el[R].over]
        ELSE IF h.el[R].over THEN [h EXCEPT !.j = j]
        ELSE IF h.el[L].prior = -1 THEN [h EXCEPT !.j = j + 1]
        ELSE IF PriorTo(L, R) THEN [h EXCEPT !.j = j, !.el[L].prior = 1]
        ELSE [h EXCEPT !.j = j + 1, !.el[L].prior = -1]

\* The child the sifting goes on with, and the flags the comparison of the
\* two children leaves.  "done" stands for the loop's break.
PickChild(h, j) ==
    LET L == h.ord[j]
        R == h.ord[j + 1]
        seen == [h.el EXCEPT ![L].refreshed = FALSE, ![R].refreshed = FALSE]
    IN  IF j = RMN THEN [h EXCEPT !.j = j, !.done = h.el[L].over]
        ELSE IF h.el[L].over THEN [h EXCEPT !.j = j + 1, !.done = h.el[R].over]
        ELSE IF h.el[R].over THEN [h EXCEPT !.j = j]
        ELSE IF ~h.el[L].refreshed /\ ~h.el[R].refreshed /\ h.el[L].prior = -1
             THEN [h EXCEPT !.j = j + 1]
        ELSE IF PriorTo(L, R)
             THEN [h EXCEPT !.j = j, !.failed = @ \/ Uncomparable(L, R),
                            !.el = [seen EXCEPT ![L].prior = 1,
                                                ![R].dup = @ \/ SameKey(L, R)]]
             ELSE [h EXCEPT !.j = j + 1, !.failed = @ \/ Uncomparable(L, R),
                            !.el = [seen EXCEPT ![R].prior = -1]]

\* The rest of one round of heap_adjust for the sifted element rc: it stays
\* above the child, or the child's pointer moves up.  When rc stays, the slot
\* h.ord[h.s] still holds the pointer that moved up last.
SiftRound(rc, h) ==
    LET c == h.ord[h.j]
        equal == SameKey(rc, c)
    IN  IF ~h.el[rc].over /\ PriorTo(rc, c)
        THEN [h EXCEPT !.done = TRUE, !.failed = @ \/ Uncomparable(rc, c),
                       !.el = IF ~equal THEN @
                              ELSE IF @[c].dup THEN [@ EXCEPT ![h.ord[h.s]].dup = TRUE]
                              ELSE [@ EXCEPT ![c].dup = TRUE]]
        ELSE [h EXCEPT !.failed = @ \/ (~h.el[rc].over /\ Uncomparable(rc, c)),
                       !.ord[h.s] = c, !.el[c].refreshed = TRUE, !.s = h.j]

\* heap_adjust(heap, s, n)
HeapAdjust(heap, s) ==
    LET rc == heap.ord[s]
        Round(h, k) ==
            IF h.done \/ 2 * h.s > RMN THEN h
            ELSE LET p == PickChild(h, 2 * h.s)
                 IN  IF p.done THEN p ELSE SiftRound(rc, p)
        r == FoldLeft(Round, [ord |-> heap.ord, el |-> heap.el, s |-> s, j |-> s,
                              done |-> FALSE, failed |-> heap.failed],
                      [k \in 1..RMN |-> k])
    IN  [ord |-> [r.ord EXCEPT ![r.s] = rc],
         el |-> [r.el EXCEPT ![rc].refreshed = TRUE], failed |-> r.failed]

(***************************************************************************)
(* Waiting for a shard, and leaving the merge.                             *)
(***************************************************************************)
\* check_server_sess_wait_for_event for the shards S
WaitFor(r, S) ==
    LET new == (S \ r.finished) \ r.waiting
    IN  [r EXCEPT !.waiting = @ \cup new, !.readpend = @ + Cardinality(new)]

IsFinished == rm.pending = 0                \* num_pending_servers

Send(r, p) == [r EXCEPT !.out = Append(@, p)]

\* do_merge, merge_for_select, normal_result_merge: the first pass over the
\* rows is over and nothing is missing.
FirstDone(r) == [Send(r, IF r.packErr THEN ERRP ELSE END) EXCEPT !.pc = "sent"]

\* callback_merge returned to do_tcp_stream_after_recv_resp: res is the merge
\* loop's result.
CallbackDone(r, res) ==
    LET r1 == IF res /\ IsFinished THEN Send(r, IF r.packErr THEN ERRP ELSE END)
                                   ELSE r
    IN  [r1 EXCEPT !.pc = IF IsFinished THEN "sent" ELSE "wait"]

\* The merge loop stops because rows are missing.
Suspend(r) ==
    IF r.first THEN [r EXCEPT !.pc = "wait", !.first = FALSE, !.partial = TRUE]
               ELSE CallbackDone([r EXCEPT !.partial = TRUE], FALSE)

Complete(r) == IF r.first THEN FirstDone(r) ELSE CallbackDone(r, TRUE)

\* RM_FAIL: the rows not yet written are thrown away and an error is sent.
\* Only normal_result_merge, that is the first pass, closes the servers.
Fail(r) == [r EXCEPT !.pc = "sent", !.out = <<ERRP>>, !.toclose = @ \/ r.first,
                     !.waiting = {}, !.failed = TRUE]

(***************************************************************************)
(* The initial states: a query and the answer of every shard.              *)
(***************************************************************************)
Stream(i) == IF rm_in.rows[i] = <<ERRP>> THEN <<ERRP>>
             ELSE <<HDR, HDR>> \o rm_in.rows[i] \o <<rm_in.end[i]>>

NoMerge == [pc |-> "start", first |-> TRUE, rows |-> 0, off |-> 0, last |-> 0,
            it |-> 1, short |-> FALSE, out |-> <<>>, partial |-> FALSE,
            packErr |-> FALSE, heapErr |-> FALSE, toclose |-> FALSE,
            failed |-> FALSE, readpend |-> 0, waiting |-> {}, finished |-> {},
            pending |-> RMN, alone |-> FALSE, fault |-> "none"]

RMInit ==
    /\ rm_in \in RMInputs
    /\ rm_net = [i \in RMShards |-> Stream(i)]
    /\ rm_q = [i \in RMShards |-> <<>>]
    /\ rm_cand = [i \in RMShards |-> FALSE]
    /\ rm_heap = [ord |-> [i \in RMShards |-> i],
                  el |-> [i \in RMShards |-> NewElement], failed |-> FALSE]
    /\ rm = NoMerge

RMOff ==
    /\ rm_in = <<>>
    /\ rm_net = <<>> /\ rm_q = <<>> /\ rm_cand = [i \in RMShards |-> FALSE]
    /\ rm_heap = [ord |-> [i \in RMShards |-> i], el |-> <<>>, failed |-> FALSE]
    /\ rm = [NoMerge EXCEPT !.pc = "off"]

(***************************************************************************)
(* handle_read_mul_servers_resp: every shard has answered or has delivered *)
(* more than max_header_size bytes, and resultset_merge is called.         *)
(***************************************************************************)
MaxStream == 6      \* the longest answer of a shard, in packets

\* Reading the first c[i] packets of every shard
RMReadFirst(c) ==
    /\ rm.pc = "start"
    /\ \A i \in RMShards : c[i] <= Len(Stream(i))
    /\ rm_q' = [i \in RMShards |-> SubSeq(Stream(i), 1, c[i])]
    /\ rm_net' = [i \in RMShards |-> SubSeq(Stream(i), c[i] + 1, Len(Stream(i)))]
    /\ LET over == {i \in RMShards : c[i] = Len(Stream(i))}
       IN  rm' = [rm EXCEPT !.pc = "check", !.finished = over,
                            !.pending = RMN - Cardinality(over)]
    /\ UNCHANGED <<rm_in, rm_cand, rm_heap>>

\* check_fail_met: the first ERR answer goes to the client as it is.
RMFailMet ==
    /\ rm.pc = "check"
    /\ \E i \in RMShards : rm_q[i][1] = ERRP
    /\ rm' = [Send(rm, ERRP) EXCEPT !.pc = "sent"]
    /\ rm_q' = [i \in RMShards |-> <<>>]
    /\ UNCHANGED <<rm_in, rm_net, rm_cand, rm_heap>>

\* check_field_count_consistant, prepare_for_row_process and
\* check_network_packet_err: every queue must hold the whole header and one
\* packet more; an ERR packet in the first row's place is passed on when
\* nothing is pending.
RMPrepare ==
    /\ rm.pc = "check"
    /\ \A i \in RMShards : rm_q[i][1] # ERRP
    /\ LET rows == [i \in RMShards |-> SubSeq(rm_q[i], HdrLen + 1, Len(rm_q[i]))]
           lacking == \E i \in RMShards : rows[i] = <<>>
           errs == {i \in RMShards : rows[i] # <<>> /\ rows[i][1] = ERRP}
       IN  IF lacking \/ (errs # {} /\ ~IsFinished)
           THEN /\ rm' = Fail(rm)
                /\ rm_q' = [i \in RMShards |-> <<>>]
                /\ UNCHANGED rm_cand
           ELSE IF errs # {}
           THEN /\ rm' = [Send(rm, ERRP) EXCEPT !.pc = "sent"]
                /\ rm_q' = [i \in RMShards |-> <<>>]
                /\ UNCHANGED rm_cand
           ELSE /\ rm' = [rm EXCEPT !.pc = IF rm_in.order THEN "heap" ELSE "simple"]
                /\ rm_q' = rows
                /\ rm_cand' = [i \in RMShards |-> TRUE]
    /\ UNCHANGED <<rm_in, rm_net, rm_heap>>

\* create_heap_for_merge_sort
RMHeap ==
    /\ rm.pc = "heap"
    /\ LET el == [i \in RMShards |-> [NewElement EXCEPT !.over = IsEnd(Rec(i))]]
           n == RMN \div 2
           h == FoldLeft(LAMBDA hp, k : HeapAdjust(hp, n + 1 - k),
                         [rm_heap EXCEPT !.el = el], [k \in 1..n |-> k])
       IN  /\ rm_heap' = h
           /\ rm' = IF h.failed THEN Fail(rm)
                    ELSE [rm EXCEPT !.pc = "sort",
                                    !.heapErr = \E i \in RMShards : Rec(i) = ERRP]
    /\ UNCHANGED <<rm_in, rm_net, rm_q, rm_cand>>

(***************************************************************************)
(* do_sort_merge: one round of its loop.                                   *)
(***************************************************************************)
Top == rm_heap.ord[1]
TopElement == rm_heap.el[Top]

\* LIMIT is reached, or the heap has run dry.
RMSortEnd ==
    /\ rm.pc = "sort"
    /\ \/ /\ rm.rows >= rm_in.limit
          /\ rm' = IF rm_in.limit > 0 THEN [rm EXCEPT !.pc = "drop"] ELSE Complete(rm)
       \/ /\ rm.rows < rm_in.limit
          /\ TopElement.over
          /\ rm' = Complete([rm EXCEPT !.packErr = @ \/ rm.heapErr])
    /\ UNCHANGED <<rm_in, rm_net, rm_q, rm_cand, rm_heap>>

\* The merge was suspended for want of a row of the top shard.  What has come
\* since becomes its record, whatever kind of packet it is.
RMSortResume ==
    /\ rm.pc = "sort" /\ rm.rows < rm_in.limit
    /\ ~TopElement.over /\ TopElement.null
    /\ IF rm_cand[Top]
       THEN LET h == HeapAdjust([rm_heap EXCEPT !.el[Top].null = FALSE], 1)
            IN  /\ rm_heap' = h
                /\ rm' = IF h.failed THEN Fail(rm)
                         ELSE [rm EXCEPT !.alone = @ \/ IsEnd(Rec(Top))]
       ELSE /\ rm' = Suspend(WaitFor(rm, {Top}))
            /\ UNCHANGED rm_heap
    /\ UNCHANGED <<rm_in, rm_net, rm_q, rm_cand>>

\* A duplicate of a row another shard has given already
IsDup == rm_in.distinct /\ TopElement.dup /\ Top # rm.last

\* The row on top is skipped or put out, and its shard's next packet takes
\* its place.
RMSortRow ==
    /\ rm.pc = "sort" /\ rm.rows < rm_in.limit
    /\ ~TopElement.over /\ ~TopElement.null
    /\ LET t == Top
           rest == Tail(rm_q[t])
           r == IF IsDup THEN rm
                ELSE IF rm.off < rm_in.offset THEN [rm EXCEPT !.off = @ + 1]
                ELSE [Send(rm, Rec(t)) EXCEPT !.rows = @ + 1, !.last = t]
           el == [TopElement EXCEPT !.dup = FALSE, !.refreshed = FALSE, !.prior = 0]
       IN  /\ rm_q' = [rm_q EXCEPT ![t] = rest]
           /\ rm_cand' = [rm_cand EXCEPT ![t] = rest # <<>>]
           /\ IF rest = <<>>
              THEN /\ rm' = Suspend(WaitFor(r, {t}))
                   /\ rm_heap' = [rm_heap EXCEPT !.el[t] = [el EXCEPT !.null = TRUE]]
              ELSE /\ rm' = [r EXCEPT !.pc = "sift",
                                      !.heapErr = @ \/ rest[1] = ERRP]
                   /\ rm_heap' = [rm_heap EXCEPT
                                    !.el[t] = [el EXCEPT !.over = IsEnd(rest[1])]]
    /\ UNCHANGED <<rm_in, rm_net>>

\* The heap_adjust that ends the round
RMSift ==
    /\ rm.pc = "sift"
    /\ LET h == HeapAdjust(rm_heap, 1)
       IN  /\ rm_heap' = h
           /\ rm' = IF h.failed THEN Fail(rm) ELSE [rm EXCEPT !.pc = "sort"]
    /\ UNCHANGED <<rm_in, rm_net, rm_q, rm_cand>>

(***************************************************************************)
(* do_simple_merge: one packet of shard rm.it, or the end of the pass.     *)
(***************************************************************************)
\* The inner loop goes on with the packet p.
TakesPacket(p) == rm.rows # rm_in.limit /\ ~IsEnd(p)

RMSimpleRow ==
    /\ rm.pc = "simple" /\ rm.it <= RMN
    /\ rm_cand[rm.it] /\ TakesPacket(Rec(rm.it))
    /\ rm' = IF rm.off < rm_in.offset THEN [rm EXCEPT !.off = @ + 1]
             ELSE [Send(rm, Rec(rm.it)) EXCEPT !.rows = @ + 1]
    /\ rm_q' = [rm_q EXCEPT ![rm.it] = Tail(@)]
    /\ rm_cand' = [rm_cand EXCEPT ![rm.it] = Tail(rm_q[rm.it]) # <<>>]
    /\ UNCHANGED <<rm_in, rm_net, rm_heap>>

RMSimpleNext ==
    /\ rm.pc = "simple" /\ rm.it <= RMN
    /\ ~(rm_cand[rm.it] /\ TakesPacket(Rec(rm.it)))
    /\ LET err == rm_cand[rm.it] /\ rm.rows # rm_in.limit /\ Rec(rm.it) = ERRP
           short == ~rm_cand[rm.it] /\ rm.it \notin rm.waiting
       IN  rm' = [rm EXCEPT !.it = @ + 1, !.packErr = @ \/ err, !.short = @ \/ short]
    /\ UNCHANGED <<rm_in, rm_net, rm_q, rm_cand, rm_heap>>

RMSimpleEnd ==
    /\ rm.pc = "simple" /\ rm.it > RMN
    /\ rm' = IF rm.short THEN Suspend(WaitFor(rm, RMShards))
             ELSE IF ~IsFinished /\ rm_in.limit > 0 /\ rm.rows >= rm_in.limit
                  THEN [rm EXCEPT !.pc = "drop"]
             ELSE Complete(rm)
    /\ UNCHANGED <<rm_in, rm_net, rm_q, rm_cand, rm_heap>>

(***************************************************************************)
(* check_after_limit: the rows beyond LIMIT are read and dropped.          *)
(***************************************************************************)
DropRows(q) == SelectSeq(q, IsEnd)

RMDrop ==
    /\ rm.pc = "drop"
    /\ LET left == [i \in RMShards |-> IF rm_cand[i] THEN DropRows(rm_q[i]) ELSE rm_q[i]]
           more == \E i \in RMShards : ~rm_cand[i] \/ left[i] = <<>>
       IN  /\ rm_q' = left
           /\ rm_cand' = [i \in RMShards |-> rm_cand[i] /\ left[i] # <<>>]
           /\ rm' = IF more THEN Suspend(WaitFor(rm, RMShards)) ELSE Complete(rm)
    /\ UNCHANGED <<rm_in, rm_net, rm_heap>>

(***************************************************************************)
(* The read event of a shard (server_session_con_handler).                 *)
(***************************************************************************)
Resume(r) == [r EXCEPT !.pc = IF rm_in.order THEN "sort" ELSE "simple",
                       !.last = 0, !.it = 1, !.short = FALSE]

\* The next k packets: process_after_read when the answer is complete,
\* process_read_part_finished when it is not.  Only the shard whose event
\* resumes the merge has its candidate set.
RMRead(i, k) ==
    /\ rm.pc = "wait" /\ i \in rm.waiting
    /\ k <= Len(rm_net[i])
    /\ rm_q' = [rm_q EXCEPT ![i] = @ \o SubSeq(rm_net[i], 1, k)]
    /\ rm_net' = [rm_net EXCEPT ![i] = SubSeq(@, k + 1, Len(@))]
    /\ LET over == k = Len(rm_net[i])
           r == [rm EXCEPT !.waiting = @ \ {i}, !.readpend = @ - 1,
                           !.finished = IF over THEN @ \cup {i} ELSE @,
                           !.pending = IF over THEN @ - 1 ELSE @]
           resume == over \/ r.readpend = 0
       IN  /\ rm' = IF resume THEN Resume(r) ELSE r
           /\ rm_cand' = [rm_cand EXCEPT ![i] = @ \/ resume]
    /\ UNCHANGED <<rm_in, rm_heap>>

\* The shard closes the connection, or its answer passes max_resp_len: an
\* error ends the answer and the servers are closed.
RMBroken(i) ==
    /\ rm.pc = "wait" /\ i \in rm.waiting /\ rm_in.faults
    /\ \E f \in {"closed", "toolong"} :
          rm' = [Send(rm, ERRP) EXCEPT !.pc = "sent", !.toclose = TRUE, !.fault = f,
                                       !.waiting = {}]
    /\ UNCHANGED <<rm_in, rm_net, rm_q, rm_cand, rm_heap>>

\* process_timeout_event, process_read_finished, then
\* read_query_result_for_sharding: the answer is sent as far as it goes.
RMTimeout(i) ==
    /\ rm.pc = "wait" /\ i \in rm.waiting /\ rm_in.faults
    /\ LET r == [rm EXCEPT !.waiting = @ \ {i}, !.readpend = @ - 1,
                           !.pending = @ - 1, !.fault = "timeout"]
       IN  rm' = IF r.pending = 0 \/ r.readpend = 0
                 THEN [r EXCEPT !.pc = "sent"] ELSE r
    /\ UNCHANGED <<rm_in, rm_net, rm_q, rm_cand, rm_heap>>

RMNext ==
    \/ \E c \in [RMShards -> 1..MaxStream] : RMReadFirst(c)
    \/ RMFailMet \/ RMPrepare \/ RMHeap
    \/ RMSortEnd \/ RMSortResume \/ RMSortRow \/ RMSift
    \/ RMSimpleRow \/ RMSimpleNext \/ RMSimpleEnd
    \/ RMDrop
    \/ \E i \in RMShards : (\E k \in 1..MaxStream : RMRead(i, k)) \/ RMBroken(i) \/ RMTimeout(i)

(***************************************************************************)
(* What the answer must be.                                                *)
(***************************************************************************)
AllKeys == FlattenSeq(rm_in.rows)

Sorted(s) == SortSeq(s, LAMBDA a, b : IF rm_in.desc THEN a > b ELSE a < b)

NoRepeats(s) ==
    FoldLeft(LAMBDA u, x : IF u # <<>> /\ Last(u) = x THEN u ELSE Append(u, x), <<>>, s)

Wanted ==
    LET sorted == Sorted(AllKeys)
        all == IF rm_in.distinct THEN NoRepeats(sorted) ELSE sorted
    IN  SubSeq(all, rm_in.offset + 1,
               IF rm_in.offset + rm_in.limit < Len(all)
               THEN rm_in.offset + rm_in.limit ELSE Len(all))

OutRows == SelectSeq(rm.out, LAMBDA p : ~IsEnd(p))

HasErr == \E i \in RMShards : rm_in.end[i] = ERRP

\* The merge came to its end: neither a failure nor a fault cut it short.
Merged == rm.pc = "sent" /\ ~rm.failed /\ rm.fault = "none"
          /\ \A i \in RMShards : rm_in.rows[i] # <<ERRP>>

Count(s, x) == Len(SelectSeq(s, LAMBDA y : y = x))

Answered ==
    /\ rm.out # <<>>
    /\ \A k \in DOMAIN rm.out : IsEnd(rm.out[k]) <=> k = Len(rm.out)
    /\ (Last(rm.out) = ERRP) =>  HasErr
    /\ Last(rm.out) = END /\ HasErr => Len(OutRows) = rm_in.limit
    /\ Last(rm.out) = END =>
         IF rm_in.order THEN HasErr \/ OutRows = Wanted
         ELSE /\ HasErr \/ Len(OutRows) = Len(Wanted)
              /\ \A x \in ToSet(OutRows) : Count(OutRows, x) <= Count(AllKeys, x)

\* A merged SELECT is answered with exactly the rows it selects, in the
\* order it asks for, and one closing packet (do_sort_merge, heap_adjust,
\* do_simple_merge, check_after_limit) - unless the packet that ends a shard's
\* rows came in a chunk of its own while the merge waited for that shard.
MergedRight == Merged /\ ~rm.alone => Answered

\* The same without the exception.
MergedAlways == Merged => Answered

\* While the merge is suspended a read event of some shard is registered that
\* can still fire, so that it is resumed (check_server_sess_wait_for_event,
\* do_tcp_stream_after_recv_resp).
MergeGoesOn ==
    rm.pc = "wait" /\ ~rm.alone /\ rm.fault = "none" =>
        \E i \in rm.waiting : rm_net[i] # <<>>

\* proxy_put_shard_conn_to_pool puts a server connection back, its recv_queue
\* having been emptied, unless server_to_be_closed: none of its answer may
\* then be unread (check_after_limit reads on for that reason).
PooledDrained ==
    Merged /\ ~rm.alone /\ ~rm.toclose => \A i \in RMShards : rm_net[i] = <<>>

\* The counters of waiting and pending servers agree with who waits, a candidate is in its queue,
\* and the heap holds every shard once (server-session.c, heap_adjust).
RMTypeOK ==
    /\ rm.pc \in {"off", "start", "check", "heap", "sort", "sift", "simple", "drop", "wait", "sent"}
    /\ rm.waiting \subseteq RMShards \ rm.finished
    /\ rm.readpend \in 0..RMN /\ rm.pending \in 0..RMN
    /\ \A i \in RMShards : rm_cand[i] => rm_q[i] # <<>>
    /\ {rm_heap.ord[k] : k \in RMShards} = RMShards

\* The merge of sorted or plain rows gives the rows of one database in their order, is never
\* suspended without an event that resumes it, and gives back only connections read to the end
\* (do_sort_merge, do_simple_merge, check_after_limit, proxy_put_shard_conn_to_pool).
MergeRight == RMTypeOK /\ MergedRight /\ MergeGoesOn /\ PooledDrained
=============================================================================
