------------------------------- MODULE SqlLog -------------------------------
(* The log of every statement (src/chassis-sql-log.c, the sql log commands   *)
(* of plugins/admin/admin-commands.c).  The event loop of a worker puts the  *)
(* bytes of a message into a ring; the sql-log thread takes them out, writes *)
(* them to a file and rotates it.  There is no lock: the event loop alone    *)
(* moves `in`, the thread alone moves `out`, both unsigned ints that wrap    *)
(* (at SLWrap here, at 2^32 in the code), and sql_log_action tells each what *)
(* the other is to do.                                                       *)
(*                                                                           *)
(* A byte is a pair of the number of its message and its place in it; a byte *)
(* read beyond the end of a message has message 0.  The mix of a behaviour   *)
(* says which messages are logged and what else may happen:                  *)
(*   twice    the macro min reads fifo->out twice, as an unoptimised build   *)
(*            does; an optimised one reads it once                           *)
(*   patient  the administrator waits for a start to take effect             *)
(*   fails    writes, renames and opens that may fail                        *)
EXTENDS Integers, Sequences, FiniteSets, SequencesExt

CONSTANTS SLMixes,    \* [msgs, bufsize, twice, patient, fails, admin, sets, shut]
          SLThreads,  \* the threads the process may start, numbered from 1
          SLWrap,     \* the number of values of a guint
          SLMaxSize,  \* sql-log-maxsize in bytes, 0 for no rotation
          SLBound     \* the bytes a behaviour may write

VARIABLE sl

SLOff == [pc |-> "off"]
Least_(a, b) == IF a < b THEN a ELSE b

\* The least power of two that is not below x.
roundup_pow_of_two(x) == 2 ^ (CHOOSE n \in 0 .. 31 : 2 ^ n >= x /\ \A k \in 0 .. n - 1 : 2 ^ k < x)

\* rfifo_alloc: an empty ring.
rfifo_alloc(size) == [i \in 0 .. roundup_pow_of_two(size) - 1 |-> <<0, 0>>]

\* The ring's size divides the number of values of its positions: both are powers of two.
ASSUME SqlLogAssumption ==
    /\ SLThreads \subseteq Nat
    /\ SLWrap \in Nat
    /\ \A m \in SLMixes :
          /\ {"msgs", "bufsize", "twice", "patient", "fails", "admin", "sets", "shut"} = DOMAIN m
          /\ m.msgs \in Seq([kind : {"connect", "client", "backend"}, len : Nat])
          /\ roundup_pow_of_two(m.bufsize) \in Nat \ {0}
          /\ roundup_pow_of_two(m.bufsize) < SLWrap
          /\ SLWrap % roundup_pow_of_two(m.bufsize) = 0

SLSize == Cardinality(DOMAIN sl.buf)
At(p) == p % SLSize

Wait == [pc |-> "idle", len |-> 0]
Resting == [pc |-> "none", len |-> 0, rest |-> 0, ret |-> 0]

\* sql_log_alloc, then cetus_sql_log_start_thread_once: the thread is started unless the switch is off.
SLInit ==
    \E m \in SLMixes, sw \in {"off", "on"} :
        sl = [pc |-> "up", mix |-> m, buf |-> rfifo_alloc(m.bufsize), in |-> 0, out |-> 0,
              next |-> 1, w |-> Wait, action |-> "stop", switch |-> sw, mode |-> {"connect", "client", "backend"},
              thr |-> [t \in SLThreads |-> IF t = 1 /\ sw # "off" THEN [Resting EXCEPT !.pc = "open"] ELSE Resting],
              fp |-> "closed", cur |-> 0, file |-> 0, now |-> 0, maxnum |-> 2, most |-> 2,
              filelist |-> <<>>, disk |-> {}, shut |-> FALSE, clean |-> TRUE,
              logged |-> <<>>, written |-> <<>>]

SLUp == sl.pc = "up"
Msg == sl.mix.msgs[sl.next]
SLFail(s) == [s EXCEPT !.mix.fails = @ - 1, !.clean = FALSE]

-----------------------------------------------------------------------------
(* The event loop: rfifo_write.                                              *)

\* The room for a message, in the arithmetic of guint.
Room == (SLSize - sl.in + sl.out + SLWrap) % SLWrap

Took(n) == [sl EXCEPT !.w = [pc |-> "copy", len |-> n]]

\* log_sql_connect, log_sql_client, log_sql_backend and log_sql_backend_sharding: nothing is logged
\* unless the switch, the mode and the thread allow it.  What does not fit is cut off.
LogSql ==
    /\ SLUp /\ sl.w.pc = "idle" /\ sl.next <= Len(sl.mix.msgs)
    /\ sl' = IF sl.switch = "off" \/ Msg.kind \notin sl.mode \/ sl.action # "start"
             THEN [sl EXCEPT !.next = @ + 1]
             ELSE CASE Msg.len < Room -> Took(Msg.len)
                    [] Msg.len >= Room /\ ~sl.mix.twice -> Took(Room)
                    [] OTHER -> [sl EXCEPT !.w.pc = "again"]

\* The second reading of fifo->out.
ReadAgain ==
    /\ SLUp /\ sl.w.pc = "again"
    /\ sl' = Took(Room)

Byte(i) == IF i <= Msg.len THEN <<sl.next, i>> ELSE <<0, i>>

CopyIn_wrong ==
    /\ SLUp /\ sl.w.pc = "copy"
    /\ LET n == sl.w.len
           l == Least_(n, SLSize - At(sl.in))
           b == [p \in DOMAIN sl.buf |->
                     IF p >= At(sl.in) /\ p < At(sl.in) + l THEN Byte(p - At(sl.in) + 1)
                     ELSE IF p < n - l THEN Byte(p + 1) ELSE sl.buf[p]]
       IN sl' = IF n - l > SLSize THEN [sl EXCEPT !.pc = "crashed"]
                ELSE [sl EXCEPT !.buf = b, !.w.pc = "publish"]

\* Two copies: up to the end of the buffer, and from its start.
CopyIn ==
    /\ SLUp /\ sl.w.pc = "copy"
    /\ LET n == sl.w.len
           l == Least_(n, SLSize - At(sl.in))
           b == [p \in DOMAIN sl.buf |->
                     IF p < n - l THEN Byte(p + l + 1)
                     ELSE IF p >= At(sl.in) /\ p < At(sl.in) + l THEN Byte(p - At(sl.in) + 1) ELSE sl.buf[p]]
       IN sl' = IF n - l > SLSize THEN [sl EXCEPT !.pc = "crashed"]
                ELSE [sl EXCEPT !.buf = b, !.w.pc = "publish"]

\* fifo->in += len
Publish ==
    /\ SLUp /\ sl.w.pc = "publish"
    /\ sl' = [sl EXCEPT !.in = (@ + sl.w.len) % SLWrap, !.w = Wait, !.next = @ + 1,
                        !.logged = @ \o [i \in 1 .. sl.w.len |-> Byte(i)]]

-----------------------------------------------------------------------------
(* The thread: sql_log_mainloop.                                             *)

SLGo(t, pc) == [sl EXCEPT !.thr[t].pc = pc]

\* The file is opened for appending; only then is the log "started".
OpenLog(t) ==
    /\ SLUp /\ sl.thr[t].pc = "open"
    /\ \/ sl' = [SLGo(t, "load") EXCEPT !.fp = "open", !.cur = sl.file, !.action = "start"]
       \/ sl.mix.fails > 0 /\ sl' = SLFail([sl EXCEPT !.thr[t] = Resting, !.fp = "null", !.action = "stop"])

FlushLoad_wrong(t) ==
    /\ SLUp /\ sl.thr[t].pc = "load" /\ Len(sl.written) < SLBound
    /\ LET len == IF sl.in > sl.out THEN sl.in - sl.out ELSE 0
           l == Least_(len, SLSize - At(sl.out))
       IN sl' = IF sl.fp = "null" THEN [SLGo(t, "rotate") EXCEPT !.thr[t].ret = SLWrap - 1]
                ELSE [sl EXCEPT !.thr[t] = [pc |-> "first", len |-> l, rest |-> len - l, ret |-> 0]]

\* rfifo_flush: how much there is.  Without a file it returns -1 at once.
FlushLoad(t) ==
    /\ SLUp /\ sl.thr[t].pc = "load" /\ Len(sl.written) < SLBound
    /\ LET len == (sl.in - sl.out + SLWrap) % SLWrap
           l == Least_(len, SLSize - At(sl.out))
       IN sl' = IF sl.fp = "null" THEN [SLGo(t, "rotate") EXCEPT !.thr[t].ret = SLWrap - 1]
                ELSE [sl EXCEPT !.thr[t] = [pc |-> "first", len |-> l, rest |-> len - l, ret |-> 0]]

\* pwrite to a file opened for appending: n bytes from p on, of which k are written.  An error, -1,
\* is taken for a length.
Pwrite(t, p, k, pc) ==
    [sl EXCEPT !.thr[t] = [@ EXCEPT !.pc = pc, !.ret = (sl.thr[t].ret + k + SLWrap) % SLWrap],
               !.written = @ \o [i \in 1 .. k |-> sl.buf[At(p + i - 1)]],
               !.file = @ + (IF k > 0 THEN k ELSE 0),
               !.cur = @ + ((k + SLWrap) % SLWrap),
               !.out = (@ + k + SLWrap) % SLWrap]

FlushFirst(t) ==
    /\ SLUp /\ sl.thr[t].pc = "first"
    /\ \/ sl' = Pwrite(t, sl.out, sl.thr[t].len, "second")
       \/ /\ sl.mix.fails > 0 /\ sl.thr[t].len > 0
          /\ \E k \in -1 .. sl.thr[t].len - 1 : sl' = SLFail(Pwrite(t, sl.out, k, "second"))

\* The second part starts at the beginning of the buffer, wherever `out` is.
FlushSecond(t) ==
    /\ SLUp /\ sl.thr[t].pc = "second"
    /\ \/ sl' = Pwrite(t, 0, sl.thr[t].rest, "after")
       \/ /\ sl.mix.fails > 0 /\ sl.thr[t].rest > 0
          /\ \E k \in -1 .. sl.thr[t].rest - 1 : sl' = SLFail(Pwrite(t, 0, k, "after"))

\* The thread sleeps for sql_log_idletime when nothing was written.
AfterFlush(t) ==
    /\ SLUp /\ sl.thr[t].pc = "after"
    /\ sl' = SLGo(t, IF sl.thr[t].ret = 0 THEN "test" ELSE "rotate")

\* sql_log_check_filenum: the oldest rotated files are removed, all that are too many.
check_filenum(s, name) ==
    IF s.maxnum = 0 \/ name \in ToSet(s.filelist) THEN s
    ELSE LET q == Append(s.filelist, name)
             n == IF Len(q) > s.maxnum THEN Len(q) - s.maxnum ELSE 0
         IN [s EXCEPT !.filelist = SubSeq(q, n + 1, Len(q)), !.disk = @ \ {q[i] : i \in 1 .. n}]

\* sql_log_check_rotate.  The name of the rotated file is the second it is rotated in, which may be
\* the one of the rotation before.
CheckRotate(t) ==
    /\ SLUp /\ sl.thr[t].pc = "rotate"
    /\ \/ /\ SLMaxSize = 0 \/ sl.cur < SLMaxSize
          /\ sl' = SLGo(t, "test")
       \/ /\ SLMaxSize # 0 /\ sl.cur >= SLMaxSize
          /\ \E name \in {sl.now, sl.now + 1} :
                LET s == [SLGo(t, "test") EXCEPT !.now = name, !.cur = 0, !.fp = "open"]
                    moved == check_filenum([s EXCEPT !.disk = @ \cup {name}, !.file = 0], name)
                IN \/ sl' = moved
                   \/ sl.mix.fails > 0 /\ sl' = SLFail(s)                              \* rename fails
                   \/ sl.mix.fails > 0 /\ sl' = SLFail([moved EXCEPT !.fp = "null"])   \* fopen fails

\* The end of the loop's body: the thread goes on until it is told to stop, or the process ends.
\* fclose(NULL) does not return.
TestAction(t) ==
    /\ SLUp /\ sl.thr[t].pc = "test"
    /\ sl' = CASE sl.action = "start" /\ ~sl.shut -> SLGo(t, "load")
               [] sl.fp = "null" /\ (sl.action # "start" \/ sl.shut) -> [sl EXCEPT !.pc = "crashed"]
               [] OTHER -> [sl EXCEPT !.thr[t] = Resting, !.fp = "closed", !.cur = 0, !.action = "stop"]

-----------------------------------------------------------------------------
(* The administrator.                                                        *)

Free(t) == sl.thr[t].pc = "none"
Calm == sl.mix.admin > 0 /\ sl.w.pc = "idle"

admin_sql_log_start_wrong ==
    /\ SLUp /\ Calm /\ sl.switch # "off" /\ sl.action # "start"
    /\ sl.mix.patient => \A t \in SLThreads : sl.thr[t].pc # "open"
    /\ \E t \in SLThreads : Free(t) /\ (\A u \in 1 .. t - 1 : ~Free(u))
                            /\ sl' = [sl EXCEPT !.mix.admin = @ - 1, !.thr[t].pc = "open"]

\* sql log start: refused when the switch is off or the log is not stopped.  sql_log_action is still
\* "stop" while a thread that was started opens its file.
admin_sql_log_start ==
    /\ SLUp /\ Calm /\ sl.switch # "off" /\ sl.action = "stop"
    /\ sl.mix.patient => \A t \in SLThreads : sl.thr[t].pc # "open"
    /\ \E t \in SLThreads : Free(t) /\ (\A u \in 1 .. t - 1 : ~Free(u))
                            /\ sl' = [sl EXCEPT !.mix.admin = @ - 1, !.thr[t].pc = "open"]

\* sql log stop: the thread is asked to stop.
admin_sql_log_stop ==
    /\ SLUp /\ Calm /\ sl.action = "start"
    /\ sl' = [sl EXCEPT !.mix.admin = @ - 1, !.action = "unknown"]

Setting == SLUp /\ sl.mix.sets > 0 /\ sl.w.pc = "idle"

\* config set sql-log-switch, sql-log-mode and sql-log-maxnum (the assign hooks).
SetSwitch(v) ==
    /\ Setting
    /\ sl' = [sl EXCEPT !.mix.sets = @ - 1, !.switch = v]
SetMode(v) ==
    /\ Setting
    /\ sl' = [sl EXCEPT !.mix.sets = @ - 1, !.mode = v]
SetMaxnum(v) ==
    /\ Setting
    /\ sl' = [sl EXCEPT !.mix.sets = @ - 1, !.maxnum = v, !.most = IF v > @ THEN v ELSE @]

\* The process is told to end: chassis_is_shutdown.
SLShutdown ==
    /\ SLUp /\ sl.mix.shut /\ ~sl.shut
    /\ sl' = [sl EXCEPT !.shut = TRUE]

SLWriter == LogSql \/ ReadAgain \/ CopyIn \/ Publish
SLThread(t) == OpenLog(t) \/ FlushLoad(t) \/ FlushFirst(t) \/ FlushSecond(t) \/ AfterFlush(t) \/ CheckRotate(t)
               \/ TestAction(t)

SLNext ==
    \/ LogSql \/ ReadAgain \/ CopyIn \/ Publish
    \/ \E t \in SLThreads :
          \/ OpenLog(t) \/ FlushLoad(t) \/ FlushFirst(t) \/ FlushSecond(t)
          \/ AfterFlush(t) \/ CheckRotate(t) \/ TestAction(t)
    \/ admin_sql_log_start \/ admin_sql_log_stop
    \/ \E v \in {"off", "on"} : SetSwitch(v)
    \/ \E v \in {{"client"}, {"connect", "client"}} : SetMode(v)
    \/ \E v \in {1, 3} : SetMaxnum(v)
    \/ SLShutdown

\* The event loop and the thread are both scheduled.
SLFairness == WF_sl(SLWriter) /\ \A t \in SLThreads : WF_sl(SLThread(t))

-----------------------------------------------------------------------------

\* The writer, the threads and the positions keep their types.
SLTypeOK ==
    SLUp => /\ sl.in \in 0 .. SLWrap - 1 /\ sl.out \in 0 .. SLWrap - 1
            /\ sl.action \in {"start", "unknown", "stop"}
            /\ \A t \in SLThreads : sl.thr[t].len \in 0 .. SLSize /\ sl.thr[t].rest \in Nat

\* No write has failed, and one thread at a time takes bytes out of the ring.
Orderly == SLUp /\ sl.clean /\ sl.mix.patient

\* What rfifo_flush has written followed by what is still in the ring is, byte for byte, what
\* rfifo_write has accepted: the wrap of the buffer and the wrap of the positions lose, repeat and
\* reorder nothing, and no byte is taken from beyond a message.
LogInOrder ==
    Orderly /\ ~sl.mix.twice =>
        /\ (sl.in - sl.out + SLWrap) % SLWrap <= SLSize
        /\ sl.written \o [i \in 1 .. (sl.in - sl.out + SLWrap) % SLWrap |-> sl.buf[At(sl.out + i - 1)]] = sl.logged
        /\ \A i \in DOMAIN sl.logged : sl.logged[i][1] # 0

\* sql log start after sql log stop never leaves two threads at the ring, and a log that is said to
\* be stopped has none (sql_log_action).
OneFlusher ==
    Orderly =>
        LET busy == {t \in SLThreads : sl.thr[t].pc \notin {"none", "open"}} IN
        /\ \A t, u \in busy : t = u
        /\ sl.action = "stop" => busy = {}

\* Every rotated file is on the list sql_log_check_filenum removes from, so that never more of them
\* stay on disk than sql-log-maxnum has allowed, however it was changed meanwhile.
RotatedBounded ==
    Orderly => sl.disk = ToSet(sl.filelist) /\ Cardinality(sl.disk) <= sl.most

\* sql log stop is heeded: the thread that was asked to stop does.
StopHeeded == (Orderly /\ sl.action = "unknown") ~> (~Orderly \/ sl.action = "stop")

\* What is in the ring reaches the file, unless the log is stopped first.
Flushed ==
    (Orderly /\ ~sl.shut /\ sl.action = "start" /\ sl.in # sl.out)
        ~> (~Orderly \/ sl.shut \/ sl.action # "start" \/ sl.in = sl.out)

\* The sql-log thread serves: what was logged is written, a stop is heeded, and never more rotated
\* files stay than allowed (sql_log_mainloop, sql_log_check_filenum).
LogServed == [](SLTypeOK /\ RotatedBounded) /\ StopHeeded /\ Flushed
=============================================================================
