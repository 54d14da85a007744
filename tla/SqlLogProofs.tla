---------------------------- MODULE SqlLogProofs ----------------------------
(* The ring between the event loop and the sql-log thread, for every size of *)
(* the ring, every width of its positions, every number of threads and any   *)
(* messages: one thread at a time is at the ring, and what was written       *)
(* followed by what is in the ring is what was logged.                       *)
EXTENDS SqlLogLemmas, FiniteSetTheorems, SequenceTheorems

SLSpec == SLInit /\ [][SLNext]_sl

-----------------------------------------------------------------------------
(* One thread                                                                *)

\* With an administrator who waits for a start to take effect there is one thread at a time, from
\* its start to its end, and while sql_log_action is "stop" it is at most opening its file.
OneThread ==
    Orderly =>
        /\ \A t, u \in SLThreads : sl.thr[t].pc # "none" /\ sl.thr[u].pc # "none" => t = u
        /\ sl.action = "stop" => \A t \in SLThreads : sl.thr[t].pc \in {"none", "open"}

\* The writer, the settings and the shutdown leave the threads alone.
Bystander ==
    \/ LogSql \/ ReadAgain \/ CopyIn \/ Publish \/ SLShutdown
    \/ \E v \in {"off", "on"} : SetSwitch(v)
    \/ \E v \in {{"client"}, {"connect", "client"}} : SetMode(v)
    \/ \E v \in {1, 3} : SetMaxnum(v)

\* The steps of Bystander leave the threads and sql_log_action alone.
LEMMA BystanderEffect ==
    ASSUME Shape, Bystander
    PROVE  sl'.thr = sl.thr /\ sl'.action = sl.action
PROOF
  <1>a. DOMAIN sl = Fields
    BY DEF Shape, Shaped
  <1>1. CASE LogSql
    BY <1>a, <1>1 DEF LogSql, Took, Fields
  <1>2. CASE ReadAgain
    BY <1>a, <1>2 DEF ReadAgain, Took, Fields
  <1>3. CASE CopyIn
    BY <1>a, <1>3 DEF CopyIn, Fields
  <1>4. CASE Publish
    BY <1>a, <1>4 DEF Publish, Fields
  <1>5. CASE SLShutdown
    BY <1>a, <1>5 DEF SLShutdown, Fields
  <1>6. ASSUME NEW v, SetSwitch(v) PROVE sl'.thr = sl.thr /\ sl'.action = sl.action
    BY <1>a, <1>6 DEF SetSwitch, Fields
  <1>7. ASSUME NEW v, SetMode(v) PROVE sl'.thr = sl.thr /\ sl'.action = sl.action
    BY <1>a, <1>7 DEF SetMode, Fields
  <1>8. ASSUME NEW v, SetMaxnum(v) PROVE sl'.thr = sl.thr /\ sl'.action = sl.action
    BY <1>a, <1>8 DEF SetMaxnum, Fields
  <1> QED
    BY <1>1, <1>2, <1>3, <1>4, <1>5, <1>6, <1>7, <1>8 DEF Bystander

\* No thread runs before the first start.
LEMMA OneThreadInit == SLInit => OneThread
PROOF
  BY DEF SLInit, OneThread, Orderly, Resting

\* No step makes a second thread: admin_sql_log_start is refused unless the log is stopped, and the
\* administrator waits while a thread is opening its file.
LEMMA OneThreadStep == Shape /\ OneThread /\ [SLNext]_sl => OneThread'
PROOF
  <1> SUFFICES ASSUME Shape, OneThread, [SLNext]_sl, Orderly' PROVE OneThread'
    BY DEF OneThread
  <1>s. Shape' /\ Ongoing
    BY StepShape
  <1>o. Orderly
    BY <1>s DEF Ongoing, Orderly, SLUp
  <1>a. /\ \A t, u \in SLThreads : sl.thr[t].pc # "none" /\ sl.thr[u].pc # "none" => t = u
        /\ sl.action = "stop" => \A t \in SLThreads : sl.thr[t].pc \in {"none", "open"}
    BY <1>o DEF OneThread
  <1>b. SUFFICES /\ \A t, u \in SLThreads : sl'.thr[t].pc # "none" /\ sl'.thr[u].pc # "none" => t = u
                 /\ sl'.action = "stop" => \A t \in SLThreads : sl'.thr[t].pc \in {"none", "open"}
    BY DEF OneThread
  <1>c. DOMAIN sl = Fields /\ DOMAIN sl.thr = SLThreads
        /\ \A t \in SLThreads : DOMAIN sl.thr[t] = {"pc", "len", "rest", "ret"}
    BY DEF Shape, Shaped
  <1>d. sl'.clean /\ sl.mix.patient
    BY <1>o DEF Orderly
  \* A thread that goes on, or ends, is the same thread.
  <1>e. ASSUME NEW t \in SLThreads, sl.thr[t].pc # "none",
               \A u \in SLThreads \ {t} : sl'.thr[u] = sl.thr[u],
               sl'.action = "stop" => sl'.thr[t].pc \in {"none", "open"}
        PROVE  /\ \A x, u \in SLThreads : sl'.thr[x].pc # "none" /\ sl'.thr[u].pc # "none" => x = u
               /\ sl'.action = "stop" => \A u \in SLThreads : sl'.thr[u].pc \in {"none", "open"}
    <2>1. \A u \in SLThreads \ {t} : sl'.thr[u].pc = "none"
      BY <1>a, <1>e
    <2> QED
      BY <2>1, <1>e
  <1>f. ASSUME NEW t \in SLThreads, sl.thr[t].pc \notin {"none", "open"}
        PROVE  sl.action # "stop"
    BY <1>a, <1>f
  <1>1. CASE Bystander
    BY <1>1, <1>a, BystanderEffect
  <1>2. ASSUME NEW t \in SLThreads, OpenLog(t)
        PROVE  /\ \A u \in SLThreads \ {t} : sl'.thr[u] = sl.thr[u]
               /\ sl.thr[t].pc # "none"
               /\ sl'.action = "stop" => sl'.thr[t].pc \in {"none", "open"}
    <2>1. CASE sl' = [SLGo(t, "load") EXCEPT !.fp = "open", !.cur = sl.file, !.action = "start"]
      BY <1>2, <2>1, <1>c DEF OpenLog, SLGo, Fields
    <2>2. CASE sl' = SLFail([sl EXCEPT !.thr[t] = Resting, !.fp = "null", !.action = "stop"])
      BY <2>2, <1>d, <1>c DEF SLFail, Fields
    <2> QED
      BY <1>2, <2>1, <2>2 DEF OpenLog
  <1>3. ASSUME NEW t \in SLThreads, FlushLoad(t) \/ AfterFlush(t)
        PROVE  /\ \A u \in SLThreads \ {t} : sl'.thr[u] = sl.thr[u]
               /\ sl.thr[t].pc # "none"
               /\ sl'.action = "stop" => sl'.thr[t].pc \in {"none", "open"}
    <2>1. sl.thr[t].pc # "none" /\ sl.action # "stop"
      BY <1>3, <1>f DEF FlushLoad, AfterFlush
    <2>2. sl'.action = sl.action /\ \A u \in SLThreads \ {t} : sl'.thr[u] = sl.thr[u]
      <3>1. CASE \E r : sl' = [sl EXCEPT !.thr[t] = r]
        BY <3>1, <1>c DEF Fields
      <3>2. CASE \E pc : sl' = SLGo(t, pc)
        BY <3>2, <1>c DEF SLGo, Fields
      <3>3. CASE \E r : sl' = [SLGo(t, "rotate") EXCEPT !.thr[t].ret = r]
        BY <3>3, <1>c DEF SLGo, Fields
      <3> QED
        BY <1>3, <3>1, <3>2, <3>3, Zenon DEF FlushLoad, AfterFlush
    <2> QED
      BY <2>1, <2>2
  <1>4. ASSUME NEW t \in SLThreads, FlushFirst(t) \/ FlushSecond(t)
        PROVE  /\ \A u \in SLThreads \ {t} : sl'.thr[u] = sl.thr[u]
               /\ sl.thr[t].pc # "none"
               /\ sl'.action = "stop" => sl'.thr[t].pc \in {"none", "open"}
    <2>1. sl.thr[t].pc \notin {"none", "open"}
      BY <1>4 DEF FlushFirst, FlushSecond
    <2>2. PICK p, k, pc : sl' = Pwrite(t, p, k, pc) \/ sl' = SLFail(Pwrite(t, p, k, pc))
      BY <1>4 DEF FlushFirst, FlushSecond
    <2>3. PICK s : s = Pwrite(t, p, k, pc)
      OBVIOUS
    <2>4. Shaped(s) /\ s.action = sl.action /\ \A u \in SLThreads \ {t} : s.thr[u] = sl.thr[u]
      BY <2>3, PwriteEffect
    <2>5. sl' = s
      BY <2>2, <2>3, <2>4, <1>d, FailShape, Zenon
    <2> QED
      BY <2>1, <2>4, <2>5, <1>f
  <1>5. ASSUME NEW t \in SLThreads, CheckRotate(t)
        PROVE  /\ \A u \in SLThreads \ {t} : sl'.thr[u] = sl.thr[u]
               /\ sl.thr[t].pc # "none"
               /\ sl'.action = "stop" => sl'.thr[t].pc \in {"none", "open"}
    <2>1. sl.thr[t].pc = "rotate"
      BY <1>5 DEF CheckRotate
    <2>2. sl'.action = sl.action /\ sl'.thr = [sl.thr EXCEPT ![t].pc = "test"]
      BY <1>5, <1>d, RotateEffect
    <2> QED
      BY <2>1, <2>2, <1>f, <1>c
  <1>6. ASSUME NEW t \in SLThreads, TestAction(t)
        PROVE  /\ \A u \in SLThreads \ {t} : sl'.thr[u] = sl.thr[u]
               /\ sl.thr[t].pc # "none"
               /\ sl'.action = "stop" => sl'.thr[t].pc \in {"none", "open"}
    <2>1. sl.thr[t].pc = "test" /\ sl.action # "stop"
      BY <1>6, <1>f DEF TestAction
    <2>2. CASE sl' = SLGo(t, "load")
      BY <2>1, <2>2, <1>c DEF SLGo, Fields
    <2>3. CASE sl' = [sl EXCEPT !.pc = "crashed"]
      BY <2>3, <1>c, Orderly' DEF Fields, Orderly, SLUp
    <2>4. CASE sl' = [sl EXCEPT !.thr[t] = Resting, !.fp = "closed", !.cur = 0, !.action = "stop"]
      BY <2>1, <2>4, <1>c DEF Resting, Fields
    <2> QED
      BY <1>6, <2>2, <2>3, <2>4 DEF TestAction
  <1>7. CASE admin_sql_log_start
    <2>1. PICK t \in SLThreads : sl' = [sl EXCEPT !.mix.admin = @ - 1, !.thr[t].pc = "open"]
      BY <1>7, Zenon DEF admin_sql_log_start
    <2>2. \A u \in SLThreads : sl.thr[u].pc = "none"
      BY <1>7, <1>a, <1>d DEF admin_sql_log_start
    <2>3. sl'.thr = [sl.thr EXCEPT ![t].pc = "open"]
      BY <2>1, <1>c DEF Fields
    <2>4. \A u \in SLThreads : sl'.thr[u].pc = IF u = t THEN "open" ELSE "none"
      BY <2>2, <2>3, <1>c
    <2> QED
      BY <2>4
  <1>8. CASE admin_sql_log_stop
    <2>1. sl'.thr = sl.thr /\ sl'.action = "unknown"
      BY <1>8, <1>c DEF admin_sql_log_stop, Fields
    <2> QED
      BY <2>1, <1>a
  <1>9. CASE UNCHANGED sl
    BY <1>9, <1>a
  <1> QED
    BY <1>1, <1>2, <1>3, <1>4, <1>5, <1>6, <1>e, <1>7, <1>8, <1>9 DEF SLNext, Bystander

\* sql log start and sql log stop never leave two threads at the ring, and a log that is said to be
\* stopped has none, however many threads the process may start (sql_log_action).
THEOREM OneFlusherAlways == SLSpec => []OneFlusher
PROOF
  <1>1. SLInit => Shape /\ OneThread
    BY InitShape, OneThreadInit
  <1>2. Shape /\ OneThread /\ [SLNext]_sl => (Shape /\ OneThread)'
    BY StepShape, OneThreadStep
  <1>3. OneThread => OneFlusher
    BY DEF OneThread, OneFlusher
  <1> QED
    BY <1>1, <1>2, <1>3, PTL DEF SLSpec

-----------------------------------------------------------------------------
(* The ring                                                                  *)

N == roundup_pow_of_two(sl.mix.bufsize)
Bytes == Nat \X Nat
In == Len(sl.logged)
Out_ == Len(sl.written)

\* The buffer's size and the messages are those of the start.
Given == \E m \in SLMixes : sl.mix.msgs = m.msgs /\ sl.mix.bufsize = m.bufsize

\* `in` and `out` are the lengths of what was logged and of what was written, wrapped, and the bytes
\* between the two are in their places.
Positions ==
    /\ sl.buf \in [0 .. N - 1 -> Bytes]
    /\ sl.logged \in Seq(Bytes) /\ sl.written \in Seq(Bytes)
    /\ sl.in = In % SLWrap /\ sl.out = Out_ % SLWrap
    /\ Out_ <= In /\ In - Out_ <= N
    /\ \A j \in 1 .. Out_ : sl.written[j] = sl.logged[j]
    /\ \A j \in Out_ + 1 .. In : sl.buf[(j - 1) % N] = sl.logged[j]
    /\ \A j \in 1 .. In : sl.logged[j][1] # 0

\* There is room for what rfifo_write is about to copy, and what it has copied is in place.
Writing ==
    /\ sl.next \in Nat \ {0}
    /\ sl.w.pc \in {"idle", "copy", "publish"}
    /\ sl.w.pc # "idle" => /\ Msg.len \in Nat /\ sl.w.len \in Nat /\ sl.w.len <= Msg.len
                           /\ sl.w.len + (In - Out_) <= N
    /\ sl.w.pc = "publish" => \A i \in 1 .. sl.w.len : sl.buf[(In + i - 1) % N] = <<sl.next, i>>

\* What rfifo_flush is about to write is in the ring, and its second part starts the buffer.
Flushing(t) ==
    /\ sl.thr[t].pc = "first" =>
          /\ sl.thr[t].len \in Nat /\ sl.thr[t].rest \in Nat
          /\ sl.thr[t].len + sl.thr[t].rest <= In - Out_
          /\ sl.thr[t].rest > 0 => (Out_ + sl.thr[t].len) % N = 0
    /\ sl.thr[t].pc = "second" =>
          /\ sl.thr[t].rest \in Nat /\ sl.thr[t].rest <= In - Out_
          /\ sl.thr[t].rest > 0 => Out_ % N = 0

\* The inductive invariant of the ring, for one thread, writes that succeed and positions read once.
Ring ==
    Orderly /\ ~sl.mix.twice => Positions /\ Writing /\ \A t \in SLThreads : Flushing(t)

\* The sizes of the ring, of its positions and of the messages, as the assumption gives them.
LEMMA Sizes ==
    ASSUME Given
    PROVE  /\ SLWrap \in Nat \ {0} /\ N \in Nat \ {0} /\ N < SLWrap /\ SLWrap % N = 0
           /\ sl.mix.msgs \in Seq([kind : {"connect", "client", "backend"}, len : Nat])
PROOF
  <1>1. PICK m \in SLMixes : sl.mix.msgs = m.msgs /\ sl.mix.bufsize = m.bufsize
    BY DEF Given
  <1>2. /\ m.msgs \in Seq([kind : {"connect", "client", "backend"}, len : Nat])
        /\ roundup_pow_of_two(m.bufsize) \in Nat \ {0}
        /\ roundup_pow_of_two(m.bufsize) < SLWrap
        /\ SLWrap % roundup_pow_of_two(m.bufsize) = 0
    BY SqlLogAssumption
  <1>3. N = roundup_pow_of_two(m.bufsize)
    BY <1>1 DEF N
  <1>4. SLWrap \in Nat
    BY SqlLogAssumption
  <1> QED
    BY <1>1, <1>2, <1>3, <1>4

\* The lengths of what was logged and written are natural numbers, and a position is found in the buffer
\* modulo its size.
LEMMA Places ==
    ASSUME Given, Positions
    PROVE  /\ In \in Nat /\ Out_ \in Nat
           /\ SLSize = N /\ \A p : At(p) = p % N
PROOF
  <1>1. N \in Nat \ {0}
    BY Sizes
  <1>2. DOMAIN sl.buf = 0 .. N - 1
    BY DEF Positions
  <1>3. Cardinality(0 .. N - 1) = N
    BY <1>1, FS_Interval
  <1>4. SLSize = N
    BY <1>2, <1>3 DEF SLSize
  <1>5. In \in Nat /\ Out_ \in Nat
    BY LenProperties DEF Positions, In, Out_
  <1> QED
    BY <1>4, <1>5 DEF At

\* The elements of a sequence are of its type.
LEMMA ElementOf ==
    ASSUME NEW S, NEW s \in Seq(S), NEW i \in 1 .. Len(s)
    PROVE  s[i] \in S
PROOF
  OBVIOUS

\* What appending some bytes to the log gives at each place.
LEMMA Appended ==
    ASSUME NEW S, NEW s \in Seq(S), NEW k \in Nat, NEW f \in [1 .. k -> S]
    PROVE  /\ s \o f \in Seq(S)
           /\ Len(s) \in Nat /\ Len(s \o f) = Len(s) + k
           /\ \A i \in 1 .. Len(s) : (s \o f)[i] = s[i]
           /\ \A i \in Len(s) + 1 .. Len(s) + k : (s \o f)[i] = f[i - Len(s)]
PROOF
  <1>1. f \in Seq(S) /\ Len(f) = k
    OBVIOUS
  <1>2. Len(s) \in Nat
    OBVIOUS
  <1>3. /\ s \o f \in Seq(S) /\ Len(s \o f) = Len(s) + k
        /\ \A i \in 1 .. Len(s) + k : (s \o f)[i] = IF i <= Len(s) THEN s[i] ELSE f[i - Len(s)]
    BY <1>1, ConcatProperties, Zenon
  <1>g. PICK g : g = s \o f
    BY Zenon
  <1>4. PICK n \in Nat : n = Len(s)
    BY <1>2
  <1>5. \A i \in 1 .. n + k : g[i] = IF i <= n THEN s[i] ELSE f[i - n]
    BY <1>3, <1>4, <1>g
  <1>6. (\A i \in 1 .. n : g[i] = s[i]) /\ \A i \in n + 1 .. n + k : g[i] = f[i - n]
    BY <1>5
  <1> QED
    BY <1>2, <1>3, <1>4, <1>6, <1>g

\* How much is in the ring, and how much room there is, in the arithmetic of the positions.
LEMMA Filled ==
    ASSUME Given, Positions
    PROVE  /\ (sl.in - sl.out + SLWrap) % SLWrap = In - Out_
           /\ Room = N - (In - Out_)
PROOF
  <1>1. /\ SLWrap \in Nat \ {0} /\ N \in Nat \ {0} /\ N < SLWrap
    BY Sizes
  <1>2. In \in Nat /\ Out_ \in Nat /\ SLSize = N
    BY Places
  <1>3. Out_ <= In /\ In - Out_ <= N /\ sl.in = In % SLWrap /\ sl.out = Out_ % SLWrap
    BY DEF Positions
  <1>4. sl.in \in Int /\ sl.out \in Int
    <2>1. \A a \in Int : a % SLWrap \in Int
      BY <1>1, ModSplit
    <2> QED
      BY <2>1, <1>2, <1>3
  <1>5. (0 + sl.in - sl.out + SLWrap) % SLWrap = 0 + (In - Out_)
    <2>1. 0 + (In - Out_) \in 0 .. SLWrap - 1
      BY <1>1, <1>2, <1>3
    <2>2. In \in Int /\ Out_ \in Int /\ 0 \in Int
      BY <1>2
    <2>3. (0 + (In % SLWrap) - (Out_ % SLWrap) + SLWrap) % SLWrap = 0 + (In - Out_)
      BY <1>1, <2>1, <2>2, ModDiff, Zenon
    <2> QED
      BY <2>3, <1>3
  <1>6. (N + sl.out - sl.in + SLWrap) % SLWrap = N + (Out_ - In)
    <2>1. N + (Out_ - In) \in 0 .. SLWrap - 1
      BY <1>1, <1>2, <1>3
    <2>2. In \in Int /\ Out_ \in Int /\ N \in Int
      BY <1>1, <1>2
    <2>3. (N + (Out_ % SLWrap) - (In % SLWrap) + SLWrap) % SLWrap = N + (Out_ - In)
      BY <1>1, <2>1, <2>2, ModDiff, ZenonT(60)
    <2> QED
      BY <2>3, <1>3
  <1>7. 0 + sl.in - sl.out + SLWrap = sl.in - sl.out + SLWrap /\ 0 + (In - Out_) = In - Out_
    BY <1>1, <1>2, <1>4
  <1>8. N + sl.out - sl.in + SLWrap = SLSize - sl.in + sl.out + SLWrap /\ N + (Out_ - In) = N - (In - Out_)
    BY <1>1, <1>2, <1>4
  <1> QED
    BY <1>5, <1>6, <1>7, <1>8 DEF Room

\* The copy of rfifo_write goes into the free part of the buffer: what waits in the ring stays, and the new
\* bytes are where Publish will look for them.
LEMMA CopyInRing ==
    ASSUME Shape, Given, Positions, Writing, CopyIn, sl'.pc = "up"
    PROVE  Positions' /\ Writing' /\ sl'.thr = sl.thr /\ In' = In /\ Out_' = Out_ /\ N' = N
PROOF
  <1>1. /\ SLWrap \in Nat \ {0} /\ N \in Nat \ {0} /\ SLWrap % N = 0
    BY Sizes
  <1>2. In \in Nat /\ Out_ \in Nat /\ SLSize = N /\ \A p : At(p) = p % N
    BY Places
  <1>3. PICK u \in Nat : u = In - Out_
    BY <1>2 DEF Positions
  <1>4. PICK n \in Nat : n = sl.w.len /\ n <= Msg.len /\ Msg.len \in Nat /\ n + u <= N
    BY <1>3 DEF Writing, CopyIn
  <1>5. PICK c \in 0 .. N - 1 : c = In % N /\ c = At(sl.in)
    <2>1. At(sl.in) = (In % SLWrap) % N
      BY <1>2 DEF Positions
    <2>2. In \in Int
      BY <1>2
    <2>3. (In % SLWrap) % N = In % N
      BY <1>1, <2>2, ModMod, Zenon
    <2>4. In % N \in 0 .. N - 1
      BY <1>1, <2>2, ModSplit
    <2> QED
      BY <2>1, <2>3, <2>4
  <1>6. PICK l : l = Least_(n, N - c)
    OBVIOUS
  <1>7. CopiedRight(N, In, u, n, c, l)
    BY <1>1, <1>2, <1>4, <1>5, <1>6, CopyPlaces, Zenon
  <1>8. PICK b : b = [p \in DOMAIN sl.buf |->
                     IF p < n - l THEN Byte(p + l + 1)
                     ELSE IF p >= c /\ p < c + l THEN Byte(p - c + 1) ELSE sl.buf[p]]
    BY Zenon
  <1>9. DOMAIN sl = Fields /\ DOMAIN sl.w = {"pc", "len"}
    BY DEF Shape, Shaped
  <1>10. sl' = [sl EXCEPT !.buf = b, !.w.pc = "publish"]
    <2>1. sl' # [sl EXCEPT !.pc = "crashed"]
      BY <1>9 DEF Fields
    <2>2. n = sl.w.len /\ l = Least_(sl.w.len, SLSize - At(sl.in)) /\ c = At(sl.in)
      BY <1>2, <1>4, <1>5, <1>6
    <2> QED
      BY <2>1, <2>2, <1>8, Zenon DEF CopyIn
  <1>11. /\ sl'.buf = b /\ sl'.in = sl.in /\ sl'.out = sl.out /\ sl'.logged = sl.logged
         /\ sl'.written = sl.written /\ sl'.mix = sl.mix /\ sl'.next = sl.next /\ sl'.thr = sl.thr
         /\ sl'.w.pc = "publish" /\ sl'.w.len = n
    BY <1>4, <1>9, <1>10 DEF Fields
  <1>12. In' = In /\ Out_' = Out_ /\ N' = N /\ Msg' = Msg
    BY <1>11 DEF In, Out_, N, Msg
  <1>13. l \in Nat /\ sl.next \in Nat \ {0}
    <2>1. c <= N /\ c \in Nat
      BY <1>1
    <2> QED
      BY <2>1, <1>1, <1>6 DEF Least_, Writing
  <1>14. \A i \in Nat : Byte(i) \in Bytes /\ (i <= n => Byte(i) = <<sl.next, i>>)
    BY <1>4, <1>13 DEF Byte, Bytes
  <1>15. DOMAIN sl.buf = 0 .. N - 1 /\ \A p \in 0 .. N - 1 : sl.buf[p] \in Bytes
    BY Zenon DEF Positions
  <1>16. \A p \in 0 .. N - 1 :
            b[p] = IF p < n - l THEN Byte(p + l + 1)
                   ELSE IF p >= c /\ p < c + l THEN Byte(p - c + 1) ELSE sl.buf[p]
    BY <1>8, <1>15
  <1>17. b \in [0 .. N - 1 -> Bytes]
    <2>1. \A p \in 0 .. N - 1 : b[p] \in Bytes
      <3> TAKE p \in 0 .. N - 1
      <3>1. p + l + 1 \in Nat /\ (p >= c => p - c + 1 \in Nat)
        BY <1>1, <1>5, <1>13
      <3> QED
        BY <3>1, <1>14, <1>15, <1>16
    <2> QED
      BY <2>1, <1>8, <1>15
  <1>18. \A i \in 1 .. n : b[(In + i - 1) % N] = <<sl.next, i>>
    <2> TAKE i \in 1 .. n
    <2>1. PICK p \in 0 .. N - 1 : /\ p = (In + i - 1) % N
                                  /\ IF p < n - l THEN p + l + 1 = i
                                     ELSE p >= c /\ p < c + l /\ p - c + 1 = i
      BY <1>7 DEF CopiedRight
    <2>2. b[p] = Byte(i)
      BY <2>1, <1>16
    <2>3. Byte(i) = <<sl.next, i>>
      BY <1>14, <1>4
    <2> QED
      BY <2>1, <2>2, <2>3
  <1>19. \A j \in Out_ + 1 .. In : b[(j - 1) % N] = sl.buf[(j - 1) % N]
    <2> TAKE j \in Out_ + 1 .. In
    <2>1. PICK d \in 1 .. u : j - 1 = In - d
      <3>1. In - (j - 1) \in 1 .. u /\ j - 1 = In - (In - (j - 1))
        BY <1>2, <1>3
      <3> QED
        BY <3>1
    <2>2. PICK p : p = (In - d) % N
      OBVIOUS
    <2>3. p \in 0 .. N - 1
      <3>1. In - d \in Int
        BY <1>2
      <3> QED
        BY <3>1, <2>2, <1>1, ModSplit
    <2>4. ~(p < n - l) /\ ~(p >= c /\ p < c + l)
      BY <1>7, <2>2 DEF CopiedRight
    <2>5. b[p] = sl.buf[p]
      BY <1>16, <2>3, <2>4
    <2> QED
      BY <2>1, <2>2, <2>5
  <1>20. Positions'
    <2>1. \A j \in Out_ + 1 .. In : b[(j - 1) % N] = sl.logged[j]
      BY <1>19 DEF Positions
    <2> QED
      BY <1>11, <1>12, <1>17, <2>1, Zenon DEF Positions
  <1>21. Writing'
    <2>1. n + (In - Out_) <= N
      BY <1>3, <1>4
    <2> QED
      BY <1>4, <1>11, <1>12, <1>13, <1>18, <2>1 DEF Writing
  <1> QED
    BY <1>11, <1>12, <1>20, <1>21

\* Moving `in' over the bytes copied adds them, and nothing else, to what waits.
LEMMA PublishRing ==
    ASSUME Shape, Given, Positions, Writing, Publish
    PROVE  /\ Positions' /\ Writing' /\ sl'.thr = sl.thr
           /\ Out_' = Out_ /\ N' = N /\ In' \in Nat /\ In <= In'
PROOF
  <1>1. SLWrap \in Nat \ {0} /\ N \in Nat \ {0}
    BY Sizes
  <1>2. In \in Nat /\ Out_ \in Nat
    BY Places
  <1>3. PICK n \in Nat : n = sl.w.len /\ n <= Msg.len /\ Msg.len \in Nat /\ n + (In - Out_) <= N
    BY DEF Writing, Publish
  <1>4. DOMAIN sl = Fields
    BY DEF Shape, Shaped
  <1>5. PICK f : f = [i \in 1 .. n |-> Byte(i)]
    BY Zenon
  <1>6. /\ sl'.buf = sl.buf /\ sl'.in = (sl.in + n) % SLWrap /\ sl'.out = sl.out
        /\ sl'.logged = sl.logged \o f /\ sl'.written = sl.written /\ sl'.mix = sl.mix
        /\ sl'.next = sl.next + 1 /\ sl'.thr = sl.thr /\ sl'.w = Wait
    BY <1>3, <1>4, <1>5 DEF Publish, Fields
  <1>7. \A i \in 1 .. n : f[i] = <<sl.next, i>>
    BY <1>3, <1>5 DEF Byte
  <1>8. sl.next \in Nat \ {0}
    BY DEF Writing
  <1>9. f \in [1 .. n -> Bytes] /\ \A i \in 1 .. n : f[i][1] # 0
    BY <1>5, <1>7, <1>8 DEF Bytes
  <1>10. sl.logged \in Seq(Bytes)
    BY DEF Positions
  <1>11. PICK g : g = sl.logged \o f
    BY Zenon
  <1>12. /\ g \in Seq(Bytes) /\ Len(g) = In + n
         /\ \A i \in 1 .. In : g[i] = sl.logged[i]
         /\ \A i \in In + 1 .. In + n : g[i] = f[i - In]
    BY <1>9, <1>10, <1>11, Appended DEF In
  <1>13. In' = In + n /\ Out_' = Out_ /\ N' = N /\ sl'.logged = g
    BY <1>6, <1>11, <1>12 DEF In, Out_, N
  <1>14. sl'.in = (In + n) % SLWrap
    <2>1. sl.in = In % SLWrap
      BY DEF Positions
    <2>2. In \in Int /\ n \in Int
      BY <1>2
    <2>3. ((In % SLWrap) + n) % SLWrap = (In + n) % SLWrap
      BY <1>1, <2>2, ModAdd, Zenon
    <2> QED
      BY <1>6, <2>1, <2>3
  <1>15. \A j \in Out_ + 1 .. In + n : sl.buf[(j - 1) % N] = g[j]
    <2> TAKE j \in Out_ + 1 .. In + n
    <2>1. CASE j <= In
      BY <1>2, <1>12, <2>1 DEF Positions
    <2>2. CASE j > In
      <3>1. PICK i \in 1 .. n : i = j - In
        BY <1>2, <2>2
      <3>2. sl.buf[(In + i - 1) % N] = <<sl.next, i>>
        BY <1>3 DEF Writing, Publish
      <3>3. In + i - 1 = j - 1
        BY <3>1, <1>2
      <3>4. g[j] = f[i]
        BY <3>1, <2>2, <1>2, <1>12
      <3> QED
        BY <3>2, <3>3, <3>4, <1>7
    <2> QED
      BY <2>1, <2>2, <1>2
  <1>16. \A j \in 1 .. In + n : g[j][1] # 0
    <2> TAKE j \in 1 .. In + n
    <2>1. CASE j <= In
      <3>1. j \in 1 .. In
        BY <2>1, <1>2
      <3>2. g[j] = sl.logged[j] /\ sl.logged[j][1] # 0
        BY <3>1, <1>12 DEF Positions
      <3> QED
        BY <3>2
    <2>2. CASE j > In
      <3>1. PICK i \in 1 .. n : i = j - In
        BY <1>2, <2>2
      <3>2. g[j] = f[i]
        BY <3>1, <2>2, <1>2, <1>12
      <3> QED
        BY <3>2, <1>9
    <2> QED
      BY <2>1, <2>2, <1>2
  <1>17. \A j \in 1 .. Out_ : sl.written[j] = g[j]
    <2> TAKE j \in 1 .. Out_
    <2>1. j \in 1 .. In
      BY <1>2 DEF Positions
    <2>2. sl.written[j] = sl.logged[j]
      BY DEF Positions
    <2> QED
      BY <2>1, <2>2, <1>12
  <1>18. Out_ <= In + n /\ (In + n) - Out_ <= N
    <2>1. Out_ <= In
      BY DEF Positions
    <2> QED
      BY <1>1, <1>2, <1>3, <2>1
  <1>19. Positions'
    <2>1. /\ sl.buf \in [0 .. N - 1 -> Bytes] /\ sl.written \in Seq(Bytes) /\ sl.out = Out_ % SLWrap
      BY DEF Positions
    <2> QED
      BY <2>1, <1>6, <1>12, <1>13, <1>14, <1>15, <1>16, <1>17, <1>18, Zenon DEF Positions
  <1>20. Writing'
    BY <1>6, <1>8 DEF Writing, Wait
  <1> QED
    BY <1>2, <1>6, <1>13, <1>19, <1>20

\* k bytes from place p on are written, those that were logged first among the ones in the ring.
LEMMA PwriteRing ==
    ASSUME Shape, Given, Positions, Writing, NEW t \in SLThreads, NEW p, NEW k \in Nat, NEW pc,
           k <= In - Out_, \A i \in 1 .. k : At(p + i - 1) = (Out_ + i - 1) % N,
           sl' = Pwrite(t, p, k, pc)
    PROVE  Positions' /\ Writing' /\ In' = In /\ Out_' = Out_ + k /\ N' = N
PROOF
  <1>1. SLWrap \in Nat \ {0} /\ N \in Nat \ {0}
    BY Sizes
  <1>2. In \in Nat /\ Out_ \in Nat
    BY Places
  <1>3. PICK f : f = Piece(p, k)
    OBVIOUS
  <1>4. /\ Aside(sl') /\ sl'.out = (sl.out + k + SLWrap) % SLWrap /\ sl'.written = sl.written \o f
    <2>1. PICK s : s = Pwrite(t, p, k, pc)
      OBVIOUS
    <2>2. Aside(s) /\ s.out = (sl.out + k + SLWrap) % SLWrap
      BY <2>1, PwriteEffect
    <2>3. s.written = sl.written \o Piece(p, k)
      BY <2>1, PwriteEffect
    <2> QED
      BY <2>1, <2>2, <2>3, <1>3
  <1>5. \A i \in 1 .. k : f[i] = sl.logged[Out_ + i] /\ f[i] \in Bytes
    <2> TAKE i \in 1 .. k
    <2>1. f[i] = sl.buf[(Out_ + i - 1) % N]
      BY <1>3 DEF Piece
    <2>2. Out_ + i \in Out_ + 1 .. In /\ (Out_ + i) - 1 = Out_ + i - 1
      BY <1>2
    <2>3. sl.buf[((Out_ + i) - 1) % N] = sl.logged[Out_ + i]
      BY <2>2 DEF Positions
    <2>4. Out_ + i \in 1 .. In
      BY <2>2, <1>2
    <2>5. sl.logged[Out_ + i] \in Bytes
      BY <2>4 DEF Positions, In
    <2> QED
      BY <2>1, <2>2, <2>3, <2>5
  <1>6. f \in [1 .. k -> Bytes]
    BY <1>3, <1>5, Zenon DEF Piece
  <1>7. sl.written \in Seq(Bytes) /\ sl.logged \in Seq(Bytes)
    BY DEF Positions
  <1>8. PICK g : g = sl.written \o f
    BY Zenon
  <1>9. /\ g \in Seq(Bytes) /\ Len(g) = Out_ + k
        /\ \A i \in 1 .. Out_ : g[i] = sl.written[i]
        /\ \A i \in Out_ + 1 .. Out_ + k : g[i] = f[i - Out_]
    BY <1>6, <1>7, <1>8, Appended DEF Out_
  <1>10. /\ sl'.buf = sl.buf /\ sl'.in = sl.in /\ sl'.logged = sl.logged /\ sl'.written = g
         /\ sl'.mix = sl.mix /\ sl'.next = sl.next /\ sl'.w = sl.w
    BY <1>4, <1>8 DEF Aside
  <1>11. In' = In /\ Out_' = Out_ + k /\ N' = N /\ Msg' = Msg
    BY <1>9, <1>10 DEF In, Out_, N, Msg
  <1>12. sl'.out = (Out_ + k) % SLWrap
    <2>1. sl.out = Out_ % SLWrap
      BY DEF Positions
    <2>2. PICK a \in Int, w \in Nat \ {0} : a = Out_ /\ w = SLWrap
      BY <1>1, <1>2
    <2>3. PICK b \in Int : b = a % w
      BY ModSplit
    <2>4. b + k + w = b + (k + w) /\ k + w \in Int /\ a + (k + w) = (a + k) + w /\ a + k \in Int
      OBVIOUS
    <2>5. (b + (k + w)) % w = (a + (k + w)) % w
      BY <2>3, <2>4, ModAdd, Zenon
    <2>6. ((a + k) + w) % w = (a + k) % w
      BY <2>4, ModTurn, Zenon
    <2>7. (b + k + w) % w = (a + k) % w
      BY <2>4, <2>5, <2>6, Zenon
    <2> QED
      BY <2>1, <2>2, <2>3, <2>7, <1>4, Zenon
  <1>13. \A j \in 1 .. Out_ + k : g[j] = sl.logged[j]
    <2> TAKE j \in 1 .. Out_ + k
    <2>1. CASE j <= Out_
      <3>1. j \in 1 .. Out_
        BY <2>1, <1>2
      <3> QED
        BY <3>1, <1>9 DEF Positions
    <2>2. CASE j > Out_
      <3>1. PICK i \in 1 .. k : i = j - Out_
        BY <1>2, <2>2
      <3>2. j = Out_ + i /\ j \in Out_ + 1 .. Out_ + k
        BY <1>2, <2>2, <3>1
      <3>3. g[j] = f[i]
        BY <3>1, <3>2, <1>9
      <3> QED
        BY <3>2, <3>3, <1>5
    <2> QED
      BY <2>1, <2>2, <1>2
  <1>14. \A j \in (Out_ + k) + 1 .. In : sl.buf[(j - 1) % N] = sl.logged[j]
    <2> TAKE j \in (Out_ + k) + 1 .. In
    <2>1. j \in Out_ + 1 .. In
      BY <1>2
    <2> QED
      BY <2>1 DEF Positions
  <1>15. Out_ + k <= In /\ In - (Out_ + k) <= N
    BY <1>1, <1>2 DEF Positions
  <1>16. Positions'
    <2>1. /\ sl.buf \in [0 .. N - 1 -> Bytes] /\ sl.in = In % SLWrap
          /\ \A j \in 1 .. In : sl.logged[j][1] # 0
      BY DEF Positions
    <2> QED
      BY <2>1, <1>7, <1>9, <1>10, <1>11, <1>12, <1>13, <1>14, <1>15, Zenon DEF Positions
  <1>17. Writing'
    <2>1. ASSUME sl.w.pc # "idle"
          PROVE  sl.w.len + (In - (Out_ + k)) <= N
      <3>1. sl.w.len \in Nat /\ sl.w.len + (In - Out_) <= N
        BY <2>1 DEF Writing
      <3> QED
        BY <3>1, <1>1, <1>2
    <2> QED
      BY <2>1, <1>10, <1>11 DEF Writing
  <1> QED
    BY <1>11, <1>16, <1>17

\* What log_sql takes in fits.
LEMMA LogSqlRing ==
    ASSUME Shape, Given, Positions, Writing, LogSql, ~sl.mix.twice
    PROVE  /\ Writing' /\ Positions' /\ sl'.thr = sl.thr /\ In' = In /\ Out_' = Out_ /\ N' = N
PROOF
  <1>1. N \in Nat \ {0} /\ sl.mix.msgs \in Seq([kind : {"connect", "client", "backend"}, len : Nat])
    BY Sizes
  <1>2. In \in Nat /\ Out_ \in Nat
    BY Places
  <1>3. Room = N - (In - Out_)
    BY Filled
  <1>4. DOMAIN sl = Fields
    BY DEF Shape, Shaped
  <1>5. Msg.len \in Nat /\ sl.next \in Nat \ {0}
    <2>1. sl.next \in 1 .. Len(sl.mix.msgs) /\ sl.next \in Nat \ {0}
      <3>1. sl.next \in Nat \ {0} /\ sl.next <= Len(sl.mix.msgs)
        BY DEF LogSql, Writing
      <3>2. Len(sl.mix.msgs) \in Nat
        BY <1>1, LenProperties, Zenon
      <3> QED
        BY <3>1, <3>2
    <2>2. sl.mix.msgs[sl.next] \in [kind : {"connect", "client", "backend"}, len : Nat]
      BY <1>1, <2>1, ElementOf, Zenon
    <2> QED
      BY <2>1, <2>2 DEF Msg
  <1>6. PICK r \in Nat : r = Room /\ r + (In - Out_) <= N
    <2>0. Out_ <= In /\ In - Out_ <= N
      BY DEF Positions
    <2>1. N - (In - Out_) \in Nat /\ (N - (In - Out_)) + (In - Out_) <= N
      BY <1>1, <1>2, <2>0
    <2> QED
      BY <2>1, <1>3
  <1>7. ASSUME sl'.buf = sl.buf /\ sl'.in = sl.in /\ sl'.out = sl.out /\ sl'.logged = sl.logged,
               sl'.written = sl.written /\ sl'.mix = sl.mix /\ sl'.thr = sl.thr
        PROVE  Positions' /\ sl'.thr = sl.thr /\ In' = In /\ Out_' = Out_ /\ N' = N
    <2>1. In' = In /\ Out_' = Out_ /\ N' = N
      BY <1>7 DEF In, Out_, N
    <2> QED
      BY <1>7, <2>1, Zenon DEF Positions
  <1>8. CASE sl' = [sl EXCEPT !.next = @ + 1]
    <2>1. /\ sl'.buf = sl.buf /\ sl'.in = sl.in /\ sl'.out = sl.out /\ sl'.logged = sl.logged
          /\ sl'.written = sl.written /\ sl'.mix = sl.mix /\ sl'.thr = sl.thr
          /\ sl'.next = sl.next + 1 /\ sl'.w.pc = "idle"
      BY <1>4, <1>8, Zenon DEF Fields, LogSql
    <2>2. Writing'
      BY <2>1, <1>5 DEF Writing
    <2> QED
      BY <2>1, <2>2, <1>7
  <1>9. ASSUME NEW n \in Nat, sl' = Took(n), n <= Msg.len, n <= r
        PROVE  Writing' /\ Positions' /\ sl'.thr = sl.thr /\ In' = In /\ Out_' = Out_ /\ N' = N
    <2>1. /\ sl'.buf = sl.buf /\ sl'.in = sl.in /\ sl'.out = sl.out /\ sl'.logged = sl.logged
          /\ sl'.written = sl.written /\ sl'.mix = sl.mix /\ sl'.thr = sl.thr
          /\ sl'.next = sl.next /\ sl'.w.pc = "copy" /\ sl'.w.len = n
      BY <1>4, <1>9 DEF Fields, Took
    <2>2. Positions' /\ sl'.thr = sl.thr /\ In' = In /\ Out_' = Out_ /\ N' = N
      BY <2>1, <1>7
    <2>3. Msg' = Msg
      BY <2>1 DEF Msg
    <2>4. n + (In - Out_) <= N
      BY <1>1, <1>2, <1>6, <1>9
    <2>5. Writing'
      BY <2>1, <2>2, <2>3, <2>4, <1>5, <1>9 DEF Writing
    <2> QED
      BY <2>2, <2>5
  <1>10. \/ sl' = [sl EXCEPT !.next = @ + 1]
         \/ sl' = Took(Msg.len) /\ Msg.len < r
         \/ sl' = Took(r) /\ Msg.len >= r
    BY <1>5, <1>6 DEF LogSql
  <1> QED
    BY <1>5, <1>6, <1>8, <1>9, <1>10

\* The ring starts empty.
LEMMA RingInit == SLInit => Given /\ Ring
PROOF
  <1> SUFFICES ASSUME SLInit PROVE Given /\ Ring
    OBVIOUS
  <1>1. PICK m \in SLMixes, sw \in {"off", "on"} :
            /\ sl.mix = m /\ sl.buf = rfifo_alloc(m.bufsize) /\ sl.in = 0 /\ sl.out = 0
            /\ sl.next = 1 /\ sl.w = Wait /\ sl.logged = <<>> /\ sl.written = <<>>
            /\ sl.thr = [t \in SLThreads |->
                             IF t = 1 /\ sw # "off" THEN [Resting EXCEPT !.pc = "open"] ELSE Resting]
    BY DEF SLInit
  <1>2. Given
    BY <1>1 DEF Given
  <1>3. SLWrap \in Nat \ {0} /\ N \in Nat \ {0}
    BY <1>2, Sizes
  <1>4. In = 0 /\ Out_ = 0
    BY <1>1 DEF In, Out_
  <1>5. 0 % SLWrap = 0
    <2>1. PICK z \in Int : z = 0
      OBVIOUS
    <2>2. z \in 0 .. SLWrap - 1 /\ z = z * SLWrap + z
      BY <1>3, <2>1
    <2>3. z % SLWrap = z
      BY <1>3, <2>2, ModUnique, Zenon
    <2> QED
      BY <2>1, <2>3
  <1>6. sl.buf \in [0 .. N - 1 -> Bytes]
    BY <1>1 DEF rfifo_alloc, N, Bytes
  <1>7. Positions
    <2>1. <<>> \in Seq(Bytes)
      OBVIOUS
    <2> QED
      BY <2>1, <1>1, <1>3, <1>4, <1>5, <1>6 DEF Positions
  <1>8. Writing
    BY <1>1 DEF Writing, Wait
  <1>9. \A t \in SLThreads : Flushing(t)
    BY <1>1 DEF Flushing, Resting
  <1> QED
    BY <1>2, <1>7, <1>8, <1>9 DEF Ring

\* A step that leaves the ring and the event loop alone.
LEMMA RingKept ==
    ASSUME Positions, Writing,
           sl'.buf = sl.buf, sl'.in = sl.in, sl'.out = sl.out, sl'.logged = sl.logged,
           sl'.written = sl.written, sl'.next = sl.next, sl'.w = sl.w,
           sl'.mix.msgs = sl.mix.msgs, sl'.mix.bufsize = sl.mix.bufsize
    PROVE  Positions' /\ Writing' /\ In' = In /\ Out_' = Out_ /\ N' = N
PROOF
  <1>1. In' = In /\ Out_' = Out_ /\ N' = N /\ Msg' = Msg
    BY DEF In, Out_, N, Msg
  <1>2. Positions'
    BY <1>1, Zenon DEF Positions
  <1>3. Writing'
    BY <1>1, Zenon DEF Writing
  <1> QED
    BY <1>1, <1>2, <1>3

\* What the flush is about to write stays in the ring while more is logged.
LEMMA FlushKept ==
    ASSUME NEW t \in SLThreads, Flushing(t), sl'.thr[t] = sl.thr[t],
           In \in Nat, In' \in Nat, Out_ \in Nat, In <= In', Out_' = Out_, N' = N
    PROVE  Flushing(t)'
PROOF
  BY DEF Flushing

\* A thread that is not between the reading of the positions and its last pwrite expects nothing of the ring.
LEMMA FlushIdle ==
    ASSUME NEW t \in SLThreads, sl'.thr[t].pc \notin {"first", "second"}
    PROVE  Flushing(t)'
PROOF
  BY DEF Flushing

\* rfifo_flush finds what is in the ring, and splits it at the end of the buffer.
LEMMA FlushLoadRing ==
    ASSUME Shape, Given, Positions, Writing, NEW t \in SLThreads, FlushLoad(t)
    PROVE  Positions' /\ Writing' /\ Flushing(t)'
PROOF
  <1>1. SLWrap \in Nat \ {0} /\ N \in Nat \ {0} /\ SLWrap % N = 0
    BY Sizes
  <1>2. In \in Nat /\ Out_ \in Nat /\ SLSize = N /\ \A p : At(p) = p % N
    BY Places
  <1>3. PICK n \in Nat : n = In - Out_ /\ n = (sl.in - sl.out + SLWrap) % SLWrap
    <2>1. Out_ <= In
      BY DEF Positions
    <2>2. In - Out_ \in Nat
      BY <1>2, <2>1
    <2> QED
      BY <2>2, Filled, Zenon
  <1>4. PICK c \in 0 .. N - 1 : c = Out_ % N /\ c = At(sl.out)
    <2>1. At(sl.out) = (Out_ % SLWrap) % N
      BY <1>2 DEF Positions
    <2>2. Out_ \in Int
      BY <1>2
    <2>3. (Out_ % SLWrap) % N = Out_ % N
      BY <1>1, <2>2, ModMod, Zenon
    <2>4. Out_ % N \in 0 .. N - 1
      BY <1>1, <2>2, ModSplit
    <2> QED
      BY <2>1, <2>3, <2>4
  <1>5. PICK l : l = Least_(n, N - c)
    OBVIOUS
  <1>6. l \in Nat /\ n - l \in Nat /\ (n - l > 0 => l = N - c)
    BY <1>1, <1>5 DEF Least_
  <1>7. DOMAIN sl = Fields /\ DOMAIN sl.thr = SLThreads /\ DOMAIN sl.thr[t] = {"pc", "len", "rest", "ret"}
    BY DEF Shape, Shaped
  <1>8. \/ sl' = [SLGo(t, "rotate") EXCEPT !.thr[t].ret = SLWrap - 1]
        \/ sl' = [sl EXCEPT !.thr[t] = [pc |-> "first", len |-> l, rest |-> n - l, ret |-> 0]]
    <2>1. l = Least_((sl.in - sl.out + SLWrap) % SLWrap, SLSize - At(sl.out))
      BY <1>2, <1>3, <1>4, <1>5
    <2> QED
      BY <1>3, <2>1, Zenon DEF FlushLoad
  <1>9. CASE sl' = [SLGo(t, "rotate") EXCEPT !.thr[t].ret = SLWrap - 1]
    <2>1. /\ sl'.buf = sl.buf /\ sl'.in = sl.in /\ sl'.out = sl.out /\ sl'.logged = sl.logged
          /\ sl'.written = sl.written /\ sl'.next = sl.next /\ sl'.w = sl.w /\ sl'.mix = sl.mix
          /\ sl'.thr[t].pc = "rotate"
      BY <1>7, <1>9 DEF SLGo, Fields
    <2>2. Positions' /\ Writing'
      BY <2>1, RingKept
    <2> QED
      BY <2>1, <2>2, FlushIdle
  <1>10. CASE sl' = [sl EXCEPT !.thr[t] = [pc |-> "first", len |-> l, rest |-> n - l, ret |-> 0]]
    <2>1. /\ sl'.buf = sl.buf /\ sl'.in = sl.in /\ sl'.out = sl.out /\ sl'.logged = sl.logged
          /\ sl'.written = sl.written /\ sl'.next = sl.next /\ sl'.w = sl.w /\ sl'.mix = sl.mix
          /\ sl'.thr[t].pc = "first" /\ sl'.thr[t].len = l /\ sl'.thr[t].rest = n - l
      BY <1>7, <1>10 DEF Fields
    <2>2. Positions' /\ Writing' /\ In' = In /\ Out_' = Out_ /\ N' = N
      BY <2>1, RingKept
    <2>3. n - l > 0 => (Out_ + l) % N = 0
      <3>1. Out_ \in Int
        BY <1>2
      <3>2. (Out_ + (N - (Out_ % N))) % N = 0
        BY <1>1, <3>1, ModRest, Zenon
      <3> QED
        BY <3>2, <1>4, <1>6
    <2>4. l + (n - l) <= In - Out_
      BY <1>2, <1>3, <1>6
    <2>5. Flushing(t)'
      BY <2>1, <2>2, <2>3, <2>4, <1>6 DEF Flushing
    <2> QED
      BY <2>2, <2>5
  <1> QED
    BY <1>8, <1>9, <1>10

\* The first pwrite writes the bytes at `out' up to the end of the buffer or of what was read.
LEMMA FlushFirstRing ==
    ASSUME Shape, Given, Positions, Writing, NEW t \in SLThreads, Flushing(t), FlushFirst(t), sl'.clean
    PROVE  Positions' /\ Writing' /\ Flushing(t)'
PROOF
  <1>1. SLWrap \in Nat \ {0} /\ N \in Nat \ {0} /\ SLWrap % N = 0
    BY Sizes
  <1>2. In \in Nat /\ Out_ \in Nat /\ SLSize = N /\ \A p : At(p) = p % N
    BY Places
  <1>3. PICK k \in Nat, r \in Nat :
            /\ k = sl.thr[t].len /\ r = sl.thr[t].rest /\ k + r <= In - Out_
            /\ r > 0 => (Out_ + k) % N = 0
    BY DEF Flushing, FlushFirst
  <1>4. sl' = Pwrite(t, sl.out, k, "second")
    <2>1. ASSUME NEW x, sl' = SLFail(Pwrite(t, sl.out, x, "second")) PROVE FALSE
      <3>1. PICK s : s = Pwrite(t, sl.out, x, "second")
        OBVIOUS
      <3>2. Shaped(s)
        BY <3>1, PwriteEffect
      <3> QED
        BY <2>1, <3>1, <3>2, FailShape, Zenon
    <2> QED
      BY <1>3, <2>1 DEF FlushFirst
  <1>5. \A i \in 1 .. k : At(sl.out + i - 1) = (Out_ + i - 1) % N
    <2> TAKE i \in 1 .. k
    <2>1. PICK a \in Int, d \in Int : a = Out_ /\ d = i - 1
      BY <1>2
    <2>p. \A x \in Int : x % SLWrap \in Int
      BY <1>1, ModSplit
    <2>q. PICK q \in Int : q = a % SLWrap
      BY <2>p, Zenon
    <2>r. ((a % SLWrap) + d) % N = (a + d) % N
      BY <1>1, ModPlace, Zenon
    <2>2. (q + d) % N = (a + d) % N
      BY <2>q, <2>r, Zenon
    <2>3. sl.out + i - 1 = q + d /\ Out_ + i - 1 = a + d
      BY <2>1, <2>q DEF Positions
    <2> QED
      BY <2>2, <2>3, <1>2
  <1>6. k <= In - Out_
    BY <1>2, <1>3
  <1>7. Positions' /\ Writing' /\ In' = In /\ Out_' = Out_ + k /\ N' = N
    BY <1>4, <1>5, <1>6, PwriteRing
  <1>8. sl'.thr[t].pc = "second" /\ sl'.thr[t].rest = r
    BY <1>3, <1>4, PwriteEffect
  <1>9. r <= In - (Out_ + k)
    BY <1>2, <1>3
  <1>10. Flushing(t)'
    BY <1>3, <1>7, <1>8, <1>9 DEF Flushing
  <1> QED
    BY <1>7, <1>10

\* The second pwrite writes the rest, from the start of the buffer.
LEMMA FlushSecondRing ==
    ASSUME Shape, Given, Positions, Writing, NEW t \in SLThreads, Flushing(t), FlushSecond(t), sl'.clean
    PROVE  Positions' /\ Writing' /\ Flushing(t)'
PROOF
  <1>1. SLWrap \in Nat \ {0} /\ N \in Nat \ {0} /\ SLWrap % N = 0
    BY Sizes
  <1>2. In \in Nat /\ Out_ \in Nat /\ SLSize = N /\ \A p : At(p) = p % N
    BY Places
  <1>3. PICK r \in Nat : r = sl.thr[t].rest /\ r <= In - Out_ /\ (r > 0 => Out_ % N = 0)
    BY DEF Flushing, FlushSecond
  <1>4. sl' = Pwrite(t, 0, r, "after")
    <2>1. ASSUME NEW x, sl' = SLFail(Pwrite(t, 0, x, "after")) PROVE FALSE
      <3>1. PICK s : s = Pwrite(t, 0, x, "after")
        OBVIOUS
      <3>2. Shaped(s)
        BY <3>1, PwriteEffect
      <3> QED
        BY <2>1, <3>1, <3>2, FailShape, Zenon
    <2> QED
      BY <1>3, <2>1 DEF FlushSecond
  <1>5. \A i \in 1 .. r : At(0 + i - 1) = (Out_ + i - 1) % N
    <2> TAKE i \in 1 .. r
    <2>1. PICK a \in Int, d \in Int, z \in Int : a = Out_ /\ d = i - 1 /\ z = 0
      BY <1>2
    <2>2. a % N = z
      BY <1>3, <2>1
    <2>3. ((a % N) + d) % N = (a + d) % N
      BY <1>1, ModAdd, Zenon
    <2>4. (z + d) % N = (a + d) % N
      BY <2>2, <2>3, Zenon
    <2>5. 0 + i - 1 = z + d /\ Out_ + i - 1 = a + d
      BY <2>1
    <2> QED
      BY <2>4, <2>5, <1>2
  <1>6. Positions' /\ Writing'
    BY <1>3, <1>4, <1>5, PwriteRing
  <1>7. sl'.thr[t].pc = "after"
    BY <1>4, PwriteEffect
  <1> QED
    BY <1>6, <1>7, FlushIdle

\* The size of the ring and the messages never change.
LEMMA GivenStep == Shape /\ Given /\ [SLNext]_sl => Given'
PROOF
  BY StepShape DEF Given, Ongoing

\* Every step keeps the ring.
LEMMA RingStep == Shape /\ Given /\ OneThread /\ Ring /\ [SLNext]_sl => Ring'
PROOF
  <1> SUFFICES ASSUME Shape, Given, OneThread, Ring, [SLNext]_sl, Orderly', ~sl'.mix.twice
               PROVE  (Positions /\ Writing /\ \A t \in SLThreads : Flushing(t))'
    BY DEF Ring
  <1>a. Shape' /\ Ongoing
    BY StepShape
  <1>b. Orderly /\ ~sl.mix.twice /\ sl'.clean /\ sl'.pc = "up"
    BY <1>a DEF Ongoing, Orderly, SLUp
  <1>c. Positions /\ Writing /\ \A t \in SLThreads : Flushing(t)
    BY <1>b DEF Ring
  <1>d. In \in Nat /\ Out_ \in Nat
    BY <1>c, Places
  <1>e. DOMAIN sl = Fields /\ DOMAIN sl.thr = SLThreads
        /\ \A t \in SLThreads : DOMAIN sl.thr[t] = {"pc", "len", "rest", "ret"}
    BY DEF Shape, Shaped
  <1>f. OneThread'
    BY OneThreadStep
  \* The event loop leaves the threads alone.
  <1>g. ASSUME Positions', Writing', sl'.thr = sl.thr, In' \in Nat, In <= In', Out_' = Out_, N' = N
        PROVE  (Positions /\ Writing /\ \A t \in SLThreads : Flushing(t))'
    <2>1. \A t \in SLThreads : Flushing(t)'
      BY <1>c, <1>d, <1>g, FlushKept
    <2> QED
      BY <1>g, <2>1
  \* A thread that is at the ring is alone.
  <1>h. ASSUME NEW t \in SLThreads, Positions', Writing', Flushing(t)', sl.thr[t].pc # "none",
               \A u \in SLThreads \ {t} : sl'.thr[u] = sl.thr[u]
        PROVE  (Positions /\ Writing /\ \A u \in SLThreads : Flushing(u))'
    <2>1. ASSUME NEW u \in SLThreads, u # t PROVE Flushing(u)'
      <3>1. sl.thr[u].pc = "none"
        BY <1>b, <1>h, <2>1 DEF OneThread
      <3>2. sl'.thr[u].pc = "none"
        BY <1>h, <2>1, <3>1
      <3> QED
        BY <3>2, FlushIdle
    <2> QED
      BY <1>h, <2>1
  \* What leaves the ring and the event loop alone, and starts no flush.
  <1>i. ASSUME sl'.buf = sl.buf, sl'.in = sl.in, sl'.out = sl.out, sl'.logged = sl.logged,
               sl'.written = sl.written, sl'.next = sl.next, sl'.w = sl.w,
               \A u \in SLThreads : sl'.thr[u] = sl.thr[u] \/ sl'.thr[u].pc \notin {"first", "second"}
        PROVE  (Positions /\ Writing /\ \A u \in SLThreads : Flushing(u))'
    <2>1. Positions' /\ Writing' /\ In' = In /\ Out_' = Out_ /\ N' = N
      BY <1>a, <1>c, <1>i, RingKept DEF Ongoing
    <2>2. \A u \in SLThreads : Flushing(u)'
      BY <2>1, <1>c, <1>d, <1>i, FlushKept, FlushIdle
    <2> QED
      BY <2>1, <2>2
  <1>1. CASE LogSql
    <2>1. /\ Writing' /\ Positions' /\ sl'.thr = sl.thr /\ In' = In /\ Out_' = Out_ /\ N' = N
      BY <1>1, <1>b, <1>c, LogSqlRing
    <2> QED
      BY <2>1, <1>d, <1>g
  <1>2. CASE ReadAgain
    BY <1>2, <1>c DEF ReadAgain, Writing
  <1>3. CASE CopyIn
    <2>1. /\ Writing' /\ Positions' /\ sl'.thr = sl.thr /\ In' = In /\ Out_' = Out_ /\ N' = N
      BY <1>3, <1>b, <1>c, CopyInRing
    <2> QED
      BY <2>1, <1>d, <1>g
  <1>4. CASE Publish
    BY <1>4, <1>c, <1>g, PublishRing
  <1>5. ASSUME NEW t \in SLThreads, OpenLog(t)
        PROVE  (Positions /\ Writing /\ \A u \in SLThreads : Flushing(u))'
    <2>1. sl' = [SLGo(t, "load") EXCEPT !.fp = "open", !.cur = sl.file, !.action = "start"]
      <3>1. SLFail([sl EXCEPT !.thr[t] = Resting, !.fp = "null", !.action = "stop"]).clean = FALSE
        BY <1>e DEF SLFail, Fields
      <3> QED
        BY <1>5, <1>b, <3>1, Zenon DEF OpenLog
    <2> QED
      BY <2>1, <1>e, <1>i DEF SLGo, Fields
  <1>6. ASSUME NEW t \in SLThreads, FlushLoad(t)
        PROVE  (Positions /\ Writing /\ \A u \in SLThreads : Flushing(u))'
    <2>1. Positions' /\ Writing' /\ Flushing(t)'
      BY <1>6, <1>c, FlushLoadRing
    <2>2. sl.thr[t].pc # "none"
      BY <1>6 DEF FlushLoad
    <2>3. \A u \in SLThreads \ {t} : sl'.thr[u] = sl.thr[u]
      <3>1. CASE \E r : sl' = [sl EXCEPT !.thr[t] = r]
        BY <3>1, <1>e DEF Fields
      <3>2. CASE \E r : sl' = [SLGo(t, "rotate") EXCEPT !.thr[t].ret = r]
        BY <3>2, <1>e DEF SLGo, Fields
      <3> QED
        BY <1>6, <3>1, <3>2, Zenon DEF FlushLoad
    <2> QED
      BY <2>1, <2>2, <2>3, <1>h
  <1>7. ASSUME NEW t \in SLThreads, FlushFirst(t) \/ FlushSecond(t)
        PROVE  (Positions /\ Writing /\ \A u \in SLThreads : Flushing(u))'
    <2>1. Positions' /\ Writing' /\ Flushing(t)'
      BY <1>7, <1>b, <1>c, FlushFirstRing, FlushSecondRing
    <2>2. sl.thr[t].pc # "none"
      BY <1>7 DEF FlushFirst, FlushSecond
    <2>3. \A u \in SLThreads \ {t} : sl'.thr[u] = sl.thr[u]
      <3>1. PICK p, k, pc : sl' = Pwrite(t, p, k, pc) \/ sl' = SLFail(Pwrite(t, p, k, pc))
        BY <1>7 DEF FlushFirst, FlushSecond
      <3>2. PICK s : s = Pwrite(t, p, k, pc)
        OBVIOUS
      <3>3. Shaped(s) /\ \A u \in SLThreads \ {t} : s.thr[u] = sl.thr[u]
        BY <3>2, PwriteEffect
      <3>4. sl' = s
        BY <3>1, <3>2, <3>3, <1>b, FailShape, Zenon
      <3> QED
        BY <3>3, <3>4
    <2> QED
      BY <2>1, <2>2, <2>3, <1>h
  <1>8. ASSUME NEW t \in SLThreads, AfterFlush(t)
        PROVE  (Positions /\ Writing /\ \A u \in SLThreads : Flushing(u))'
    <2>1. PICK pc \in {"test", "rotate"} : sl' = SLGo(t, pc)
      BY <1>8 DEF AfterFlush
    <2> QED
      BY <2>1, <1>e, <1>i DEF SLGo, Fields
  <1>9. ASSUME NEW t \in SLThreads, CheckRotate(t)
        PROVE  (Positions /\ Writing /\ \A u \in SLThreads : Flushing(u))'
    <2>1. /\ Aside(sl') /\ sl'.out = sl.out /\ sl'.written = sl.written
          /\ sl'.thr = [sl.thr EXCEPT ![t].pc = "test"]
      BY <1>9, <1>b, RotateEffect
    <2>2. \A u \in SLThreads : sl'.thr[u] = sl.thr[u] \/ sl'.thr[u].pc \notin {"first", "second"}
      BY <2>1, <1>e
    <2> QED
      BY <2>1, <2>2, <1>i DEF Aside
  <1>10. ASSUME NEW t \in SLThreads, TestAction(t)
        PROVE  (Positions /\ Writing /\ \A u \in SLThreads : Flushing(u))'
    <2>1. CASE sl' = SLGo(t, "load")
      BY <2>1, <1>e, <1>i DEF SLGo, Fields
    <2>2. CASE sl' = [sl EXCEPT !.pc = "crashed"]
      BY <2>2, <1>b, <1>e DEF Fields
    <2>3. CASE sl' = [sl EXCEPT !.thr[t] = Resting, !.fp = "closed", !.cur = 0, !.action = "stop"]
      BY <2>3, <1>e, <1>i DEF Resting, Fields
    <2> QED
      BY <1>10, <2>1, <2>2, <2>3 DEF TestAction
  <1>11. CASE admin_sql_log_start
    <2>1. PICK t \in SLThreads : sl' = [sl EXCEPT !.mix.admin = @ - 1, !.thr[t].pc = "open"]
      BY <1>11, Zenon DEF admin_sql_log_start
    <2> QED
      BY <2>1, <1>e, <1>i DEF Fields
  <1>12. CASE admin_sql_log_stop
    BY <1>12, <1>e, <1>i DEF admin_sql_log_stop, Fields
  <1>13. ASSUME NEW v, SetSwitch(v)
         PROVE  (Positions /\ Writing /\ \A u \in SLThreads : Flushing(u))'
    BY <1>13, <1>e, <1>i DEF SetSwitch, Fields
  <1>14. ASSUME NEW v, SetMode(v)
         PROVE  (Positions /\ Writing /\ \A u \in SLThreads : Flushing(u))'
    BY <1>14, <1>e, <1>i DEF SetMode, Fields
  <1>15. ASSUME NEW v, SetMaxnum(v)
         PROVE  (Positions /\ Writing /\ \A u \in SLThreads : Flushing(u))'
    BY <1>15, <1>e, <1>i DEF SetMaxnum, Fields
  <1>16. CASE SLShutdown
    BY <1>16, <1>e, <1>i DEF SLShutdown, Fields
  <1>17. CASE UNCHANGED sl
    BY <1>17, <1>i
  <1> QED
    BY <1>1, <1>2, <1>3, <1>4, <1>5, <1>6, <1>7, <1>8, <1>9, <1>10, <1>11, <1>12, <1>13, <1>14, <1>15,
       <1>16, <1>17 DEF SLNext

\* What the ring says of places is what LogInOrder says of sequences.
LEMMA RingInOrder == Given /\ Ring => LogInOrder
PROOF
  <1> SUFFICES ASSUME Given, Ring, Orderly, ~sl.mix.twice
               PROVE  LogInOrder
    BY Zenon DEF LogInOrder
  <1>1. Positions
    BY DEF Ring
  <1>2. SLWrap \in Nat \ {0} /\ N \in Nat \ {0} /\ SLWrap % N = 0
    BY Sizes
  <1>3. In \in Nat /\ Out_ \in Nat /\ SLSize = N /\ \A p : At(p) = p % N
    BY <1>1, Places
  <1>4. (sl.in - sl.out + SLWrap) % SLWrap = In - Out_
    BY <1>1, Filled
  <1>5. Out_ <= In /\ In - Out_ <= N /\ sl.out = Out_ % SLWrap
        /\ sl.logged \in Seq(Bytes) /\ sl.written \in Seq(Bytes)
    BY <1>1 DEF Positions
  <1>6. PICK k \in Nat : k = In - Out_
    BY <1>3, <1>5
  <1>7. PICK f : f = [i \in 1 .. k |-> sl.buf[At(sl.out + i - 1)]]
    BY Zenon
  <1>8. \A i \in 1 .. k : f[i] = sl.logged[Out_ + i] /\ f[i] \in Bytes
    <2> TAKE i \in 1 .. k
    <2>1. PICK a \in Int, d \in Int : a = Out_ /\ d = i - 1
      BY <1>3
    <2>p. \A x \in Int : x % SLWrap \in Int
      BY <1>2, ModSplit
    <2>q. PICK q \in Int : q = a % SLWrap
      BY <2>p, Zenon
    <2>r. ((a % SLWrap) + d) % N = (a + d) % N
      BY <1>2, ModPlace, Zenon
    <2>2. (q + d) % N = (a + d) % N
      BY <2>q, <2>r, Zenon
    <2>3. sl.out + i - 1 = q + d /\ (Out_ + i) - 1 = a + d
      BY <1>5, <2>1, <2>q
    <2>4. f[i] = sl.buf[((Out_ + i) - 1) % N]
      BY <1>3, <1>7, <2>2, <2>3, Zenon
    <2>5. Out_ + i \in Out_ + 1 .. In /\ Out_ + i \in 1 .. In
      BY <1>3, <1>6
    <2>6. sl.buf[((Out_ + i) - 1) % N] = sl.logged[Out_ + i]
      BY <1>1, <2>5 DEF Positions
    <2>7. sl.logged[Out_ + i] \in Bytes
      BY <1>5, <2>5, ElementOf DEF In
    <2> QED
      BY <2>4, <2>6, <2>7
  <1>9. f \in [1 .. k -> Bytes]
    BY <1>7, <1>8
  <1>10. PICK g : g = sl.written \o f
    BY Zenon
  <1>11. /\ g \in Seq(Bytes) /\ Len(g) = Out_ + k
         /\ \A i \in 1 .. Out_ : g[i] = sl.written[i]
         /\ \A i \in Out_ + 1 .. Out_ + k : g[i] = f[i - Out_]
    BY <1>5, <1>9, <1>10, Appended DEF Out_
  <1>12. Out_ + k = In
    BY <1>3, <1>6
  <1>13. \A j \in 1 .. In : g[j] = sl.logged[j]
    <2> TAKE j \in 1 .. In
    <2>1. CASE j <= Out_
      <3>1. j \in 1 .. Out_
        BY <2>1, <1>3
      <3> QED
        BY <3>1, <1>1, <1>11 DEF Positions
    <2>2. CASE j > Out_
      <3>1. PICK i \in 1 .. k : i = j - Out_
        BY <1>3, <1>6, <2>2
      <3>2. j = Out_ + i /\ j \in Out_ + 1 .. Out_ + k
        BY <1>3, <1>12, <2>2, <3>1
      <3>3. g[j] = f[i]
        BY <3>1, <3>2, <1>11
      <3> QED
        BY <3>2, <3>3, <1>8
    <2> QED
      BY <2>1, <2>2, <1>3
  <1>14. g = sl.logged
    <2>1. Len(sl.logged) = In
      BY DEF In
    <2> QED
      BY <2>1, <1>5, <1>11, <1>12, <1>13, SeqEqual
  <1>15. DOMAIN sl.logged = 1 .. In /\ \A j \in 1 .. In : sl.logged[j][1] # 0
    BY <1>1, <1>5 DEF In, Positions
  <1>16. (sl.in - sl.out + SLWrap) % SLWrap = k /\ k <= SLSize
    BY <1>3, <1>4, <1>5, <1>6
  <1> QED
    BY <1>7, <1>10, <1>14, <1>15, <1>16, Zenon DEF LogInOrder

\* What was written followed by what is in the ring is what was logged, byte for byte, for every size
\* of the ring, every width of its positions, any number of threads and any messages (rfifo_write,
\* rfifo_flush).
THEOREM LogInOrderAlways == SLSpec => []LogInOrder
PROOF
  <1>1. SLInit => Shape /\ Given /\ OneThread /\ Ring
    BY InitShape, RingInit, OneThreadInit
  <1>2. Shape /\ Given /\ OneThread /\ Ring /\ [SLNext]_sl => (Shape /\ Given /\ OneThread /\ Ring)'
    BY StepShape, GivenStep, OneThreadStep, RingStep
  <1>3. Given /\ Ring => LogInOrder
    BY RingInOrder
  <1> QED
    BY <1>1, <1>2, <1>3, PTL DEF SLSpec
=============================================================================
