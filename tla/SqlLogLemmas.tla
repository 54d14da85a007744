---------------------------- MODULE SqlLogLemmas ----------------------------
(* What the proofs about the sql log rest on: the arithmetic of positions    *)
(* that wrap, and what each step of the writer and of the thread leaves      *)
(* alone.                                                                    *)
EXTENDS SqlLog, TLAPS

-----------------------------------------------------------------------------
(* Positions                                                                 *)

\* A remainder is determined by any way of writing the number as a multiple and a rest (the index of a
\* position in the buffer, rfifo_write and rfifo_flush).
LEMMA ModUnique ==
    ASSUME NEW w \in Nat \ {0}, NEW q \in Int, NEW r \in 0 .. w - 1, NEW x \in Int, x = q * w + r
    PROVE  x % w = r
PROOF
  <1>2. x = w * (x \div w) + (x % w) /\ x % w \in 0 .. w - 1 /\ x \div w \in Int
    BY SMTT(40)
  <1>3. PICK d \in Int : d = q - (x \div w)
    BY <1>2
  <1>4. PICK m \in 0 .. w - 1 : m = x % w
    BY <1>2
  <1>5. w * d = m - r
    <2>1. w * (q - (x \div w)) = w * q - w * (x \div w)
      BY <1>2
    <2> QED
      BY <2>1, <1>2, <1>3, <1>4
  <1>6. ~(d >= 1)
    <2> SUFFICES ASSUME d >= 1 PROVE FALSE
      OBVIOUS
    <2>1. w * d >= w
      BY SMTT(40)
    <2> QED
      BY <2>1, <1>5
  <1>7. ~(d <= -1)
    <2> SUFFICES ASSUME d <= -1 PROVE FALSE
      OBVIOUS
    <2>1. w * d <= -w
      BY SMTT(40)
    <2> QED
      BY <2>1, <1>5
  <1>8. d = 0
    BY <1>6, <1>7
  <1>9. w * d = 0
    BY <1>8
  <1>10. m = r
    BY <1>9, <1>5
  <1> QED
    BY <1>10, <1>4

\* A number is a multiple of the modulus and its remainder.
LEMMA ModSplit ==
    ASSUME NEW w \in Nat \ {0}, NEW a \in Int
    PROVE  \E q \in Int, r \in 0 .. w - 1 : a = q * w + r /\ a % w = r
PROOF
  <1>1. a = w * (a \div w) + (a % w) /\ a % w \in 0 .. w - 1 /\ a \div w \in Int
    BY SMTT(40)
  <1>2. a = (a \div w) * w + (a % w)
    BY <1>1
  <1> QED
    BY <1>1, <1>2, Zenon

\* A sum of positions is their sum, wrapped once at the end.
LEMMA ModAdd ==
    ASSUME NEW w \in Nat \ {0}, NEW a \in Int, NEW k \in Int
    PROVE  ((a % w) + k) % w = (a + k) % w
PROOF
  <1>1. PICK q \in Int, r \in 0 .. w - 1 : a = q * w + r /\ a % w = r
    BY ModSplit, Zenon
  <1>2. PICK y \in Int : y = r + k
    OBVIOUS
  <1>3. PICK p \in Int, t \in 0 .. w - 1 : y = p * w + t /\ y % w = t
    BY ModSplit, Zenon
  <1>4. PICK z \in Int : z = a + k
    OBVIOUS
  <1>5. PICK qp \in Int : qp = q + p
    OBVIOUS
  <1>6. qp * w = q * w + p * w
    BY <1>5
  <1>7. z = qp * w + t
    BY <1>6, <1>4, <1>3, <1>2, <1>1
  <1>8. z % w = t
    BY <1>7, ModUnique
  <1> QED
    BY <1>8, <1>4, <1>3, <1>2, <1>1

\* How much is in the ring: the difference of two positions, in the arithmetic of guint.
LEMMA ModDiff ==
    ASSUME NEW w \in Nat \ {0}, NEW a \in Int, NEW b \in Int, NEW n \in Int,
           n + (a - b) \in 0 .. w - 1
    PROVE  (n + (a % w) - (b % w) + w) % w = n + (a - b)
PROOF
  <1>1. PICK q \in Int, r \in 0 .. w - 1 : a = q * w + r /\ a % w = r
    BY ModSplit, Zenon
  <1>2. PICK p \in Int, t \in 0 .. w - 1 : b = p * w + t /\ b % w = t
    BY ModSplit
  <1>3. PICK x \in Int : x = n + r - t + w
    OBVIOUS
  <1>4. PICK m \in 0 .. w - 1 : m = n + (a - b)
    OBVIOUS
  <1>5. PICK d \in Int : d = p - q + 1
    OBVIOUS
  <1>6. d * w = p * w - q * w + w
    BY <1>5
  <1>7. x = d * w + m
    BY <1>6, <1>4, <1>3, <1>2, <1>1
  <1>8. x % w = m
    BY <1>7, ModUnique
  <1> QED
    BY <1>8, <1>4, <1>3, <1>2, <1>1

\* The place in the ring of a wrapped position.
LEMMA ModMod ==
    ASSUME NEW w \in Nat \ {0}, NEW n \in Nat \ {0}, w % n = 0, NEW a \in Int
    PROVE  (a % w) % n = a % n
PROOF
  <1>1. PICK q \in Int, r \in 0 .. w - 1 : a = q * w + r /\ a % w = r
    BY ModSplit, Zenon
  <1>2. PICK c \in Int, z \in 0 .. n - 1 : w = c * n + z /\ w % n = z
    BY ModSplit
  <1>3. PICK p \in Int, t \in 0 .. n - 1 : r = p * n + t /\ r % n = t
    <2>1. \A x \in Int : \E p \in Int, t \in 0 .. n - 1 : x = p * n + t /\ x % n = t
      BY ModSplit, Zenon
    <2> QED
      BY <2>1
  <1>4. PICK d \in Int : d = q * c + p
    OBVIOUS
  <1>5. q * w = (q * c) * n
    BY <1>2
  <1>6. d * n = (q * c) * n + p * n
    BY <1>4
  <1>7. a = d * n + t
    BY <1>1, <1>3, <1>5, <1>6
  <1>8. a % n = t
    BY <1>7, ModUnique
  <1> QED
    BY <1>8, <1>1, <1>3

\* The place i steps on from a place, and d steps back.
LEMMA ModStep ==
    ASSUME NEW n \in Nat \ {0}, NEW a \in Int, NEW i \in Int, i < n, i > -n
    PROVE  /\ a % n \in 0 .. n - 1
           /\ (a + i) % n = IF (a % n) + i >= n THEN (a % n) + i - n
                            ELSE IF (a % n) + i < 0 THEN (a % n) + i + n ELSE (a % n) + i
PROOF
  <1>1. PICK q \in Int, r \in 0 .. n - 1 : a = q * n + r /\ a % n = r
    BY ModSplit, Zenon
  <1>2. PICK x \in Int : x = a + i
    OBVIOUS
  <1>3. CASE r + i >= n
    <2>1. PICK d \in Int : d = q + 1
      OBVIOUS
    <2>2. d * n = q * n + n
      BY <2>1
    <2>3. PICK t \in 0 .. n - 1 : t = r + i - n
      BY <1>3
    <2>4. x = d * n + t
      BY <2>2, <2>3, <1>2, <1>1
    <2>5. x % n = t
      BY <2>4, ModUnique
    <2> QED
      BY <2>5, <2>3, <1>3, <1>2, <1>1
  <1>4. CASE r + i < 0
    <2>1. PICK d \in Int : d = q - 1
      OBVIOUS
    <2>2. d * n = q * n - n
      BY <2>1
    <2>3. PICK t \in 0 .. n - 1 : t = r + i + n
      BY <1>4
    <2>4. x = d * n + t
      BY <2>2, <2>3, <1>2, <1>1
    <2>5. x % n = t
      BY <2>4, ModUnique
    <2> QED
      BY <2>5, <2>3, <1>4, <1>2, <1>1
  <1>5. CASE r + i \in 0 .. n - 1
    <2>1. PICK t \in 0 .. n - 1 : t = r + i
      BY <1>5
    <2>2. x = q * n + t
      BY <2>1, <1>2, <1>1
    <2>3. x % n = t
      BY <2>2, ModUnique
    <2> QED
      BY <2>3, <2>1, <1>5, <1>2, <1>1
  <1> QED
    BY <1>3, <1>4, <1>5

\* A full turn is no move.
LEMMA ModTurn ==
    ASSUME NEW w \in Nat \ {0}, NEW a \in Int
    PROVE  (a + w) % w = a % w
PROOF
  <1>1. PICK q \in Int, r \in 0 .. w - 1 : a = q * w + r /\ a % w = r
    BY ModSplit, Zenon
  <1>2. PICK x \in Int : x = a + w
    OBVIOUS
  <1>3. PICK d \in Int : d = q + 1
    OBVIOUS
  <1>4. d * w = q * w + w
    BY <1>3
  <1>5. x = d * w + r
    BY <1>1, <1>2, <1>4
  <1>6. x % w = r
    BY <1>5, ModUnique
  <1> QED
    BY <1>6, <1>1, <1>2

\* The rest of the ring leads to its start.
LEMMA ModRest ==
    ASSUME NEW n \in Nat \ {0}, NEW a \in Int
    PROVE  (a + (n - (a % n))) % n = 0
PROOF
  <1>1. PICK q \in Int, r \in 0 .. n - 1 : a = q * n + r /\ a % n = r
    BY ModSplit, Zenon
  <1>2. PICK x \in Int : x = a + (n - r)
    OBVIOUS
  <1>3. PICK d \in Int : d = q + 1
    OBVIOUS
  <1>4. d * n = q * n + n
    BY <1>3
  <1>5. x = d * n + 0
    BY <1>1, <1>2, <1>4
  <1>6. 0 \in 0 .. n - 1
    OBVIOUS
  <1>7. x % n = 0
    BY <1>5, <1>6, ModUnique
  <1> QED
    BY <1>7, <1>1, <1>2

\* The place k steps on from a wrapped position.
LEMMA ModPlace ==
    ASSUME NEW w \in Nat \ {0}, NEW n \in Nat \ {0}, w % n = 0, NEW a \in Int, NEW k \in Int
    PROVE  ((a % w) + k) % n = (a + k) % n
PROOF
  <1>1. PICK b \in Int : b = a % w
    BY ModSplit
  <1>2. b % n = a % n
    BY <1>1, ModMod, Zenon
  <1>3. ((b % n) + k) % n = (b + k) % n
    BY ModAdd, Zenon
  <1>4. ((a % n) + k) % n = (a + k) % n
    BY ModAdd, Zenon
  <1> QED
    BY <1>1, <1>2, <1>3, <1>4, Zenon

\* Of n bytes of which l go up to the end of the buffer, byte i goes to the place i - 1 steps on from
\* a, which is at place c, and none to the places of the u bytes before a.
CopiedRight(m, a, u, n, c, l) ==
    /\ \A i \in 1 .. n : /\ (a + i - 1) % m \in 0 .. m - 1
                         /\ IF (a + i - 1) % m < n - l THEN ((a + i - 1) % m) + l + 1 = i
                            ELSE /\ (a + i - 1) % m >= c /\ (a + i - 1) % m < c + l
                                 /\ ((a + i - 1) % m) - c + 1 = i
    /\ \A d \in 1 .. u : /\ ~((a - d) % m < n - l)
                         /\ ~((a - d) % m >= c /\ (a - d) % m < c + l)

\* rfifo_write's two copies overwrite nothing that waits in the ring.
LEMMA CopyPlaces ==
    ASSUME NEW N \in Nat \ {0}, NEW a \in Nat, NEW u \in Nat, NEW n \in Nat, n + u <= N,
           NEW c, c = a % N, NEW l, l = Least_(n, N - c)
    PROVE  CopiedRight(N, a, u, n, c, l)
PROOF
  <1>1. c \in 0 .. N - 1
    BY ModSplit
  <1>2. l \in Int /\ (n <= N - c => l = n) /\ (n > N - c => l = N - c)
    BY <1>1 DEF Least_
  <1>m. \A k \in Int : k < N /\ k > -N =>
            (a + k) % N = IF c + k >= N THEN c + k - N ELSE IF c + k < 0 THEN c + k + N ELSE c + k
    <2> TAKE k \in Int
    <2> HAVE k < N /\ k > -N
    <2>1. (a + k) % N = IF (a % N) + k >= N THEN (a % N) + k - N
                        ELSE IF (a % N) + k < 0 THEN (a % N) + k + N ELSE (a % N) + k
      <3>1. a \in Int
        OBVIOUS
      <3> QED
        BY <3>1, ModStep, Zenon
    <2> QED
      BY <2>1, <1>1
  <1>3. ASSUME NEW i \in 1 .. n
        PROVE  /\ (a + i - 1) % N \in 0 .. N - 1
               /\ IF (a + i - 1) % N < n - l THEN ((a + i - 1) % N) + l + 1 = i
                  ELSE /\ (a + i - 1) % N >= c /\ (a + i - 1) % N < c + l
                       /\ ((a + i - 1) % N) - c + 1 = i
    <2>1. PICK k \in Int : k = i - 1
      OBVIOUS
    <2>2. k < N /\ k > -N
      BY <2>1
    <2>3. (a + k) % N = IF c + k >= N THEN c + k - N ELSE IF c + k < 0 THEN c + k + N ELSE c + k
      BY <2>2, <1>m, Zenon
    <2>4. a + i - 1 = a + k
      BY <2>1
    <2>5. PICK p : p = (a + k) % N
      OBVIOUS
    <2>6. p = IF c + k >= N THEN c + k - N ELSE c + k
      BY <2>5, <2>3, <2>1, <1>1
    <2>7. /\ p \in 0 .. N - 1
          /\ IF p < n - l THEN p + l + 1 = i ELSE p >= c /\ p < c + l /\ p - c + 1 = i
      BY <2>6, <2>1, <1>1, <1>2
    <2> QED
      BY <2>7, <2>5, <2>4
  <1>4. ASSUME NEW d \in 1 .. u
        PROVE  /\ ~((a - d) % N < n - l)
               /\ ~((a - d) % N >= c /\ (a - d) % N < c + l)
    <2>1. PICK p : p = (a - d) % N
      OBVIOUS
    <2>2. p \in 0 .. N - 1
      BY <2>1, ModSplit
    <2>3. CASE n = 0
      BY <2>1, <2>2, <2>3, <1>1, <1>2
    <2>4. CASE n > 0
      <3>1. PICK k \in Int : k = -d
        OBVIOUS
      <3>2. k < N /\ k > -N
        BY <3>1, <2>4
      <3>3. (a + k) % N = IF c + k >= N THEN c + k - N ELSE IF c + k < 0 THEN c + k + N ELSE c + k
        BY <3>2, <1>m, Zenon
      <3>4. a - d = a + k
        BY <3>1
      <3>5. p = IF c + k < 0 THEN c + k + N ELSE c + k
        BY <3>3, <3>4, <2>1, <3>1, <1>1
      <3> QED
        BY <3>5, <3>1, <1>1, <1>2, <2>1
    <2> QED
      BY <2>3, <2>4
  <1> QED
    BY <1>3, <1>4 DEF CopiedRight

-----------------------------------------------------------------------------
(* The state                                                                 *)

Fields == {"pc", "mix", "buf", "in", "out", "next", "w", "action", "switch", "mode", "thr", "fp",
           "cur", "file", "now", "maxnum", "most", "filelist", "disk", "shut", "clean", "logged",
           "written"}

MixFields == {"msgs", "bufsize", "twice", "patient", "fails", "admin", "sets", "shut"}

\* A state has these fields.
Shaped(s) ==
    /\ DOMAIN s = Fields
    /\ DOMAIN s.mix = MixFields
    /\ DOMAIN s.w = {"pc", "len"}
    /\ DOMAIN s.thr = SLThreads
    /\ \A t \in SLThreads : DOMAIN s.thr[t] = {"pc", "len", "rest", "ret"}

Shape == Shaped(sl)

\* Nothing but the thread and its file has changed.
Aside(s) ==
    /\ s.pc = sl.pc /\ s.mix = sl.mix /\ s.clean = sl.clean
    /\ s.w = sl.w /\ s.buf = sl.buf /\ s.in = sl.in /\ s.next = sl.next /\ s.logged = sl.logged

\* What no step does: change the build or the messages, forget a failure, or leave a crash.
Ongoing ==
    /\ sl'.mix.patient = sl.mix.patient /\ sl'.mix.twice = sl.mix.twice
    /\ sl'.mix.msgs = sl.mix.msgs /\ sl'.mix.bufsize = sl.mix.bufsize
    /\ sl'.clean => sl.clean
    /\ sl'.pc = "up" => sl.pc = "up"

\* The initial state of the log has the fields of the record (sql_log_alloc).
LEMMA InitShape == SLInit => Shape
PROOF
  BY SqlLogAssumption DEF SLInit, Shape, Shaped, Fields, MixFields, Wait, Resting

\* A failed call is noted in `clean` and changes nothing the ring depends on.
LEMMA FailShape ==
    ASSUME NEW s, Shaped(s)
    PROVE  /\ Shaped(SLFail(s))
           /\ SLFail(s).clean = FALSE
           /\ SLFail(s).pc = s.pc
           /\ SLFail(s).mix.patient = s.mix.patient /\ SLFail(s).mix.twice = s.mix.twice
           /\ SLFail(s).mix.msgs = s.mix.msgs /\ SLFail(s).mix.bufsize = s.mix.bufsize
PROOF
  BY DEF SLFail, Shaped, Fields, MixFields

\* k bytes of the buffer from p on.
Piece(p, k) == [i \in 1 .. k |-> sl.buf[At(p + i - 1)]]

\* Bytes are written, and `out` follows.
LEMMA PwriteEffect ==
    ASSUME Shape, NEW t \in SLThreads, NEW p, NEW k, NEW pc
    PROVE  /\ Shaped(Pwrite(t, p, k, pc)) /\ Aside(Pwrite(t, p, k, pc))
           /\ Pwrite(t, p, k, pc).action = sl.action
           /\ Pwrite(t, p, k, pc).out = (sl.out + k + SLWrap) % SLWrap
           /\ Pwrite(t, p, k, pc).written = sl.written \o Piece(p, k)
           /\ \A u \in SLThreads \ {t} : Pwrite(t, p, k, pc).thr[u] = sl.thr[u]
           /\ Pwrite(t, p, k, pc).thr[t].pc = pc
           /\ Pwrite(t, p, k, pc).thr[t].rest = sl.thr[t].rest
PROOF
  <1> DEFINE r == [sl.thr[t] EXCEPT !.pc = pc, !.ret = (sl.thr[t].ret + k + SLWrap) % SLWrap]
             x == sl.written \o Piece(p, k)
             y == sl.file + (IF k > 0 THEN k ELSE 0)
             z == sl.cur + ((k + SLWrap) % SLWrap)
             o == (sl.out + k + SLWrap) % SLWrap
  <1>1. Pwrite(t, p, k, pc) = [sl EXCEPT !.thr[t] = r, !.written = x, !.file = y, !.cur = z, !.out = o]
    BY DEF Pwrite, Piece
  <1>2. DOMAIN r = {"pc", "len", "rest", "ret"} /\ r.pc = pc /\ r.rest = sl.thr[t].rest
    BY DEF Shape, Shaped
  <1> HIDE DEF r, x, y, z, o
  <1>3. PICK s : s = [sl EXCEPT !.thr[t] = r, !.written = x, !.file = y, !.cur = z, !.out = o]
    OBVIOUS
  <1>4. Shaped(s)
    BY <1>2, <1>3 DEF Shape, Shaped, Fields
  <1>5. Aside(s) /\ s.action = sl.action /\ s.out = o /\ s.written = x
    BY <1>3 DEF Shape, Shaped, Fields, Aside
  <1>6. s.thr = [sl.thr EXCEPT ![t] = r]
    BY <1>3 DEF Shape, Shaped, Fields
  <1>7. s.thr[t] = r /\ \A u \in SLThreads \ {t} : s.thr[u] = sl.thr[u]
    BY <1>6 DEF Shape, Shaped
  <1>8. Pwrite(t, p, k, pc) = s
    BY <1>1, <1>3
  <1>9. s.thr[t].pc = pc /\ s.thr[t].rest = sl.thr[t].rest
    BY <1>2, <1>7
  <1> QED
    BY <1>8, <1>4, <1>5, <1>7, <1>9, Zenon DEF x, o

\* sql_log_check_filenum changes the list and the files.
LEMMA FilenumEffect ==
    ASSUME NEW s, Shaped(s), NEW name
    PROVE  /\ Shaped(check_filenum(s, name))
           /\ \A f \in Fields \ {"filelist", "disk"} : check_filenum(s, name)[f] = s[f]
PROOF
  BY Zenon DEF check_filenum, Shaped, Fields

\* What sql_log_check_rotate leaves alone, unless something fails.
LEMMA RotateEffect ==
    ASSUME Shape, NEW t \in SLThreads, CheckRotate(t)
    PROVE  /\ Shaped(sl') /\ Ongoing
           /\ sl'.clean => /\ Aside(sl') /\ sl'.action = sl.action /\ sl'.out = sl.out
                           /\ sl'.written = sl.written
                           /\ sl'.thr = [sl.thr EXCEPT ![t].pc = "test"]
PROOF
  <1>1. Shaped(SLGo(t, "test")) /\ Aside(SLGo(t, "test"))
        /\ SLGo(t, "test").action = sl.action /\ SLGo(t, "test").out = sl.out
        /\ SLGo(t, "test").written = sl.written /\ SLGo(t, "test").thr = [sl.thr EXCEPT ![t].pc = "test"]
    BY DEF SLGo, Shape, Shaped, Aside, Fields
  <1>2. CASE sl' = SLGo(t, "test")
    BY <1>1, <1>2 DEF Ongoing, Aside, Shape
  <1>3. ASSUME NEW name,
               LET s == [SLGo(t, "test") EXCEPT !.now = name, !.cur = 0, !.fp = "open"]
                   moved == check_filenum([s EXCEPT !.disk = @ \cup {name}, !.file = 0], name)
               IN \/ sl' = moved
                  \/ sl.mix.fails > 0 /\ sl' = SLFail(s)
                  \/ sl.mix.fails > 0 /\ sl' = SLFail([moved EXCEPT !.fp = "null"])
        PROVE  /\ Shaped(sl') /\ Ongoing
               /\ sl'.clean => /\ Aside(sl') /\ sl'.action = sl.action /\ sl'.out = sl.out
                               /\ sl'.written = sl.written
                               /\ sl'.thr = [sl.thr EXCEPT ![t].pc = "test"]
    <2>1. PICK g : g = SLGo(t, "test")
      OBVIOUS
    <2>2. PICK s : s = [g EXCEPT !.now = name, !.cur = 0, !.fp = "open"]
      OBVIOUS
    <2>3. PICK d : d = [s EXCEPT !.disk = @ \cup {name}, !.file = 0]
      OBVIOUS
    <2>4. PICK m : m = check_filenum(d, name)
      OBVIOUS
    <2>5. PICK n : n = [m EXCEPT !.fp = "null"]
      BY Zenon
    <2>6. sl' = m \/ sl' = SLFail(s) \/ sl' = SLFail(n)
      BY <1>3, <2>1, <2>2, <2>3, <2>4, <2>5, Zenon
    <2>7. Shaped(s) /\ \A f \in Fields \ {"now", "cur", "fp"} : s[f] = g[f]
      BY <1>1, <2>1, <2>2, Zenon DEF Shaped, Fields
    <2>8. Shaped(d) /\ \A f \in Fields \ {"disk", "file"} : d[f] = s[f]
      BY <2>3, <2>7, Zenon DEF Shaped, Fields
    <2>9. Shaped(m) /\ \A f \in Fields \ {"filelist", "disk"} : m[f] = d[f]
      BY <2>4, <2>8, FilenumEffect
    <2>10. Shaped(n) /\ n.pc = m.pc /\ n.mix = m.mix
      BY <2>5, <2>9 DEF Shaped, Fields
    <2>11. CASE sl' = m
      BY <2>11, <1>1, <2>1, <2>7, <2>8, <2>9 DEF Ongoing, Aside, Shape, Fields
    <2>12. s.mix = sl.mix /\ s.pc = sl.pc /\ n.mix = sl.mix /\ n.pc = sl.pc
      BY <1>1, <2>1, <2>7, <2>8, <2>9, <2>10 DEF Aside, Fields
    <2>13. ASSUME NEW x \in {s, n}, sl' = SLFail(x)
           PROVE  Shaped(sl') /\ Ongoing /\ ~sl'.clean
      <3>1. Shaped(x) /\ x.mix = sl.mix /\ x.pc = sl.pc
        BY <2>7, <2>10, <2>12
      <3>2. /\ Shaped(SLFail(x)) /\ SLFail(x).clean = FALSE /\ SLFail(x).pc = x.pc
            /\ SLFail(x).mix.patient = x.mix.patient /\ SLFail(x).mix.twice = x.mix.twice
            /\ SLFail(x).mix.msgs = x.mix.msgs /\ SLFail(x).mix.bufsize = x.mix.bufsize
        BY <3>1, FailShape, Zenon
      <3> QED
        BY <2>13, <3>1, <3>2, Zenon DEF Ongoing
    <2>14. CASE sl' # m
      <3>1. Shaped(sl') /\ Ongoing /\ ~sl'.clean
        BY <2>6, <2>13, <2>14
      <3> QED
        BY <3>1
    <2> QED
      BY <2>11, <2>14
  <1> QED
    BY <1>2, <1>3, Zenon DEF CheckRotate

\* Every step keeps the fields of the record, so that what it leaves alone can be named.
LEMMA StepShape == Shape /\ [SLNext]_sl => Shape' /\ Ongoing
PROOF
  <1> SUFFICES ASSUME Shape, [SLNext]_sl PROVE Shape' /\ Ongoing
    OBVIOUS
  <1>a. Shaped(sl)
    BY DEF Shape
  <1>b. SUFFICES Shaped(sl') /\ Ongoing
    BY DEF Shape
  <1> USE DEF Shaped, Ongoing, Fields, MixFields, SLUp
  <1>1. CASE LogSql
    BY <1>a, <1>1 DEF LogSql, Took
  <1>2. CASE ReadAgain
    BY <1>a, <1>2 DEF ReadAgain, Took
  <1>3. CASE CopyIn
    BY <1>a, <1>3 DEF CopyIn
  <1>4. CASE Publish
    BY <1>a, <1>4 DEF Publish, Wait
  <1>5. ASSUME NEW t \in SLThreads, OpenLog(t) PROVE Shaped(sl') /\ Ongoing
    <2>1. CASE sl' = [SLGo(t, "load") EXCEPT !.fp = "open", !.cur = sl.file, !.action = "start"]
      BY <1>a, <1>5, <2>1 DEF SLGo, OpenLog
    <2>2. CASE sl' = SLFail([sl EXCEPT !.thr[t] = Resting, !.fp = "null", !.action = "stop"])
      <3>1. PICK s : s = [sl EXCEPT !.thr[t] = Resting, !.fp = "null", !.action = "stop"]
        OBVIOUS
      <3>2. Shaped(s) /\ s.mix = sl.mix /\ s.pc = sl.pc
        BY <1>a, <3>1 DEF Resting
      <3> HIDE DEF Shaped, Fields
      <3> QED
        BY <3>1, <3>2, <2>2, FailShape, Zenon
    <2> QED
      BY <1>5, <2>1, <2>2 DEF OpenLog
  <1>6. ASSUME NEW t \in SLThreads, FlushLoad(t) PROVE Shaped(sl') /\ Ongoing
    BY <1>a, <1>6 DEF FlushLoad, SLGo
  <1>7. ASSUME NEW t \in SLThreads, FlushFirst(t) \/ FlushSecond(t) PROVE Shaped(sl') /\ Ongoing
    <2>1. PICK p, k, pc : sl' = Pwrite(t, p, k, pc) \/ sl' = SLFail(Pwrite(t, p, k, pc))
      BY <1>7 DEF FlushFirst, FlushSecond
    <2>2. PICK s : s = Pwrite(t, p, k, pc)
      OBVIOUS
    <2>3. Shaped(s) /\ Aside(s)
      BY <2>2, PwriteEffect
    <2> HIDE DEF Shaped, Fields
    <2> QED
      BY <2>1, <2>2, <2>3, FailShape, Zenon DEF Aside
  <1>9. ASSUME NEW t \in SLThreads, AfterFlush(t) PROVE Shaped(sl') /\ Ongoing
    BY <1>a, <1>9 DEF AfterFlush, SLGo
  <1>10. ASSUME NEW t \in SLThreads, CheckRotate(t) PROVE Shaped(sl') /\ Ongoing
    BY <1>10, RotateEffect, Zenon DEF Shape
  <1>11. ASSUME NEW t \in SLThreads, TestAction(t) PROVE Shaped(sl') /\ Ongoing
    BY <1>a, <1>11 DEF TestAction, SLGo, Resting
  <1>12. CASE admin_sql_log_start
    BY <1>a, <1>12 DEF admin_sql_log_start
  <1>13. CASE admin_sql_log_stop
    BY <1>a, <1>13 DEF admin_sql_log_stop
  <1>14. ASSUME NEW v, SetSwitch(v) PROVE Shaped(sl') /\ Ongoing
    BY <1>a, <1>14 DEF SetSwitch, Setting
  <1>15. ASSUME NEW v, SetMode(v) PROVE Shaped(sl') /\ Ongoing
    BY <1>a, <1>15 DEF SetMode, Setting
  <1>16. ASSUME NEW v, SetMaxnum(v) PROVE Shaped(sl') /\ Ongoing
    BY <1>a, <1>16 DEF SetMaxnum, Setting
  <1>17. CASE SLShutdown
    BY <1>a, <1>17 DEF SLShutdown
  <1>18. CASE UNCHANGED sl
    BY <1>a, <1>18
  <1> QED
    BY <1>1, <1>2, <1>3, <1>4, <1>5, <1>6, <1>7, <1>9, <1>10, <1>11, <1>12, <1>13, <1>14, <1>15, <1>16,
       <1>17, <1>18, Zenon DEF SLNext
=============================================================================
