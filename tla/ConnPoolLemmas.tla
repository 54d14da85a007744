--------------------------- MODULE ConnPoolLemmas ---------------------------
(***************************************************************************)
(* What the queue operations of ConnPool do to the idle queues, what a     *)
(* change of one socket does to the counts, and what each kind of step     *)
(* (lending, returning, opening, closing) does to both together.           *)
(***************************************************************************)
EXTENDS ConnPool, FiniteSetTheorems, SequenceTheorems, TLAPS

-----------------------------------------------------------------------------
(* The queues.                                                              *)

(* A pushed socket is first and the others keep their order.               *)
LEMMA PushHeadFacts ==
  ASSUME NEW q \in Seq(Socks), NEW s \in Socks
  PROVE  /\ PushHead(q, s) \in Seq(Socks)
         /\ Len(PushHead(q, s)) = Len(q) + 1
         /\ \A i \in 1..(Len(q) + 1) : PushHead(q, s)[i] = IF i = 1 THEN s ELSE q[i - 1]
  BY DEF PushHead

(* Deleting a link leaves the others in their order.                       *)
LEMMA DeleteLinkFacts ==
  ASSUME NEW q \in Seq(Socks), NEW k \in 1..Len(q)
  PROVE  /\ DeleteLink(q, k) \in Seq(Socks)
         /\ Len(DeleteLink(q, k)) = Len(q) - 1
         /\ \A i \in 1..(Len(q) - 1) : DeleteLink(q, k)[i] = IF i < k THEN q[i] ELSE q[i + 1]
  BY DEF DeleteLink

(* PosOf finds a socket that is there.                                     *)
LEMMA PosOfFacts ==
  ASSUME NEW q, NEW s, \E i \in 1..Len(q) : q[i] = s
  PROVE  PosOf(q, s) \in 1..Len(q) /\ q[PosOf(q, s)] = s
  BY DEF PosOf

(* Pushing a socket that is not listed.                                    *)
LEMMA ListsPush ==
  ASSUME NEW q \in Seq(Socks), NEW S \in SUBSET Socks, NEW s \in Socks, s \notin S, Lists(q, S)
  PROVE  Lists(PushHead(q, s), S \union {s})
<1>i. \A i \in 1..Len(q) : q[i] \in S
  BY DEF Lists
<1>u. \A i, j \in 1..Len(q) : q[i] = q[j] => i = j
  BY DEF Lists
<1>c. \A t \in S : \E i \in 1..Len(q) : q[i] = t
  BY DEF Lists
<1> DEFINE p == PushHead(q, s)
<1>1. /\ Len(p) = Len(q) + 1 /\ Len(q) \in Nat
      /\ \A i \in 1..(Len(q) + 1) : p[i] = IF i = 1 THEN s ELSE q[i - 1]
  BY DEF PushHead
<1> HIDE DEF p
<1>2. \A i \in 1..Len(p) : (i = 1 /\ p[i] = s) \/ (i - 1 \in 1..Len(q) /\ p[i] = q[i - 1])
  BY <1>1
<1>a. \A i \in 1..Len(p) : p[i] \in S \union {s}
  BY <1>2, <1>i
<1>3. ASSUME NEW i \in 1..Len(p), NEW j \in 1..Len(p), p[i] = p[j]
      PROVE  i = j
  <2>1. CASE i = 1 \/ j = 1
    <3>1. ~ \E n \in 1..Len(q) : q[n] = s
      BY <1>i
    <3> QED
      BY <1>1, <1>2, <1>3, <2>1, <3>1, SMTT(40)
  <2>2. CASE i # 1 /\ j # 1
    <3>0. i - 1 \in 1..Len(q) /\ j - 1 \in 1..Len(q) /\ q[i - 1] = q[j - 1]
      BY <1>2, <1>3, <2>2
    <3>1. i - 1 = j - 1
      BY <3>0, <1>u
    <3> QED
      BY <3>1, <1>1
  <2> QED
    BY <2>1, <2>2
<1>4. p[1] = s /\ \A i \in 1..Len(q) : i + 1 \in 1..Len(p) /\ p[i + 1] = q[i]
  BY <1>1
<1>5. \A t \in S \union {s} : \E i \in 1..Len(p) : p[i] = t
  <2> SUFFICES ASSUME NEW t \in S, t # s
               PROVE  \E i \in 1..Len(p) : p[i] = t
    BY <1>1, <1>4
  <2>1. PICK n \in 1..Len(q) : q[n] = t
    BY <1>c
  <2> QED
    BY <2>1, <1>4
<1>6. Lists(p, S \union {s})
  BY <1>a, <1>3, <1>5, ZenonT(20) DEF Lists
<1> QED
  BY <1>6 DEF p

(* Deleting the link of a socket.                                          *)
LEMMA ListsDelete ==
  ASSUME NEW q \in Seq(Socks), NEW S \in SUBSET Socks, NEW k \in 1..Len(q), Lists(q, S)
  PROVE  Lists(DeleteLink(q, k), S \ {q[k]})
<1>i. \A i \in 1..Len(q) : q[i] \in S
  BY DEF Lists
<1>u. \A i, j \in 1..Len(q) : q[i] = q[j] => i = j
  BY DEF Lists
<1>c. \A t \in S : \E i \in 1..Len(q) : q[i] = t
  BY DEF Lists
<1> DEFINE p == DeleteLink(q, k)
<1>1. /\ Len(p) = Len(q) - 1 /\ Len(q) \in Nat
      /\ \A i \in 1..(Len(q) - 1) : p[i] = IF i < k THEN q[i] ELSE q[i + 1]
  BY DEF DeleteLink
<1> HIDE DEF p
<1> DEFINE from(i) == IF i < k THEN i ELSE i + 1
<1>2. \A i \in 1..Len(p) : from(i) \in 1..Len(q) /\ from(i) # k /\ p[i] = q[from(i)]
  BY <1>1
<1>a. \A i \in 1..Len(p) : p[i] \in S \ {q[k]}
  <2> HIDE DEF from
  <2> QED
    BY <1>2, <1>i, <1>u
<1>3. ASSUME NEW i \in 1..Len(p), NEW j \in 1..Len(p), p[i] = p[j]
      PROVE  i = j
  <2>1. from(i) = from(j)
    <3>1. /\ from(i) \in 1..Len(q) /\ from(j) \in 1..Len(q)
          /\ p[i] = q[from(i)] /\ p[j] = q[from(j)]
      BY <1>2
    <3>2. q[from(i)] = q[from(j)]
      BY <3>1, <1>3
    <3> HIDE DEF from
    <3> QED
      BY <3>1, <3>2, <1>u
  <2> QED
    BY <2>1, <1>1
<1>4. \A i \in 1..Len(q) : i < k => i \in 1..Len(p) /\ p[i] = q[i]
  BY <1>1
<1>5. \A i \in 1..Len(q) : i > k => i - 1 \in 1..Len(p) /\ p[i - 1] = q[i]
  BY <1>1
<1>6. \A t \in S \ {q[k]} : \E i \in 1..Len(p) : p[i] = t
  <2> SUFFICES ASSUME NEW t \in S \ {q[k]}
               PROVE  \E i \in 1..Len(p) : p[i] = t
    OBVIOUS
  <2>1. PICK n \in 1..Len(q) : q[n] = t
    BY <1>c
  <2>2. n < k \/ n > k
    BY <2>1, <1>1
  <2> QED
    BY <2>1, <2>2, <1>4, <1>5
<1>7. Lists(p, S \ {q[k]})
  BY <1>a, <1>3, <1>6, ZenonT(20) DEF Lists
<1> QED
  BY <1>7 DEF p

(* Taking the head.                                                        *)
LEMMA ListsTail ==
  ASSUME NEW q \in Seq(Socks), NEW S \in SUBSET Socks, Len(q) > 0, Lists(q, S)
  PROVE  /\ Tail(q) \in Seq(Socks) /\ Head(q) \in S
         /\ Lists(Tail(q), S \ {Head(q)})
<1>1. q # << >> /\ Len(q) \in Nat
  OBVIOUS
<1>2. /\ Tail(q) \in Seq(Socks) /\ Len(Tail(q)) = Len(q) - 1 /\ Head(q) = q[1]
      /\ \A i \in 1..(Len(q) - 1) : Tail(q)[i] = q[i + 1]
  BY <1>1, HeadTailProperties
<1>i. \A i \in 1..Len(q) : q[i] \in S
  BY DEF Lists
<1>u. \A i, j \in 1..Len(q) : q[i] = q[j] => i = j
  BY DEF Lists
<1>c. \A t \in S : \E i \in 1..Len(q) : q[i] = t
  BY DEF Lists
<1> DEFINE p == Tail(q)
<1> HIDE DEF p
<1>3. /\ Len(p) = Len(q) - 1
      /\ \A i \in 1..(Len(q) - 1) : p[i] = q[i + 1]
  BY <1>2 DEF p
<1>4. \A i \in 1..Len(p) : p[i] \in S \ {q[1]}
  BY <1>1, <1>3, <1>i, <1>u
<1>5. \A i, j \in 1..Len(p) : p[i] = p[j] => i = j
  BY <1>1, <1>3, <1>u
<1>6. \A i \in 1..Len(q) : i > 1 => i - 1 \in 1..Len(p) /\ p[i - 1] = q[i]
  BY <1>1, <1>3
<1>7. \A t \in S \ {q[1]} : \E i \in 1..Len(p) : p[i] = t
  BY <1>1, <1>6, <1>c
<1>8. q[1] \in S
  BY <1>1, <1>i
<1> QED
  BY <1>2, <1>4, <1>5, <1>7, <1>8 DEF Lists, p

-----------------------------------------------------------------------------
(* What the operations on the pool do to the queues and to the idle set.    *)

PoolType == queue \in [Users -> Seq(Socks)] /\ sock \in [Socks -> SockType]

IdleOf(K, u) == {s \in Socks : K[s].at = "idle" /\ K[s].user = u}

(* QueuesExact, of the queues now and after a step.                        *)
LEMMA ExactNow ==
  /\ QueuesExact <=> \A u \in Users : Lists(queue[u], IdleOf(sock, u))
  /\ QueuesExact' <=> \A u \in Users : Lists(queue'[u], IdleOf(sock', u))
<1>1. \A u : {s \in Idle : sock[s].user = u} = IdleOf(sock, u)
  BY DEF Idle, IdleOf
<1>2. \A u : {s \in Idle' : sock'[s].user = u} = IdleOf(sock', u)
  BY DEF Idle, IdleOf
<1> QED
  BY <1>1, <1>2, ZenonT(40) DEF QueuesExact

(* network_connection_pool_add of a socket that is not idle.               *)
LEMMA AddExact ==
  ASSUME PoolType, QueuesExact, NEW s \in Socks, s \notin Idle, network_connection_pool_add(s)
  PROVE  PoolType' /\ QueuesExact' /\ Idle' = Idle \union {s}
<1> DEFINE u0 == sock[s].user
<1>1. u0 \in Users /\ \A u \in Users : queue[u] \in Seq(Socks)
  BY DEF PoolType, SockType
<1>2. sock' \in [Socks -> SockType]
  BY ZenonT(40) DEF network_connection_pool_add, PoolType, SockType, Phases
<1>3. /\ sock'[s].at = "idle" /\ sock'[s].user = u0
      /\ \A t \in Socks \ {s} : sock'[t] = sock[t]
  BY DEF network_connection_pool_add, PoolType, SockType
<1>4. queue'[u0] = PushHead(queue[u0], s) /\ \A u \in Users \ {u0} : queue'[u] = queue[u]
  BY <1>1 DEF network_connection_pool_add, PoolType
<1>5. queue' \in [Users -> Seq(Socks)]
  BY <1>1, PushHeadFacts, ZenonT(40) DEF network_connection_pool_add, PoolType
<1>6. Idle' = Idle \union {s}
  BY <1>3 DEF Idle
<1>7. IdleOf(sock', u0) = IdleOf(sock, u0) \union {s} /\ \A u \in Users \ {u0} : IdleOf(sock', u) = IdleOf(sock, u)
  BY <1>3, <1>6 DEF IdleOf, Idle
<1>8. \A u \in Users : IdleOf(sock, u) \in SUBSET Socks /\ s \notin IdleOf(sock, u) /\ Lists(queue[u], IdleOf(sock, u))
  BY ExactNow DEF IdleOf, Idle
<1>9. Lists(queue'[u0], IdleOf(sock', u0))
  BY <1>1, <1>4, <1>7, <1>8, ListsPush, SMTT(40)
<1>10. \A u \in Users : Lists(queue'[u], IdleOf(sock', u))
  BY <1>4, <1>7, <1>8, <1>9
<1>11. QueuesExact'
  BY <1>10, ExactNow
<1> QED
  BY <1>2, <1>5, <1>6, <1>11 DEF PoolType

(* network_connection_pool_remove of an idle socket.                       *)
LEMMA RemoveExact ==
  ASSUME PoolType, QueuesExact, NEW s \in Idle, network_connection_pool_remove(s)
  PROVE  PoolType' /\ QueuesExact' /\ Idle' = Idle \ {s}
<1> DEFINE u0 == sock[s].user
           k == PosOf(queue[u0], s)
<1>1. s \in Socks /\ u0 \in Users /\ \A u \in Users : queue[u] \in Seq(Socks)
  BY DEF PoolType, SockType, Idle
<1>2. Closed \in SockType /\ Closed.at = "closed"
  BY PoolAssumption DEF Closed, SockType, Phases
<1>3. sock' \in [Socks -> SockType]
  BY <1>1, <1>2 DEF network_connection_pool_remove, PoolType
<1>4. sock'[s].at = "closed" /\ \A t \in Socks \ {s} : sock'[t] = sock[t]
  BY <1>1, <1>2 DEF network_connection_pool_remove, PoolType
<1>5. queue'[u0] = DeleteLink(queue[u0], k) /\ \A u \in Users \ {u0} : queue'[u] = queue[u]
  BY <1>1 DEF network_connection_pool_remove, PoolType
<1>6. Idle' = Idle \ {s}
  BY <1>4 DEF Idle
<1>7. /\ IdleOf(sock', u0) = IdleOf(sock, u0) \ {s}
      /\ \A u \in Users \ {u0} : IdleOf(sock', u) = IdleOf(sock, u)
  BY <1>1, <1>4 DEF IdleOf
<1>8. \A u \in Users : IdleOf(sock, u) \in SUBSET Socks /\ Lists(queue[u], IdleOf(sock, u))
  BY ExactNow DEF IdleOf
<1>9. s \in IdleOf(sock, u0)
  BY <1>1, SMTT(40) DEF IdleOf, Idle
<1>10. k \in 1..Len(queue[u0]) /\ queue[u0][k] = s
  BY <1>1, <1>8, <1>9, PosOfFacts, SMTT(40) DEF Lists
<1> HIDE DEF k
<1>11. DeleteLink(queue[u0], k) \in Seq(Socks)
  BY <1>1, <1>10, DeleteLinkFacts
<1>12. queue' \in [Users -> Seq(Socks)]
  BY <1>1, <1>11, SMTT(40) DEF network_connection_pool_remove, PoolType, k
<1>13. Lists(queue'[u0], IdleOf(sock', u0))
  BY <1>1, <1>5, <1>7, <1>8, <1>10, ListsDelete, SMTT(40)
<1>14. QueuesExact'
  BY <1>5, <1>7, <1>8, <1>13, ExactNow, SMTT(40)
<1> QED
  BY <1>3, <1>6, <1>12, <1>14 DEF PoolType

(* Lending the head of a queue.                                            *)
LEMMA LendExact ==
  ASSUME PoolType, QueuesExact, NEW v \in Users, Len(queue[v]) > 0,
         sock' = [sock EXCEPT ![Head(queue[v])].at = "lent"],
         queue' = [queue EXCEPT ![v] = Tail(@)]
  PROVE  /\ PoolType' /\ QueuesExact' /\ Head(queue[v]) \in Idle
         /\ Idle' = Idle \ {Head(queue[v])}
<1> DEFINE s == Head(queue[v])
<1>1. \A u \in Users : queue[u] \in Seq(Socks)
  BY DEF PoolType
<1>2. \A u \in Users : IdleOf(sock, u) \in SUBSET Socks /\ Lists(queue[u], IdleOf(sock, u))
  BY ExactNow, SMTT(40) DEF IdleOf
<1>3. Tail(queue[v]) \in Seq(Socks) /\ s \in IdleOf(sock, v) /\ Lists(Tail(queue[v]), IdleOf(sock, v) \ {s})
  BY <1>1, <1>2, ListsTail, ZenonT(40)
<1>4. s \in Socks /\ s \in Idle /\ sock[s].user = v
  BY <1>3 DEF IdleOf, Idle
<1> HIDE DEF s
<1>5. sock' \in [Socks -> SockType]
  BY <1>4, ZenonT(40) DEF PoolType, SockType, Phases, s
<1>6. sock'[s].at = "lent" /\ \A t \in Socks \ {s} : sock'[t] = sock[t]
  BY <1>4 DEF PoolType, SockType, s
<1>7. queue' \in [Users -> Seq(Socks)] /\ queue'[v] = Tail(queue[v])
      /\ \A u \in Users \ {v} : queue'[u] = queue[u]
  BY <1>3 DEF PoolType
<1>8. Idle' = Idle \ {s}
  BY <1>6, ZenonT(40) DEF Idle
<1>9. /\ IdleOf(sock', v) = IdleOf(sock, v) \ {s}
      /\ \A u \in Users \ {v} : IdleOf(sock', u) = IdleOf(sock, u)
  BY <1>4, <1>6, ZenonT(40) DEF IdleOf
<1>10. QueuesExact'
  BY <1>2, <1>3, <1>7, <1>9, ExactNow, ZenonT(40)
<1> QED
  BY <1>4, <1>5, <1>7, <1>8, <1>10, SMTT(40) DEF PoolType, s

(* A step that leaves the queues alone, moves no socket into or out of the *)
(* idle state and changes no idle socket.                                  *)
LEMMA FrameExact ==
  ASSUME PoolType, QueuesExact, queue' = queue, sock' \in [Socks -> SockType],
         \A s \in Socks : sock'[s] = sock[s] \/ (sock[s].at # "idle" /\ sock'[s].at # "idle")
  PROVE  PoolType' /\ QueuesExact' /\ Idle' = Idle
<1>1. Idle' = Idle
  BY DEF Idle
<1>2. \A u \in Users : IdleOf(sock', u) = IdleOf(sock, u)
  BY DEF IdleOf
<1>3. QueuesExact'
  BY <1>2, ExactNow
<1> QED
  BY <1>1, <1>3 DEF PoolType

-----------------------------------------------------------------------------
(* Counting.                                                                *)

UsePhases == SelfPhases \union {"lent"}

Pooled == {s \in Open : ~sock[s].kill}

(* The size of a disjoint union.                                           *)
LEMMA DisjointUnion ==
  ASSUME NEW A, NEW B, IsFiniteSet(A), IsFiniteSet(B), A \cap B = {}
  PROVE  /\ IsFiniteSet(A \union B)
         /\ Cardinality(A) \in Nat /\ Cardinality(B) \in Nat
         /\ Cardinality(A \union B) = Cardinality(A) + Cardinality(B)
<1>1. /\ IsFiniteSet(A \union B)
      /\ Cardinality(A \union B) = Cardinality(A) + Cardinality(B) - Cardinality(A \cap B)
  BY FS_Union
<1>2. Cardinality(A \cap B) = 0
  BY FS_EmptySet
<1>3. Cardinality(A) \in Nat /\ Cardinality(B) \in Nat
  BY FS_CardinalityType
<1> QED
  BY <1>1, <1>2, <1>3

(* A socket that is open is either idle or in use.                         *)
LEMMA Counts ==
  ASSUME PoolType
  PROVE  /\ IsFiniteSet(Idle) /\ IsFiniteSet(InUse) /\ IsFiniteSet(Pooled) /\ IsFiniteSet(Open)
         /\ Cardinality(Idle) \in Nat /\ Cardinality(InUse) \in Nat
         /\ Cardinality(Pooled) \in Nat /\ Cardinality(Open) \in Nat
         /\ Cardinality(Open) = Cardinality(Idle) + Cardinality(InUse)
         /\ Cardinality(Pooled) <= Cardinality(Open)
<1>1. Idle \in SUBSET Socks /\ InUse \in SUBSET Socks /\ Open \in SUBSET Socks /\ Pooled \in SUBSET Open
  BY DEF Idle, InUse, Open, Pooled
<1>2. IsFiniteSet(Idle) /\ IsFiniteSet(InUse) /\ IsFiniteSet(Open)
  BY <1>1, PoolAssumption, FS_Subset
<1>3. IsFiniteSet(Pooled) /\ Cardinality(Pooled) <= Cardinality(Open)
  BY <1>1, <1>2, FS_Subset, SMTT(40)
<1>4. Open = Idle \union InUse /\ Idle \cap InUse = {}
  BY DEF Open, Idle, InUse, PoolType, SockType, Phases, SelfPhases
<1>5. /\ Cardinality(Idle) \in Nat /\ Cardinality(InUse) \in Nat
      /\ Cardinality(Pooled) \in Nat /\ Cardinality(Open) \in Nat
  BY <1>2, <1>3, FS_CardinalityType
<1>6. Cardinality(Open) = Cardinality(Idle) + Cardinality(InUse)
  BY <1>2, <1>4, DisjointUnion
<1> QED
  BY <1>2, <1>3, <1>5, <1>6, SMTT(40)

(* The counts after a step are numbers too.                                *)
LEMMA CountsAfter ==
  Cardinality(Idle') \in Nat /\ Cardinality(InUse') \in Nat /\ Cardinality(Pooled') \in Nat
<1>1. Idle' \in SUBSET Socks /\ InUse' \in SUBSET Socks /\ Pooled' \in SUBSET Socks
  BY SMTT(40) DEF Idle, InUse, Pooled, Open
<1> QED
  BY <1>1, PoolAssumption, FS_Subset, FS_CardinalityType, SMTT(40)

(* What a step that changes socket s alone does to the counts.             *)
LEMMA MoveOne ==
  ASSUME PoolType, PoolType', NEW s \in Socks, \A t \in Socks \ {s} : sock'[t] = sock[t]
  PROVE  /\ sock[s].at \in UsePhases /\ sock'[s].at \notin UsePhases
               => Cardinality(InUse') = Cardinality(InUse) - 1
         /\ sock[s].at \notin UsePhases /\ sock'[s].at \in UsePhases
               => Cardinality(InUse') = Cardinality(InUse) + 1
         /\ (sock[s].at \in UsePhases <=> sock'[s].at \in UsePhases) => InUse' = InUse
         /\ sock'[s].at = "closed" \/ (sock[s].at # "closed" /\ sock'[s].kill = sock[s].kill)
               => Cardinality(Pooled') <= Cardinality(Pooled)
         /\ sock[s].at = "closed" => Cardinality(Pooled') <= Cardinality(Open) + 1
         /\ sock'[s].kill => Cardinality(Pooled') <= Cardinality(Pooled)
<1>1. IsFiniteSet(InUse) /\ IsFiniteSet(Pooled) /\ IsFiniteSet(Open)
  BY Counts
<1>2. ASSUME sock[s].at \in UsePhases, sock'[s].at \notin UsePhases
      PROVE  Cardinality(InUse') = Cardinality(InUse) - 1
  <2>1. s \in InUse /\ InUse' = InUse \ {s}
    BY <1>2 DEF InUse, UsePhases
  <2> QED
    BY <2>1, <1>1, FS_RemoveElement, ZenonT(40)
<1>3. ASSUME sock[s].at \notin UsePhases, sock'[s].at \in UsePhases
      PROVE  Cardinality(InUse') = Cardinality(InUse) + 1
  <2>1. s \notin InUse /\ InUse' = InUse \union {s}
    BY <1>3 DEF InUse, UsePhases
  <2> QED
    BY <2>1, <1>1, FS_AddElement, ZenonT(40)
<1>4. (sock[s].at \in UsePhases <=> sock'[s].at \in UsePhases) => InUse' = InUse
  BY DEF InUse, UsePhases
<1>5. ASSUME \/ sock'[s].at = "closed" \/ sock'[s].kill
             \/ sock[s].at # "closed" /\ sock'[s].kill = sock[s].kill
      PROVE  Cardinality(Pooled') <= Cardinality(Pooled)
  <2>1. Pooled' \in SUBSET Pooled
    BY <1>5 DEF Pooled, Open
  <2> QED
    BY <2>1, <1>1, FS_Subset
<1>6. Cardinality(Pooled') <= Cardinality(Open) + 1
  <2>1. Pooled' \in SUBSET (Open \union {s})
    BY DEF Pooled, Open
  <2>2. /\ IsFiniteSet(Open \union {s})
        /\ Cardinality(Open \union {s}) \in Nat /\ Cardinality(Open \union {s}) <= Cardinality(Open) + 1
    <3>1. /\ IsFiniteSet(Open \union {s})
          /\ Cardinality(Open \union {s}) = IF s \in Open THEN Cardinality(Open) ELSE Cardinality(Open) + 1
      BY <1>1, FS_AddElement, SMTT(40)
    <3> QED
      BY <3>1, Counts
  <2>3. Cardinality(Pooled') <= Cardinality(Open \union {s}) /\ Cardinality(Pooled') \in Nat
    BY <2>1, <2>2, FS_Subset, FS_CardinalityType
  <2> QED
    BY <2>2, <2>3, Counts, SMTT(40)
<1> QED
  BY <1>2, <1>3, <1>4, <1>5, <1>6, SMTT(40)

(* network_connection_pool_total_conns_count counts the idle sockets.      *)
LEMMA LinksCounted ==
  ASSUME PoolType, QueuesExact
  PROVE  network_connection_pool_total_conns_count = Cardinality(Idle)
<1> DEFINE T == UNION {{u} \X (1..Len(queue[u])) : u \in Users}
           pos(s) == PosOf(queue[sock[s].user], s)
           f == [s \in Idle |-> <<sock[s].user, pos(s)>>]
<1>1. \A u \in Users : Lists(queue[u], IdleOf(sock, u))
  BY ExactNow
<1>2. ASSUME NEW s \in Idle
      PROVE  sock[s].user \in Users /\ pos(s) \in 1..Len(queue[sock[s].user])
             /\ queue[sock[s].user][pos(s)] = s
  <2>1. sock[s].user \in Users /\ s \in IdleOf(sock, sock[s].user)
    BY DEF PoolType, SockType, Idle, IdleOf
  <2> QED
    BY <2>1, <1>1, PosOfFacts DEF Lists
<1> HIDE DEF pos
<1>3. f \in [Idle -> T] /\ DOMAIN f = Idle
  BY <1>2
<1>4. ASSUME NEW s \in Idle, NEW t \in Idle, f[s] = f[t] PROVE s = t
  BY <1>2, <1>4
<1>5. ASSUME NEW x \in T PROVE \E s \in Idle : f[s] = x
  <2>1. PICK u \in Users : x \in {u} \X (1..Len(queue[u]))
    OBVIOUS
  <2>2. PICK i \in 1..Len(queue[u]) : x = <<u, i>>
    BY <2>1
  <2> DEFINE s == queue[u][i]
  <2>3. s \in IdleOf(sock, u)
    BY <1>1 DEF Lists
  <2>4. s \in Idle /\ sock[s].user = u
    BY <2>3 DEF IdleOf, Idle
  <2>5. pos(s) = i
    BY <1>1, <1>2, <2>4, SMTT(40) DEF Lists
  <2> QED
    BY <2>2, <2>4, <2>5
<1> HIDE DEF f, T
<1>6. f \in Bijection(Idle, T)
  BY <1>3, <1>4, <1>5 DEF Bijection, Injection, IsInjective, Surjection
<1>7. ExistsBijection(Idle, T)
  BY <1>6 DEF ExistsBijection
<1>8. Cardinality(T) = Cardinality(Idle)
  BY <1>7, Counts, FS_Bijection
<1> QED
  BY <1>8 DEF T, network_connection_pool_total_conns_count

-----------------------------------------------------------------------------
(* What each kind of step does to the queues and the counters together.     *)

Core ==
    /\ PoolType /\ cur_idle \in Nat /\ connected_clients \in Int /\ kills \in Nat
    /\ QueuesExact /\ IdleCounted /\ UsedCounted /\ ConnLimit

(* A step that pools no new socket keeps the limit.                        *)
LEMMA LimitKept ==
  ASSUME Core, kills' \in Nat, kills' >= kills, Cardinality(Pooled') <= Cardinality(Pooled)
  PROVE  ConnLimit'
<1>1. Cardinality(Pooled) \in Nat /\ Cardinality(Pooled') \in Nat
  BY Counts, CountsAfter DEF Core
<1>2. Cardinality(Pooled) <= Max + kills /\ kills \in Nat
  BY DEF Core, ConnLimit, Pooled
<1>3. Cardinality(Pooled') <= Max + kills'
  BY <1>1, <1>2, PoolAssumption
<1> QED
  BY <1>3 DEF ConnLimit, Pooled

(* A socket in use is put into the pool.                                   *)
LEMMA CoreAdd ==
  ASSUME Core, NEW s \in InUse, network_connection_pool_add(s),
         connected_clients' = connected_clients - 1, kills' = kills
  PROVE  Core'
<1>1. s \in Socks /\ s \notin Idle /\ sock[s].at \in UsePhases /\ sock[s].at # "closed"
  BY DEF InUse, Idle, UsePhases, SelfPhases
<1>2. PoolType' /\ QueuesExact' /\ Idle' = Idle \union {s}
  BY <1>1, AddExact DEF Core
<1>3. /\ sock'[s].at = "idle" /\ sock'[s].kill = sock[s].kill
      /\ \A t \in Socks \ {s} : sock'[t] = sock[t]
  BY <1>1, SMTT(40) DEF network_connection_pool_add, Core, PoolType, SockType
<1>4. /\ Cardinality(InUse') = Cardinality(InUse) - 1
      /\ Cardinality(Pooled') <= Cardinality(Pooled)
  <2>1. sock'[s].at \notin UsePhases
    BY <1>3 DEF UsePhases, SelfPhases
  <2> QED
    BY <1>1, <1>2, <1>3, <2>1, MoveOne, SMTT(40) DEF Core
<1>5. Cardinality(Idle') = Cardinality(Idle) + 1 /\ cur_idle' = cur_idle + 1
  BY <1>1, <1>2, Counts, FS_AddElement, ZenonT(40) DEF Core, network_connection_pool_add
<1>6. ConnLimit'
  BY <1>4, LimitKept DEF Core
<1> QED
  BY <1>2, <1>4, <1>5, <1>6, Counts, SMTT(40) DEF Core, IdleCounted, UsedCounted

(* A socket in use is closed.                                              *)
LEMMA CoreClose ==
  ASSUME Core, NEW s \in InUse, CloseSock(s),
         connected_clients' = connected_clients - 1, kills' = kills
  PROVE  Core'
<1>1. s \in Socks /\ sock[s].at \in UsePhases /\ sock[s].at # "idle"
  BY DEF InUse, UsePhases, SelfPhases
<1>2. Closed \in SockType /\ Closed.at = "closed"
  BY PoolAssumption DEF Closed, SockType, Phases
<1>3. /\ sock' \in [Socks -> SockType] /\ sock'[s].at = "closed"
      /\ \A t \in Socks \ {s} : sock'[t] = sock[t]
  BY <1>1, <1>2, SMTT(40) DEF CloseSock, Core, PoolType
<1>4. PoolType' /\ QueuesExact' /\ Idle' = Idle
  BY <1>1, <1>3, FrameExact, SMTT(40) DEF Core, CloseSock
<1>5. /\ Cardinality(InUse') = Cardinality(InUse) - 1
      /\ Cardinality(Pooled') <= Cardinality(Pooled)
  <2>1. sock'[s].at \notin UsePhases
    BY <1>3, SMTT(40) DEF UsePhases, SelfPhases
  <2> QED
    BY <1>1, <1>3, <1>4, <2>1, MoveOne, SMTT(40) DEF Core
<1>6. ConnLimit'
  BY <1>5, LimitKept DEF Core
<1> QED
  BY <1>4, <1>5, <1>6, Counts DEF Core, IdleCounted, UsedCounted, CloseSock

(* An idle socket is closed.                                               *)
LEMMA CoreRemove ==
  ASSUME Core, NEW s \in Idle, network_connection_pool_remove(s),
         connected_clients' = connected_clients, kills' = kills
  PROVE  Core'
<1>1. s \in Socks /\ sock[s].at = "idle" /\ sock[s].at \notin UsePhases
  BY DEF Idle, UsePhases, SelfPhases
<1>2. PoolType' /\ QueuesExact' /\ Idle' = Idle \ {s}
  BY RemoveExact DEF Core
<1>3. sock'[s].at = "closed" /\ \A t \in Socks \ {s} : sock'[t] = sock[t]
  BY <1>1, SMTT(40) DEF network_connection_pool_remove, Core, PoolType, Closed
<1>4. InUse' = InUse /\ Cardinality(Pooled') <= Cardinality(Pooled)
  <2>1. sock'[s].at \notin UsePhases
    BY <1>3, SMTT(40) DEF UsePhases, SelfPhases
  <2> QED
    BY <1>1, <1>2, <1>3, <2>1, MoveOne, SMTT(40) DEF Core
<1>5. Cardinality(Idle') = Cardinality(Idle) - 1 /\ cur_idle' = cur_idle - 1
  BY <1>2, Counts, FS_RemoveElement, ZenonT(40) DEF Core, network_connection_pool_remove
<1>6. Cardinality(Idle') \in Nat
  BY CountsAfter
<1>7. ConnLimit'
  BY <1>4, LimitKept DEF Core
<1> QED
  BY <1>2, <1>4, <1>5, <1>6, <1>7, Counts, SMTT(40) DEF Core, IdleCounted, UsedCounted

(* The head of a queue is lent.                                            *)
LEMMA CoreLend ==
  ASSUME Core, NEW v \in Users, Len(queue[v]) > 0,
         sock' = [sock EXCEPT ![Head(queue[v])].at = "lent"],
         queue' = [queue EXCEPT ![v] = Tail(@)],
         cur_idle' = cur_idle - 1, connected_clients' = connected_clients + 1, kills' = kills
  PROVE  Core'
<1> DEFINE s == Head(queue[v])
<1>1. PoolType' /\ QueuesExact' /\ s \in Idle /\ Idle' = Idle \ {s}
  BY LendExact, ZenonT(40) DEF Core
<1> HIDE DEF s
<1>2. s \in Socks /\ sock[s].at = "idle" /\ sock[s].at \notin UsePhases
  BY <1>1 DEF Idle, UsePhases, SelfPhases
<1>3. /\ sock'[s].at = "lent" /\ sock'[s].kill = sock[s].kill
      /\ \A t \in Socks \ {s} : sock'[t] = sock[t]
  BY <1>2, ZenonT(40) DEF Core, PoolType, SockType, s
<1>4. /\ Cardinality(InUse') = Cardinality(InUse) + 1
      /\ Cardinality(Pooled') <= Cardinality(Pooled)
  <2>1. sock'[s].at \in UsePhases
    BY <1>3 DEF UsePhases
  <2> QED
    BY <1>1, <1>2, <1>3, <2>1, MoveOne, SMTT(40) DEF Core
<1>5. Cardinality(Idle') = Cardinality(Idle) - 1
  BY <1>1, Counts, FS_RemoveElement, ZenonT(40) DEF Core
<1>6. ConnLimit'
  BY <1>4, LimitKept DEF Core
<1>7. Cardinality(Idle) \in Nat /\ Cardinality(Idle') \in Nat /\ Cardinality(InUse) \in Nat
  BY Counts, CountsAfter, SMTT(40) DEF Core
<1>8. IdleCounted' /\ cur_idle' \in Nat
  BY <1>5, <1>7 DEF Core, IdleCounted
<1>9. UsedCounted' /\ connected_clients' \in Int /\ kills' \in Nat
  <2>1. /\ connected_clients + kills = Cardinality(InUse)
        /\ connected_clients \in Int /\ kills \in Nat
    BY DEF Core, UsedCounted
  <2>2. connected_clients' + kills' = Cardinality(InUse')
    BY <1>4, <1>7, <2>1, SMTT(40)
  <2> QED
    BY <2>1, <2>2, SMTT(40) DEF UsedCounted
<1> QED
  BY <1>1, <1>6, <1>8, <1>9 DEF Core

(* A socket in use stays in use.  When a "kill query" connection           *)
(* authenticates, connected_clients and kills move together.               *)
LEMMA CoreMove ==
  ASSUME Core, NEW s \in InUse, NEW r \in SockType, sock' = [sock EXCEPT ![s] = r],
         r.at \in UsePhases, r.kill = sock[s].kill, queue' = queue, cur_idle' = cur_idle,
         connected_clients' \in Int, kills' \in Nat, kills' >= kills,
         connected_clients' + kills' = connected_clients + kills
  PROVE  Core'
<1>1. s \in Socks /\ sock[s].at \in UsePhases /\ sock[s].at # "idle" /\ sock[s].at # "closed"
  BY DEF InUse, UsePhases, SelfPhases
<1>2. /\ sock' \in [Socks -> SockType] /\ sock'[s] = r
      /\ \A t \in Socks \ {s} : sock'[t] = sock[t]
  BY <1>1, SMTT(40) DEF Core, PoolType
<1>3. PoolType' /\ QueuesExact' /\ Idle' = Idle
  <2>1. r.at # "idle"
    BY SMTT(40) DEF UsePhases, SelfPhases
  <2> QED
    BY <1>1, <1>2, <2>1, FrameExact, SMTT(40) DEF Core
<1>4. InUse' = InUse /\ Cardinality(Pooled') <= Cardinality(Pooled)
  BY <1>1, <1>2, <1>3, MoveOne, SMTT(40) DEF Core
<1>5. ConnLimit'
  BY <1>4, LimitKept, SMTT(40) DEF Core
<1> QED
  BY <1>3, <1>4, <1>5, Counts, ZenonT(40) DEF Core, IdleCounted, UsedCounted

(* A socket in use stays in use, and nothing is counted.                   *)
LEMMA CoreStay ==
  ASSUME Core, NEW s \in InUse, NEW r \in SockType, sock' = [sock EXCEPT ![s] = r],
         r.at \in UsePhases, r.kill = sock[s].kill,
         UNCHANGED <<queue, cur_idle, connected_clients, kills>>
  PROVE  Core'
<1>1. /\ queue' = queue /\ cur_idle' = cur_idle /\ connected_clients' \in Int /\ kills' \in Nat
      /\ kills' >= kills /\ connected_clients' + kills' = connected_clients + kills
  BY DEF Core
<1> QED
  BY <1>1, CoreMove, ZenonT(40)

(* A connection for "kill query" is opened.                                *)
LEMMA CoreOpenKill ==
  ASSUME Core, NEW s \in FreeIds, NEW r \in SockType, sock' = [sock EXCEPT ![s] = r],
         r.at \in UsePhases, r.kill, queue' = queue, cur_idle' = cur_idle,
         connected_clients' = connected_clients + 1, kills' = kills
  PROVE  Core'
<1>1. s \in Socks /\ sock[s].at = "closed"
  BY DEF FreeIds, Open
<1>2. /\ sock' \in [Socks -> SockType] /\ sock'[s] = r
      /\ \A t \in Socks \ {s} : sock'[t] = sock[t]
  BY <1>1 DEF Core, PoolType
<1>3. r.at # "idle" /\ sock[s].at \notin UsePhases
  BY <1>1 DEF UsePhases, SelfPhases
<1>4. PoolType' /\ QueuesExact' /\ Idle' = Idle
  BY <1>1, <1>2, <1>3, FrameExact, SMTT(40) DEF Core
<1>5. /\ Cardinality(InUse') = Cardinality(InUse) + 1
      /\ Cardinality(Pooled') <= Cardinality(Pooled)
  BY <1>1, <1>2, <1>3, <1>4, MoveOne, SMTT(40) DEF Core
<1>6. ConnLimit'
  BY <1>5, LimitKept, SMTT(40) DEF Core
<1> QED
  BY <1>4, <1>5, <1>6, Counts, SMTT(40) DEF Core, IdleCounted, UsedCounted

(* Idle sockets may be closed (K is what is left of them) and then a batch *)
(* S of connections is opened within the limit.                            *)
LEMMA CoreOpen ==
  ASSUME Core, NEW K \in [Socks -> SockType], NEW S \in SUBSET Socks,
         \A s \in Socks : K[s] = sock[s] \/ (K[s] = Closed /\ sock[s].at = "idle"),
         queue' \in [Users -> Seq(Socks)], \A u \in Users : Lists(queue'[u], IdleOf(K, u)),
         cur_idle' \in Nat, cur_idle' = Cardinality({s \in Socks : K[s].at = "idle"}),
         \A s \in S : K[s].at = "closed",
         sock' \in [Socks -> SockType], \A s \in S : sock'[s].at \in SelfPhases,
         \A s \in Socks \ S : sock'[s] = K[s],
         connected_clients' = connected_clients + Cardinality(S), kills' = kills,
         S = {} \/ cur_idle' + connected_clients + Cardinality(S) <= Max
  PROVE  Core'
<1> DEFINE I == {s \in Socks : K[s].at = "idle"}
<1>1. Closed.at = "closed"
  BY SMTT(40) DEF Closed
<1>2. /\ IsFiniteSet(S) /\ IsFiniteSet(I) /\ IsFiniteSet(InUse)
      /\ Cardinality(S) \in Nat /\ Cardinality(I) \in Nat /\ Cardinality(InUse) \in Nat
  <2>1. I \in SUBSET Socks /\ InUse \in SUBSET Socks
    BY SMTT(40) DEF InUse
  <2> HIDE DEF I
  <2>2. IsFiniteSet(S) /\ IsFiniteSet(I) /\ IsFiniteSet(InUse)
    BY <2>1, PoolAssumption, FS_Subset, SMTT(40)
  <2> QED
    BY <2>2, FS_CardinalityType, SMTT(40)
<1>3. Idle' = I
  BY SMTT(40) DEF Idle, SelfPhases
<1>4. \A u \in Users : IdleOf(sock', u) = IdleOf(K, u)
  BY ZenonT(40) DEF IdleOf, SelfPhases
<1>5. QueuesExact' /\ PoolType'
  BY <1>4, ExactNow DEF PoolType
<1>6. InUse' = InUse \union S /\ InUse \cap S = {}
  BY <1>1 DEF InUse, SelfPhases
<1>7. Cardinality(InUse') = Cardinality(InUse) + Cardinality(S)
  BY <1>2, <1>6, DisjointUnion, ZenonT(40)
<1>8. UsedCounted'
  BY <1>2, <1>7, SMTT(40) DEF UsedCounted, Core
<1>9. IdleCounted'
  BY <1>3, SMTT(40) DEF IdleCounted
<1>10. ConnLimit'
  <2>1. CASE S = {}
    <3>1. Pooled' \in SUBSET Pooled
      BY <2>1, <1>1, SMTT(40) DEF Pooled, Open
    <3>2. Cardinality(Pooled') <= Cardinality(Pooled)
      BY <3>1, Counts, FS_Subset, SMTT(40) DEF Core
    <3> QED
      BY <3>2, LimitKept, SMTT(40) DEF Core
  <2>2. CASE cur_idle' + connected_clients + Cardinality(S) <= Max
    <3> DEFINE B == I \union InUse'
    <3>1. Pooled' \in SUBSET B
      BY <1>3, <1>5, SMTT(40) DEF Pooled, Open, Idle, InUse, PoolType, SockType, Phases
    <3>2. I \cap InUse' = {}
      BY <1>3, SMTT(40) DEF Idle, InUse, SelfPhases
    <3>3. IsFiniteSet(InUse')
      BY <1>2, <1>6, DisjointUnion, ZenonT(40)
    <3>4. IsFiniteSet(B) /\ Cardinality(B) = Cardinality(I) + Cardinality(InUse')
      BY <1>2, <3>2, <3>3, DisjointUnion, ZenonT(40)
    <3>5. Cardinality(Pooled') <= Cardinality(B)
      BY <3>1, <3>4, FS_Subset, SMTT(40)
    <3>6. Cardinality(B) = cur_idle' + connected_clients + kills + Cardinality(S)
      BY <3>4, <1>2, <1>7, SMTT(40) DEF Core, UsedCounted
    <3>7. Cardinality(Pooled') <= Max + kills
      <4> HIDE DEF B, I
      <4>1. /\ Cardinality(Pooled') \in Nat /\ cur_idle' \in Nat /\ Max \in Nat
            /\ connected_clients \in Int /\ kills \in Nat
        BY CountsAfter, PoolAssumption, SMTT(40) DEF Core
      <4>2. cur_idle' + connected_clients + kills + Cardinality(S) <= Max + kills
        BY <1>2, <2>2, <4>1, SMTT(40)
      <4>3. Cardinality(B) \in Int
        BY <1>2, <3>6, <4>1
      <4> QED
        BY <3>5, <3>6, <4>1, <4>2, <4>3, SMTT(40)
    <3> QED
      BY <3>7, SMTT(40) DEF ConnLimit, Pooled
  <2> QED
    BY <2>1, <2>2, SMTT(40)
<1> QED
  BY <1>2, <1>5, <1>8, <1>9, <1>10, SMTT(40) DEF Core
=============================================================================
