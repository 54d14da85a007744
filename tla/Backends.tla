------------------------------ MODULE Backends ------------------------------
(* The table of the backends, its groups, and who changes them: the monitor  *)
(* thread, group replication detection included (src/cetus-monitor.c), and   *)
(* the administrator (src/network-backend.c, admin_*_backend of              *)
(* plugins/admin/admin-commands.c).                                          *)
(*                                                                           *)
(* The monitor is a thread of its own: it notes the state of a backend,      *)
(* tries to connect, which takes seconds, and then changes the state by a    *)
(* compare-and-swap.  The administrator's commands run in the event loop.    *)
(* The servers fail, lag and change role between any two steps.              *)
(*                                                                           *)
(* A backend is [addr, type, state, group]; group 0 is no group.  A group is *)
(* what network_group_t holds: the indices of its master (0: none), slaves   *)
(* and unknown members.                                                      *)
EXTENDS Integers, Sequences, FiniteSets, SequencesExt

CONSTANTS BKMixes,          \* see BKInit
          MAX_GROUP_SLAVES  \* 4 in the code

ASSUME BackendsAssumption == MAX_GROUP_SLAVES \in Nat \ {0}

VARIABLE bk

BKOff == [pc |-> "off"]

BKStates == {"unknown", "up", "down", "maintaining", "deleted", "offline"}
BKTypes == {"unknown", "rw", "ro"}

-----------------------------------------------------------------------------
(* network-backend.c                                                         *)

NoGroup == [master |-> 0, slaves |-> <<>>, unknown |-> <<>>]

\* network_group_add: the last read-write backend is the master, and a list has its limit.
network_group_add(gp, i, type) ==
    CASE type = "rw" -> [gp EXCEPT !.master = i]
      [] type = "ro" -> [gp EXCEPT !.slaves = IF Len(@) >= MAX_GROUP_SLAVES \/ Contains(@, i)
                                              THEN @ ELSE Append(@, i)]
      [] OTHER -> [gp EXCEPT !.unknown = IF Len(@) >= MAX_GROUP_SLAVES \/ Contains(@, i)
                                         THEN @ ELSE Append(@, i)]

\* network_group_update: a member changed its type, and all are sorted in anew.
network_group_update(gp, list) ==
    LET members == (IF gp.master = 0 THEN <<>> ELSE <<gp.master>>) \o gp.slaves \o gp.unknown
        Add(g, i) == network_group_add(g, i, list[i].type)
    IN FoldLeft(Add, NoGroup, members)

network_backends_modify_wrong(s, i, type, state, old) ==
    LET cur == s.list[i]
        list == [s.list EXCEPT ![i].state = state, ![i].type = type]
    IN [s EXCEPT !.list = list,
                 !.groups = IF cur.type # type /\ cur.group \in DOMAIN @
                            THEN [@ EXCEPT ![cur.group] = network_group_update(@, list)] ELSE @]

\* network_backends_modify: the state changes if it still is `old` ("any" is NO_PREVIOUS_STATE);
\* if not, nothing does.  A change of type rearranges the group.
network_backends_modify(s, i, type, state, old) ==
    LET cur == s.list[i]
        list == [s.list EXCEPT ![i].state = state, ![i].type = type]
    IN IF cur.state # state /\ old \notin {"any", cur.state} THEN s
       ELSE [s EXCEPT !.list = list,
                      !.groups = IF cur.type # type /\ cur.group \in DOMAIN @
                                 THEN [@ EXCEPT ![cur.group] = network_group_update(@, list)] ELSE @]

Out == {"maintaining", "deleted"}

\* network_backend_check_available_rw: does the group have a master that serves?
network_backend_check_available_rw_wrong(s, group) == FALSE

network_backend_check_available_rw(s, group) ==
    IF group = 0
    THEN \E i \in DOMAIN s.list : s.list[i].type = "rw" /\ s.list[i].state \notin Out
    ELSE /\ group \in DOMAIN s.groups
         /\ s.groups[group].master # 0
         /\ s.list[s.groups[group].master].state \notin Out

\* network_backends_add: the group is made first; an address already in the table, deleted or
\* not, is refused, and so is a second master.
network_backends_add(s, addr, type, state, group) ==
    LET g == IF group = 0 \/ group \in DOMAIN s.groups THEN s
             ELSE [s EXCEPT !.groups = [h \in DOMAIN @ \cup {group} |-> IF h = group THEN NoGroup ELSE @[h]]]
    IN IF \/ \E i \in DOMAIN s.list : s.list[i].addr = addr
          \/ type = "rw" /\ network_backend_check_available_rw(g, group)
       THEN g
       ELSE [g EXCEPT !.list = Append(@, [addr |-> addr, type |-> type, state |-> state, group |-> group]),
                      !.groups = IF group = 0 THEN @
                                 ELSE [@ EXCEPT ![group] = network_group_add(@, Len(s.list) + 1, type)]]

\* Whether a group has ever had more than network_group_t has room for: a second read-write
\* backend, though one of them is out, or a slave too many.
Noted(s) ==
    LET Of(g, type) == {i \in DOMAIN s.list : s.list[i].group = g /\ s.list[i].type = type} IN
    [s EXCEPT !.crowded = @ \/ \E g \in DOMAIN s.groups :
                                  \/ Cardinality(Of(g, "rw")) > 1
                                  \/ Cardinality(Of(g, "ro")) > MAX_GROUP_SLAVES
                                  \/ Cardinality(Of(g, "unknown")) > MAX_GROUP_SLAVES]

-----------------------------------------------------------------------------
(* A mix is [list, mgr, delay, env, admin, maint]: the backends of the       *)
(* configuration file, the replication mode, whether the delay is checked,   *)
(* how often the servers and the administrator act, and whether the latter   *)
(* takes masters out for maintenance without making them slaves, which the   *)
(* documented switch-over does (doc/cetus-mha.md).                           *)

Idle_ == [job |-> "idle", i |-> 0, old |-> "any", master |-> 0, slaves |-> <<>>,
          has |-> FALSE, want |-> <<>>]

Loaded_(m) ==
    LET Add(s, b) == network_backends_add(s, b.addr, b.type, "unknown", b.group)
    IN FoldLeft(Add, [list |-> <<>>, groups |-> [g \in {} |-> NoGroup]], m.list)

Addrs(m) == {m.list[i].addr : i \in DOMAIN m.list} \cup m.spare

\* The servers: reachable or not, how far behind (0: recovered, 1: between the thresholds, 2:
\* beyond slave-delay-down), the members of the replication group and its primary.
BKInit ==
    \E m \in BKMixes :
        LET s == Loaded_(m) IN
        bk = [pc |-> "up", mix |-> m, list |-> s.list, groups |-> s.groups, mon |-> Idle_,
              up |-> [a \in Addrs(m) |-> TRUE], lag |-> [a \in Addrs(m) |-> 0],
              members |-> {a \in Addrs(m) : a \in m.online}, primary |-> m.list[1].addr,
              crowded |-> FALSE]

Running == bk.pc = "up"

\* A server fails, comes back, falls behind or catches up.
Server(a) ==
    /\ Running /\ bk.mix.env > 0
    /\ \/ bk' = [bk EXCEPT !.mix.env = @ - 1, !.up[a] = ~@]
       \/ \E d \in {0, 1, 2} : d # bk.lag[a] /\ bk.mix.delay
                               /\ bk' = [bk EXCEPT !.mix.env = @ - 1, !.lag[a] = d]

\* The replication group loses a member, takes one in, or elects another primary.
Regroup(a) ==
    /\ Running /\ bk.mix.mgr /\ bk.mix.env > 0
    /\ \/ /\ a \in bk.members /\ a # bk.primary
          /\ bk' = [bk EXCEPT !.mix.env = @ - 1, !.primary = a]
       \/ /\ a \in bk.members /\ a # bk.primary
          /\ bk' = [bk EXCEPT !.mix.env = @ - 1, !.members = @ \ {a}]
       \/ /\ a \in bk.members /\ a = bk.primary
          /\ \E p \in bk.members \ {a} :
                bk' = [bk EXCEPT !.mix.env = @ - 1, !.members = @ \ {a}, !.primary = p]
       \/ /\ a \notin bk.members
          /\ bk' = [bk EXCEPT !.mix.env = @ - 1, !.members = @ \cup {a}]

-----------------------------------------------------------------------------
(* The monitor                                                               *)

Passes == IF bk.mix.delay THEN <<"master", "slaves">> ELSE <<"alive">>

Pass(job) == [Idle_ EXCEPT !.job = job, !.i = 1]

\* The timer of check_backend_alive, or of update_master_timestamp, fires.
MonitorWakes ==
    /\ Running /\ bk.mon.job = "idle"
    /\ bk' = [bk EXCEPT !.mon = Pass(IF bk.mix.mgr THEN "probe" ELSE Passes[1])]

\* What backend i answers to the first half of group_replication_detect: the primary and, asked
\* of the primary itself, the other members; when the primary does not answer they stay unknown.
\* A second opinion about the primary ends the detection.
Asked(b) ==
    CASE b.state \in Out \/ ~bk.up[b.addr] \/ b.addr \notin bk.members -> [bk.mon EXCEPT !.i = @ + 1]
      [] bk.mon.master \notin {0, bk.primary} -> Pass(Passes[1])
      [] bk.mon.master = bk.primary -> [bk.mon EXCEPT !.i = @ + 1]
      [] OTHER -> [bk.mon EXCEPT !.i = @ + 1, !.master = bk.primary,
                      !.slaves = IF bk.up[bk.primary] THEN SetToSeq(bk.members \ {bk.primary}) ELSE <<>>]

MonitorProbes ==
    /\ Running /\ bk.mon.job = "probe"
    /\ bk' = [bk EXCEPT !.mon = IF bk.mon.i <= Len(bk.list) THEN Asked(bk.list[bk.mon.i])
                                ELSE [@ EXCEPT !.job = "first", !.i = 1]]

Without(seq, a) == SelectSeq(seq, LAMBDA x : x # a)

\* A backend the replication group knows of is no longer offline.
Back(state) == IF state = "offline" THEN "unknown" ELSE state

\* What the second half wants of backend b, <<type, state>>, or nothing.
RoleFor(b) ==
    CASE b.addr = bk.mon.master /\ b.type = "rw" -> IF b.state = "offline" THEN <<"rw", "unknown">> ELSE <<>>
      [] Contains(bk.mon.slaves, b.addr) -> <<"ro", Back(b.state)>>
      [] b.addr = bk.mon.master -> <<"rw", Back(b.state)>>
      [] b.state \notin Out -> <<"ro", "offline">>
      [] OTHER -> <<>>

\* The first loop is for the first read-write backend alone, the second for the others.  The
\* master the first has just made a slave is met again by the second, which looks for it in a list
\* the first has taken it out of.
MonitorDecides ==
    LET m == bk.mon
        others == [m EXCEPT !.job = "others", !.i = 1]
    IN
    /\ Running /\ m.job \in {"first", "others"} /\ m.want = <<>>
    /\ bk' = [bk EXCEPT !.mon =
           CASE m.i > Len(bk.list) -> IF m.job = "first" THEN others ELSE [m EXCEPT !.job = "add"]
             [] m.job = "first" /\ bk.list[m.i].type # "rw" -> [m EXCEPT !.i = @ + 1]
             [] m.job = "others" /\ bk.list[m.i].type = "rw" -> [m EXCEPT !.i = @ + 1]
             [] OTHER ->
                  LET b == bk.list[m.i]
                      met == [m EXCEPT !.has = @ \/ m.job = "first" \/ b.addr = m.master]
                  IN IF RoleFor(b) # <<>> THEN [met EXCEPT !.want = RoleFor(b)]
                     ELSE IF m.job = "first" THEN [others EXCEPT !.has = TRUE]
                     ELSE [met EXCEPT !.i = @ + 1]]

\* The state wanted was read a moment ago, and network_backends_modify is not told (NO_PREVIOUS_STATE).
MonitorApplies ==
    LET m == bk.mon IN
    /\ Running /\ m.want # <<>>
    /\ bk' = [Noted(network_backends_modify(bk, m.i, m.want[1], m.want[2], "any")) EXCEPT !.mon =
                  [@ EXCEPT !.want = <<>>, !.slaves = Without(@, bk.list[m.i].addr),
                            !.job = "others", !.i = IF m.job = "first" THEN 1 ELSE @ + 1]]

\* Last, the members the table does not know are added, to the first group there is.
MonitorAdds ==
    /\ Running /\ bk.mon.job = "add"
    /\ LET gs == {i \in DOMAIN bk.list : bk.list[i].group # 0}
           group == IF gs = {} THEN 0 ELSE bk.list[CHOOSE j \in gs : \A k \in gs : j <= k].group
           Add(t, a) == network_backends_add(t, a, "ro", "unknown", group)
           m == IF bk.mon.has \/ bk.mon.master = 0 THEN bk
                ELSE network_backends_add(bk, bk.mon.master, "rw", "up", group)
       IN bk' = [Noted(FoldLeft(Add, m, bk.mon.slaves)) EXCEPT !.mon = Pass(Passes[1])]

\* The pass that is on looks at backend i at all.
Looks(b) ==
    /\ b.state \notin {"deleted", "maintaining", "offline"}
    /\ bk.mon.job = "master" => b.type = "rw"
    /\ bk.mon.job = "slaves" => b.type # "rw"

NextOne(s) == [s EXCEPT !.mon.i = @ + 1, !.mon.old = "any"]

\* The state is noted before the connection is tried.
MonitorNotes ==
    /\ Running /\ bk.mon.job \in {"alive", "master", "slaves"} /\ bk.mon.old = "any"
    /\ bk.mon.i <= Len(bk.list)
    /\ bk' = IF Looks(bk.list[bk.mon.i]) THEN [bk EXCEPT !.mon.old = bk.list[bk.mon.i].state] ELSE NextOne(bk)

\* check_backend_alive: a master that cannot be reached stays as it is.
check_backend_alive(s, i, old) ==
    LET b == s.list[i] IN
    CASE s.up[b.addr] /\ b.state # "up" -> network_backends_modify(s, i, b.type, "up", old)
      [] ~s.up[b.addr] /\ b.state # "down" /\ b.type # "rw" -> network_backends_modify(s, i, b.type, "down", old)
      [] OTHER -> s

update_master_timestamp(s, i, old) ==
    LET b == s.list[i] IN
    IF s.up[b.addr] /\ b.state # "up" THEN network_backends_modify(s, i, b.type, "up", old) ELSE s

\* check_slave_timestamp: down beyond the one threshold, up within the other, and as it was
\* between the two.
check_slave_timestamp(s, i, old) ==
    LET b == s.list[i] IN
    CASE ~s.up[b.addr] /\ b.state # "down" -> network_backends_modify(s, i, b.type, "down", old)
      [] s.up[b.addr] /\ s.lag[b.addr] = 2 /\ b.state # "down" -> network_backends_modify(s, i, b.type, "down", old)
      [] s.up[b.addr] /\ s.lag[b.addr] = 0 /\ b.state # "up" -> network_backends_modify(s, i, b.type, "up", old)
      [] OTHER -> s

MonitorActs ==
    /\ Running /\ bk.mon.old # "any"
    /\ LET i == bk.mon.i
           s == CASE bk.mon.job = "alive" -> check_backend_alive(bk, i, bk.mon.old)
                  [] bk.mon.job = "master" -> update_master_timestamp(bk, i, bk.mon.old)
                  [] OTHER -> check_slave_timestamp(bk, i, bk.mon.old)
       IN bk' = NextOne(s)

\* The end of a pass: the next one's timer is set.
MonitorRests ==
    /\ Running /\ bk.mon.job \in {"alive", "master", "slaves"} /\ bk.mon.i > Len(bk.list)
    /\ bk' = [bk EXCEPT !.mon = IF bk.mon.job = "master" THEN Pass("slaves") ELSE Idle_]

-----------------------------------------------------------------------------
(* The administrator                                                         *)

admin_insert_backend(a, type, group) ==
    /\ Running /\ bk.mix.admin > 0
    /\ bk' = Noted([network_backends_add(bk, a, type, "unknown", group) EXCEPT !.mix.admin = @ - 1])

\* admin_update_backend: "" is what the statement does not name.  A type "rw" is refused while
\* there is a master, a state is not.
admin_update_backend(i, type, state) ==
    /\ Running /\ bk.mix.admin > 0 /\ <<type, state>> # <<"", "">>
    /\ ~bk.mix.maint /\ state = "maintaining" /\ bk.list[i].type = "rw" => type = "ro"
    /\ ~(type = "rw" /\ network_backend_check_available_rw(bk, bk.list[i].group))
    /\ bk' = Noted([network_backends_modify(bk, i, IF type = "" THEN bk.list[i].type ELSE type,
                                            IF state = "" THEN bk.list[i].state ELSE state, "any")
                       EXCEPT !.mix.admin = @ - 1])

\* admin_delete_backend: network_backends_remove.
admin_delete_backend(i) ==
    /\ Running /\ bk.mix.admin > 0
    /\ bk' = Noted([network_backends_modify(bk, i, "unknown", "deleted", "any") EXCEPT !.mix.admin = @ - 1])

Monitor ==
    \/ MonitorWakes \/ MonitorProbes \/ MonitorDecides \/ MonitorApplies \/ MonitorAdds
    \/ MonitorNotes \/ MonitorActs \/ MonitorRests

BKNext ==
    \/ \E a \in DOMAIN bk.up : Server(a) \/ Regroup(a)
    \/ Monitor
    \/ \E a \in bk.mix.spare, type \in {"rw", "ro"}, g \in DOMAIN bk.groups \cup {0} :
           (g = 0 <=> DOMAIN bk.groups = {}) /\ admin_insert_backend(a, type, g)
    \/ \E i \in DOMAIN bk.list, type \in {"", "rw", "ro"}, state \in {"", "up", "down", "maintaining", "unknown"} :
           admin_update_backend(i, type, state)
    \/ \E i \in DOMAIN bk.list : admin_delete_backend(i)

\* The monitor's timers fire.
BKFairness == WF_bk(Monitor)

-----------------------------------------------------------------------------

\* The table, the groups and the monitor keep their shape.
BKTypeOK ==
    bk.pc = "up" =>
        /\ \A i \in DOMAIN bk.list : bk.list[i].type \in BKTypes /\ bk.list[i].state \in BKStates
        /\ \A g \in DOMAIN bk.groups : Len(bk.groups[g].slaves) <= MAX_GROUP_SLAVES
        /\ bk.mon.job \in {"idle", "probe", "first", "others", "add", "alive", "master", "slaves"}
        /\ bk.mon.old \in BKStates \cup {"any"}

Serves(b) == b.state \in {"up", "unknown"}

\* At most one read-write backend of a group serves: admin_insert_backend and
\* admin_update_backend refuse a second ("only one rw node is allowed"), and what the monitor
\* learns from the replication group never makes one, unless a master was taken out for
\* maintenance as a master.
OneMaster ==
    bk.pc = "up" /\ ~bk.mix.maint =>
        \A i, j \in DOMAIN bk.list :
            (/\ bk.list[i].group = bk.list[j].group
             /\ bk.list[i].type = "rw" /\ bk.list[j].type = "rw"
             /\ Serves(bk.list[i]) /\ Serves(bk.list[j])) => i = j

\* The same whatever the administrator does: the message of admin_insert_backend and
\* admin_update_backend says that only one rw node is allowed.
OneMasterEver ==
    bk.pc = "up" =>
        \A i, j \in DOMAIN bk.list :
            (/\ bk.list[i].group = bk.list[j].group
             /\ bk.list[i].type = "rw" /\ bk.list[j].type = "rw"
             /\ Serves(bk.list[i]) /\ Serves(bk.list[j])) => i = j

\* A group holds the backends that were put into it, each where its type says: what the sharding
\* plugin connects to is what the administrator sees (network_group_add, network_group_update).
GroupsComplete ==
    bk.pc = "up" /\ ~bk.crowded =>
        \A i \in DOMAIN bk.list :
            LET b == bk.list[i] IN
            b.group # 0 =>
                /\ (b.type = "rw") <=> (bk.groups[b.group].master = i)
                /\ (b.type = "ro") <=> Contains(bk.groups[b.group].slaves, i)

\* The monitor never changes the state of a backend the administrator has taken out or deleted,
\* though it looked at it before (the compare-and-swap of network_backends_modify).
MaintainedStays ==
    [][bk.pc = "up" /\ ~bk.mix.mgr /\ bk.mon # bk'.mon =>
           \A i \in DOMAIN bk.list :
               bk.list[i].state \in Out => bk'.list[i].state = bk.list[i].state]_bk

\* All is quiet: neither the servers nor the administrator will act.
Quiet == bk.pc = "up" /\ bk.mix.env = 0 /\ bk.mix.admin = 0

\* Backend i is where a quiet world wants it: one that was not taken out is up if its server
\* answers in time and down (a slave) if not.
Settled(i) ==
    LET b == bk.list[i] IN
    \/ b.state \in Out
    \/ b.type # "ro" /\ (bk.up[b.addr] => b.state = "up")
    \/ b.type = "ro" /\ bk.up[b.addr] /\ (bk.mix.delay => bk.lag[b.addr] = 0) /\ b.state = "up"
    \/ b.type = "ro" /\ bk.up[b.addr] /\ bk.mix.delay /\ bk.lag[b.addr] = 2 /\ b.state = "down"
    \/ b.type = "ro" /\ ~bk.up[b.addr] /\ b.state \in {"down", "offline"}
    \/ b.type = "ro" /\ bk.up[b.addr] /\ bk.mix.delay /\ bk.lag[b.addr] = 1

\* In a quiet world every backend ends up where its server's health puts it
\* (check_backend_alive, update_master_timestamp, check_slave_timestamp).
HealthSeen ==
    (Quiet /\ ~bk.mix.mgr) ~> (bk.pc = "up" /\ \A i \in DOMAIN bk.list : Settled(i))

\* In a quiet replication group with a reachable primary the table follows the roles: the primary
\* is a read-write backend, the other members are slaves, and none is offline
\* (group_replication_detect).
RolesFollowed ==
    (Quiet /\ bk.mix.mgr /\ ~bk.mix.maint /\ bk.up[bk.primary])
        ~> (bk.pc = "up" /\ \A a \in bk.members : \E i \in DOMAIN bk.list :
               /\ bk.list[i].addr = a
               /\ bk.list[i].type = (IF a = bk.primary THEN "rw" ELSE "ro")
               /\ bk.list[i].state # "offline")

\* The table of backends and the groups agree, with one serving master in each, whatever the
\* administrator and the monitor change (network_backends_add, network_backends_modify,
\* network_group_update).
BackendsInv == BKTypeOK /\ OneMaster /\ GroupsComplete

\* The monitor does its work and no more: in a quiet world health and roles end up in the table, and
\* what the administrator took out stays out (check_backend_alive, check_slave_timestamp,
\* group_replication_detect).
MonitorRight == MaintainedStays /\ HealthSeen /\ RolesFollowed
=============================================================================
