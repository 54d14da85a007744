------------------------------ MODULE Workers ------------------------------
(***************************************************************************)
(* The processes of Cetus (src/cetus-process-cycle.c, src/cetus-process.c, *)
(* src/cetus-channel.c, src/chassis-event.c) and the broadcast of admin    *)
(* statements to them (plugins/admin/admin-plugin.c).                      *)
(*                                                                         *)
(* A master forks the workers, restarts those that die, passes them        *)
(* signals and admin statements over one socketpair each, and collects     *)
(* their answers.  Signal handlers run between any two steps of the        *)
(* master; fork() and the bookkeeping after it are two steps.              *)
(***************************************************************************)
EXTENDS Integers, Sequences, FiniteSets

CONSTANTS
    N,          \* worker_processes
    MaxPid,     \* processes that may ever be forked
    Cons,       \* admin connections
    ChanCap,    \* messages a socketpair buffers in one direction
    TryLimit,   \* passes between two TERM broadcasts (10 in the code)
    Mixes       \* budgets of what the environment does, see left

ASSUME WorkersAssumption ==
    /\ N \in Nat \ {0} /\ MaxPid \in Nat /\ 0 \notin Cons
    /\ \A m \in Mixes : N + m.crash + 1 <= MaxPid
    /\ ChanCap \in Nat \ {0} /\ TryLimit \in Nat \ {0}

VARIABLES
    mpc,        \* where the master is in cetus_master_process_cycle
    mi,         \* the slot (or worker number) it is busy with
    back,       \* where it goes on after cetus_spawn_process
    flags,      \* sig_atomic_t flags of the master
    live, tryc, \* live and try_cnt
    rcmd,       \* ch.basics.command of cetus_reap_children
    chas,       \* fields of the chassis the loop uses
    procs,      \* cetus_processes of the master
    last,       \* cetus_last_process
    os,         \* the kernel's view of each process
    wk,         \* each child: flags, thread id base, its cetus_processes
    inbox,      \* messages from the master to a worker
    outbox,     \* answers of a worker to the master
    sigchld,    \* SIGCHLD is pending for the master
    adm,        \* the admin connections
    evs,        \* cetus_processes[i].event: the connection and process armed
    left,       \* what may still happen in this behaviour
    hist        \* history: what went wrong on the way, see Init

mvars == <<mpc, mi, back, flags, live, tryc, rcmd, chas>>
tvars == <<procs, last>>
vars == <<mvars, tvars, os, wk, inbox, outbox, sigchld, adm, evs, left, hist>>

None == 0
Pids == 1 .. MaxPid
Slots == 0 .. N                     \* one more for a new binary
Running(p) == p \in Pids /\ os[p] = "run"
Used == {s \in Slots : s < last}
Gone == mpc = "exited"
Worker(p) == Running(p) /\ wk[p].kind = "worker"

\* chan: "none" is -1, "stale" is a pair of numbers that are closed already.
NoSlot == [pid |-> None, chan |-> "none", exited |-> FALSE, exiting |-> FALSE,
           respawn |-> FALSE, detached |-> FALSE]
NoChild == [kind |-> "none", terminate |-> FALSE, quit |-> FALSE, exiting |-> FALSE,
            noaccept |-> FALSE, closing |-> FALSE, base |-> 0, conf |-> FALSE,
            peers |-> [s \in Slots |-> None]]
IdleAdm == [st |-> "idle", kind |-> "all", q |-> 0, pending |-> 0, got |-> {}, ans |-> {},
            index |-> 0, target |-> None]

Init ==
    /\ mpc = "start" /\ mi = 0 /\ back = "start"
    /\ flags = [reap |-> FALSE, terminate |-> FALSE, quit |-> FALSE, noaccept |-> FALSE,
                change |-> FALSE]
    /\ live = TRUE /\ tryc = 0 /\ rcmd = "CLOSE"
    /\ chas = [mutex |-> FALSE, mutex_set |-> FALSE, config_changed |-> FALSE,
               candidate |-> FALSE, active |-> N,
               exit_time |-> FALSE, instant |-> 0, new_binary |-> FALSE]
    /\ procs = [s \in Slots |-> NoSlot] /\ last = 0
    /\ os = [p \in Pids |-> "none"] /\ wk = [p \in Pids |-> NoChild]
    /\ inbox = [p \in Pids |-> <<>>] /\ outbox = [p \in Pids |-> <<>>]
    /\ sigchld = FALSE
    /\ adm = [c \in Cons |-> IdleAdm] /\ evs = [s \in Slots |-> [con |-> None, pid |-> None]]
    /\ left \in Mixes
    \* two deaths taken as one; a death nobody noted; a broadcast cut short;
    \* an answer that never came; a configuration change that was answered
    /\ hist = [missed |-> FALSE, lost |-> FALSE, disturbed |-> FALSE, dropped |-> FALSE, conf |-> FALSE]

-----------------------------------------------------------------------------
(* Channels.  cetus_write_channel does not retry: a message to a full      *)
(* buffer (EAGAIN) is gone.  The master keeps its copy of channel[1], so   *)
(* writing to a dead worker succeeds until the buffer is full.             *)

cetus_write_channel(box, p, m) ==
    IF Len(box[p]) < ChanCap THEN [box EXCEPT ![p] = Append(@, m)] ELSE box

Broadcast(box, to, m) ==
    [p \in Pids |-> IF p \in to THEN cetus_write_channel(box, p, m)[p] ELSE box[p]]

\* cetus_pass_open_channel: every worker but the new one.
Listeners(t, s) == {t[i].pid : i \in {j \in Used \ {s} : t[j].pid # None /\ t[j].chan = "open"}}

-----------------------------------------------------------------------------
(* cetus_spawn_process.                                                    *)

FreeSlot == LET free == {s \in Used : procs[s].pid = None}
            IN  IF free = {} THEN last ELSE CHOOSE s \in free : \A r \in free : s <= r

NextPid == CHOOSE p \in Pids : os[p] = "none" /\ \A r \in Pids : os[r] = "none" => p <= r
CanFork == \E p \in Pids : os[p] = "none"
Forked == CHOOSE p \in Pids : os[p] # "none" /\ \A r \in Pids : os[r] # "none" => r <= p

\* The child inherits the master's flags and last process.  Of the channels
\* it keeps the master's end of every other worker (cetus_worker_process_init).
Child(kind, s) ==
    [NoChild EXCEPT !.kind = kind, !.terminate = flags.terminate, !.quit = flags.quit,
                    !.noaccept = flags.noaccept, !.base = last,
                    !.peers = [i \in Slots |-> IF i # s /\ i \in Used /\ procs[i].chan = "open"
                                               THEN procs[i].pid ELSE None]]

\* create_channel and fork; the parent has not yet noted the pid.
Fork(kind, s, ret) ==
    /\ CanFork
    /\ os' = [os EXCEPT ![NextPid] = "run"]
    /\ wk' = [wk EXCEPT ![NextPid] = Child(kind, s)]
    /\ procs' = [procs EXCEPT ![s].chan = IF kind = "worker" THEN "open" ELSE "none"]
    /\ mpc' = "record" /\ back' = ret
    /\ UNCHANGED left

\* create_channel or fork fails: the numbers of the closed pair stay behind.
SpawnFails(s, next) ==
    /\ left.fail > 0
    /\ left' = [left EXCEPT !.fail = @ - 1]
    /\ procs' = [procs EXCEPT ![s].chan = "stale"]
    /\ mpc' = next
    /\ UNCHANGED <<back, os, wk>>

\* The parent's half: note the child, and tell the others of its channel.
Record ==
    /\ mpc = "record"
    /\ LET new == back # "reap"
           s == IF back = "start" THEN last ELSE mi
           old == procs[s]
       IN  /\ procs' = [procs EXCEPT ![s] =
                          [pid |-> Forked, chan |-> old.chan, exited |-> FALSE,
                           exiting |-> ~new /\ old.exiting,
                           respawn |-> IF new THEN back = "start" ELSE old.respawn,
                           detached |-> IF new THEN back = "changed" ELSE old.detached]]
           /\ last' = IF new /\ s = last THEN last + 1 ELSE last
           /\ inbox' = IF back = "changed" THEN inbox
                       ELSE Broadcast(inbox, Listeners(procs, s), [cmd |-> "OPEN", slot |-> s])
    /\ hist' = [hist EXCEPT !.lost = @ \/ os[Forked] = "dead"]
    /\ mpc' = back /\ mi' = IF back = "changed" THEN mi ELSE mi + 1
    /\ live' = (live \/ back = "reap")
    /\ rcmd' = IF back = "reap" THEN "OPEN" ELSE rcmd
    /\ UNCHANGED <<back, flags, tryc, chas, os, wk, outbox, sigchld, adm, evs, left>>

\* cetus_start_worker_processes, worker mi; its result is not looked at.
StartWorker ==
    /\ mpc = "start" /\ mi < N
    /\ \/ Fork("worker", last, "start") /\ UNCHANGED mi
       \/ SpawnFails(last, "start") /\ mi' = mi + 1
    /\ UNCHANGED <<flags, live, tryc, rcmd, chas, last, inbox, outbox, sigchld, adm, evs, hist>>

\* open_plugins and the pid file; if either fails the master returns.
OpenPlugins ==
    /\ mpc = "start" /\ mi = N
    /\ \/ mpc' = "top" /\ UNCHANGED left
       \/ left.fail > 0 /\ mpc' = "exited" /\ left' = [left EXCEPT !.fail = @ - 1]
    /\ UNCHANGED <<mi, back, flags, live, tryc, rcmd, chas, tvars, os, wk, inbox, outbox,
                   sigchld, adm, evs, hist>>

-----------------------------------------------------------------------------
(* cetus_signal_handler, which runs between any two steps of the master.   *)

rest_of_signal == <<mpc, mi, back, live, tryc, rcmd, chas, last, wk, inbox, outbox, adm, evs>>

\* SIGCHLD: cetus_process_get_status takes every dead child at once and looks
\* it up among the first cetus_last_process slots.
SigChld ==
    /\ sigchld /\ ~Gone
    /\ mpc = "record" => left.race
    /\ LET z == {p \in Pids : os[p] = "zombie"}
       IN  /\ os' = [p \in Pids |-> IF p \in z THEN "dead" ELSE os[p]]
           /\ procs' = [s \in Slots |-> IF s \in Used /\ procs[s].pid \in z
                                        THEN [procs[s] EXCEPT !.exited = TRUE] ELSE procs[s]]
           /\ hist' = [hist EXCEPT !.missed = @ \/ Cardinality(z) # 1 \/ flags.reap]
    /\ flags' = [flags EXCEPT !.reap = TRUE]
    /\ sigchld' = FALSE
    /\ UNCHANGED <<rest_of_signal, left>>

\* TERM (or INT), QUIT, WINCH and USR2 from outside.
Signal(sig) ==
    /\ ~Gone /\ mpc # "start" /\ left[sig] > 0
    /\ left' = [left EXCEPT ![sig] = @ - 1]
    /\ flags' = CASE sig = "term" -> [flags EXCEPT !.terminate = TRUE]
                  [] sig = "quit" -> [flags EXCEPT !.quit = TRUE]
                  [] sig = "noaccept" -> [flags EXCEPT !.noaccept = TRUE]
                  [] sig = "change" -> [flags EXCEPT !.change = @ \/ ~chas.new_binary]
    /\ UNCHANGED <<rest_of_signal, procs, os, sigchld, hist>>

-----------------------------------------------------------------------------
(* cetus_master_process_cycle.                                             *)

rest_of_master == <<mi, back, os, outbox, sigchld, adm, evs, left>>

\* The head of the loop: the event loop is skipped once terminating.
Top ==
    /\ mpc = "top"
    /\ mpc' = IF flags.terminate THEN "body" ELSE "loop"
    /\ chas' = [chas EXCEPT !.mutex = @ /\ (flags.terminate \/ ~chas.mutex_set)]
    /\ UNCHANGED <<rest_of_master, flags, live, tryc, rcmd, tvars, wk, inbox, hist>>

\* chassis_event_loop, master: a shutdown does not end it under the mutex.
LoopBreaks_wrong == flags.change \/ flags.quit \/ flags.noaccept
                    \/ (flags.terminate /\ ~chas.mutex)

LoopBreaks == flags.reap \/ flags.change \/ flags.quit \/ flags.noaccept
              \/ (flags.terminate /\ ~chas.mutex)

InFlight == \E c \in Cons : adm[c].st = "pend"

LeaveLoop ==
    /\ mpc = "loop" /\ LoopBreaks
    /\ mpc' = "body"
    /\ chas' = [chas EXCEPT !.mutex = TRUE, !.mutex_set = TRUE]
    /\ hist' = [hist EXCEPT !.disturbed = @ \/ InFlight]
    /\ UNCHANGED <<rest_of_master, flags, live, tryc, rcmd, tvars, wk, inbox>>

AnyLive_wrong == \E s \in Used : procs[s].pid # None /\ (procs[s].exiting \/ ~procs[s].detached)

\* cetus_check_children.
AnyLive == \E s \in Used : procs[s].pid # None /\ ~procs[s].exited
                           /\ (procs[s].exiting \/ ~procs[s].detached)

BodyTerminating ==
    /\ mpc = "body" /\ flags.terminate
    /\ live' = AnyLive
    /\ tryc' = IF tryc < TryLimit THEN tryc + 1 ELSE tryc
    /\ mpc' = "after"
    /\ UNCHANGED <<rest_of_master, flags, rcmd, chas, tvars, wk, inbox, hist>>

\* A worker died: count it, and stop everything if they all die within a
\* second (diff <= 1); how much time passed is left open.
BodyReap ==
    /\ mpc = "body" /\ ~flags.terminate /\ flags.reap
    /\ \E soon \in BOOLEAN :
         LET active == IF chas.config_changed THEN chas.active - 1 ELSE chas.active
             first == ~chas.exit_time
             instant == IF first THEN 1 ELSE chas.instant + 1
             stop == ~first /\ soon /\ instant >= last
         IN  /\ first => soon
             /\ chas' = [chas EXCEPT !.active = active, !.instant = instant,
                                     !.exit_time = first \/ soon]
             /\ flags' = [flags EXCEPT !.reap = FALSE, !.terminate = stop,
                                       !.change = @ \/ (chas.config_changed /\ active < 1)]
             /\ mpc' = IF stop THEN "after" ELSE "reap"
             /\ live' = (live /\ stop)
    /\ mi' = 0 /\ rcmd' = "CLOSE"
    /\ UNCHANGED <<back, os, outbox, sigchld, adm, evs, left, tryc, tvars, wk, inbox, hist>>

BodyNothing ==
    /\ mpc = "body" /\ ~flags.terminate /\ ~flags.reap
    /\ mpc' = "after"
    /\ UNCHANGED <<rest_of_master, flags, live, tryc, rcmd, chas, tvars, wk, inbox, hist>>

LastAfter_wrong(i) == last - 1

\* The table shrinks only at its end.
LastAfter(i) == IF i = last - 1 THEN last - 1 ELSE last

\* A worker that died is replaced unless the configuration was changed.
Respawns(p) == /\ p.respawn /\ ~chas.config_changed
               /\ ~p.exiting /\ ~flags.terminate /\ ~flags.quit

\* cetus_reap_children, slot mi.
ReapSlot ==
    /\ mpc = "reap" /\ mi < last
    /\ LET p == procs[mi]
           closes == p.exited /\ p.pid # None /\ (~p.detached \/ chas.config_changed)
           q == [p EXCEPT !.respawn = @ /\ ~chas.config_changed,
                          !.chan = IF closes THEN "none" ELSE @]
           others == {procs[n].pid : n \in {k \in Used \ {mi} : /\ ~procs[k].exited
                                                                /\ procs[k].pid # None
                                                                /\ procs[k].chan = "open"}}
       IN  /\ IF closes
              THEN /\ inbox' = Broadcast([inbox EXCEPT ![p.pid] = <<>>], others,
                                         [cmd |-> rcmd, slot |-> mi])
                   /\ outbox' = [outbox EXCEPT ![p.pid] = <<>>]
              ELSE UNCHANGED <<inbox, outbox>>
           /\ \/ /\ p.pid = None \/ ~p.exited
                 /\ live' = (live \/ (p.pid # None /\ (p.exiting \/ ~p.detached)))
                 /\ mi' = mi + 1 /\ UNCHANGED <<mpc, procs, last>>
              \/ /\ p.pid # None /\ p.exited
                 /\ Respawns(p)
                 /\ procs' = [procs EXCEPT ![mi] = q]
                 /\ mpc' = "sleep" /\ UNCHANGED <<mi, live, last>>
              \/ /\ p.pid # None /\ p.exited
                 /\ ~Respawns(p)
                 /\ last' = LastAfter(mi)
                 /\ procs' = [procs EXCEPT ![mi] = IF mi = last - 1 THEN q
                                                   ELSE [q EXCEPT !.pid = None]]
                 /\ mi' = mi + 1 /\ UNCHANGED <<mpc, live>>
    /\ UNCHANGED <<back, flags, tryc, rcmd, chas, os, wk, sigchld, adm, evs, left, hist>>

\* One second later: the slot is spawned again, or not at all.
Respawn ==
    /\ mpc = "sleep"
    /\ \/ Fork("worker", mi, "reap") /\ UNCHANGED mi
       \/ SpawnFails(mi, "reap") /\ mi' = mi + 1
    /\ UNCHANGED <<flags, live, tryc, rcmd, chas, last, inbox, outbox, sigchld, adm, evs, hist>>

ReapDone ==
    /\ mpc = "reap" /\ mi >= last
    /\ mpc' = "after" /\ mi' = 0 /\ rcmd' = "CLOSE"
    /\ UNCHANGED <<back, os, outbox, sigchld, adm, evs, left, flags, live, tryc, chas, tvars, wk, inbox, hist>>

\* cetus_signal_worker_processes: over the channel, else by kill().
cetus_signal_worker_processes(sig) ==
    LET todo == {s \in Used : /\ ~procs[s].detached /\ procs[s].pid # None
                              /\ ~(procs[s].exiting /\ sig = "quit")}
        byChannel == {s \in todo : /\ sig \in {"quit", "term"} /\ procs[s].chan = "open"
                                   /\ Len(inbox[procs[s].pid]) < ChanCap}
        noSuch == {s \in todo \ byChannel : os[procs[s].pid] = "dead"}
        killed == {procs[s].pid : s \in todo \ (byChannel \union noSuch)}
    IN  /\ procs' = [s \in Slots |->
                       CASE s \in noSuch -> [procs[s] EXCEPT !.exited = TRUE, !.exiting = FALSE]
                         [] s \in todo \ noSuch -> [procs[s] EXCEPT !.exiting = TRUE]
                         [] OTHER -> procs[s]]
        /\ inbox' = Broadcast(inbox, {procs[s].pid : s \in byChannel}, [cmd |-> sig, slot |-> 0])
        /\ wk' = [p \in Pids |->
                    IF p \notin killed THEN wk[p]
                    ELSE [wk[p] EXCEPT !.terminate = @ \/ sig = "term", !.quit = @ \/ sig = "quit",
                                       !.noaccept = @ \/ sig = "noaccept"]]
        /\ flags' = [flags EXCEPT !.reap = @ \/ (noSuch # {} /\ ~chas.config_changed),
                                  !.noaccept = @ /\ sig # "noaccept"]

rest_of_after == <<mi, back, rcmd, last, os, outbox, sigchld, evs, left, hist>>

MasterExits ==
    /\ mpc = "after" /\ ~live /\ (flags.terminate \/ flags.quit)
    /\ mpc' = "exited"
    /\ UNCHANGED <<rest_of_after, adm, flags, live, tryc, chas, procs, wk, inbox>>

AfterTerminating ==
    /\ mpc = "after" /\ live /\ flags.terminate
    /\ mpc' = "top"
    /\ IF tryc >= TryLimit
       THEN tryc' = 0 /\ cetus_signal_worker_processes("term")
       ELSE UNCHANGED <<tryc, procs, inbox, wk, flags>>
    /\ UNCHANGED <<rest_of_after, adm, live, chas>>

AfterQuit ==
    /\ mpc = "after" /\ live /\ flags.quit /\ ~flags.terminate
    /\ cetus_signal_worker_processes("quit")
    /\ live' = FALSE /\ mpc' = "top"
    /\ UNCHANGED <<rest_of_after, adm, tryc, chas>>

\* stop_listening also frees the client sockets of the admin connections.
AfterNoAccept ==
    /\ mpc = "after" /\ ~flags.terminate /\ ~flags.quit /\ flags.noaccept
    /\ cetus_signal_worker_processes("noaccept")
    /\ adm' = [c \in Cons |-> [adm[c] EXCEPT !.st = "closed"]]
    /\ mpc' = IF flags.change THEN "change" ELSE "top"
    /\ UNCHANGED <<rest_of_after, live, tryc, chas>>

\* cetus_exec_new_binary: a detached child, or the pid file cannot be renamed.
AfterChange ==
    /\ \/ mpc = "change"
       \/ mpc = "after" /\ ~flags.terminate /\ ~flags.quit /\ ~flags.noaccept /\ flags.change
    /\ \/ /\ CanFork /\ FreeSlot \in Slots
          /\ Fork("binary", FreeSlot, "changed") /\ mi' = FreeSlot
          /\ chas' = [chas EXCEPT !.new_binary = TRUE]
       \/ /\ left.fail > 0
          /\ left' = [left EXCEPT !.fail = @ - 1] /\ mpc' = "changed"
          /\ chas' = [chas EXCEPT !.new_binary = FALSE]
          /\ UNCHANGED <<back, os, wk, procs, mi>>
    /\ UNCHANGED <<flags, live, tryc, rcmd, last, inbox, outbox, sigchld, adm, evs, hist>>

Changed ==
    /\ mpc = "changed"
    /\ flags' = [flags EXCEPT !.change = FALSE, !.quit = @ \/ chas.active < 1]
    /\ mpc' = "top"
    /\ UNCHANGED <<rest_of_after, adm, live, tryc, chas, procs, wk, inbox>>

AfterNothing ==
    /\ mpc = "after" /\ ~flags.terminate /\ ~flags.quit /\ ~flags.noaccept /\ ~flags.change
    /\ mpc' = "top"
    /\ UNCHANGED <<rest_of_after, adm, flags, live, tryc, chas, procs, wk, inbox>>

Master == \/ StartWorker \/ OpenPlugins \/ Record \/ Top \/ LeaveLoop
          \/ BodyTerminating \/ BodyReap \/ BodyNothing \/ ReapSlot \/ Respawn \/ ReapDone
          \/ MasterExits \/ AfterTerminating \/ AfterQuit \/ AfterNoAccept \/ AfterChange
          \/ Changed \/ AfterNothing

-----------------------------------------------------------------------------
(* cetus_worker_process_cycle and cetus_channel_handler.                   *)

rest_of_worker == <<mvars, tvars, adm, evs>>

\* exit() of a child: a zombie for the master to find, or nobody's.
Dies(p) ==
    /\ os' = [os EXCEPT ![p] = IF Gone THEN "dead" ELSE "zombie"]
    /\ wk' = [wk EXCEPT ![p] = NoChild]
    /\ sigchld' = (sigchld \/ ~Gone)

\* One message.  OPEN stores a descriptor number that means nothing here (the
\* passing of descriptors is commented out) and leaves the old one open.
WRead(p) ==
    /\ Worker(p) /\ inbox[p] # <<>> /\ ~wk[p].terminate
    /\ inbox' = [inbox EXCEPT ![p] = Tail(@)]
    /\ LET m == Head(inbox[p])
       IN  \/ /\ m.cmd = "ADMIN"
              /\ wk' = [wk EXCEPT ![p].conf = @ \/ m.kind = "conf"]
              /\ \/ /\ outbox' = cetus_write_channel(outbox, p, [con |-> m.con, q |-> m.q])
                    /\ hist' = [hist EXCEPT !.dropped = @ \/ outbox' = outbox]
                    /\ UNCHANGED left
                 \/ /\ left.drop > 0                 \* the handler returns without an answer
                    /\ left' = [left EXCEPT !.drop = @ - 1]
                    /\ hist' = [hist EXCEPT !.dropped = TRUE]
                    /\ UNCHANGED outbox
           \/ /\ m.cmd = "quit" /\ wk' = [wk EXCEPT ![p].quit = TRUE]
              /\ UNCHANGED <<outbox, hist, left>>
           \/ /\ m.cmd = "term" /\ wk' = [wk EXCEPT ![p].terminate = TRUE]
              /\ UNCHANGED <<outbox, hist, left>>
           \/ /\ m.cmd = "OPEN" /\ UNCHANGED <<wk, outbox, hist, left>>
           \/ /\ m.cmd = "CLOSE" /\ wk' = [wk EXCEPT ![p].peers[m.slot] = None]
              /\ UNCHANGED <<outbox, hist, left>>
    /\ UNCHANGED <<rest_of_worker, os, sigchld>>

\* End of file on the channel: nobody has the other end any more.
WEof(p) ==
    /\ Worker(p) /\ Gone /\ inbox[p] = <<>> /\ ~wk[p].terminate
    /\ \A q \in Pids, s \in Slots : Worker(q) => wk[q].peers[s] # p
    /\ wk' = [wk EXCEPT ![p].terminate = TRUE]
    /\ UNCHANGED <<rest_of_worker, os, inbox, outbox, sigchld, left, hist>>

\* One pass of the worker's loop that has something to do.
WLoop(p) ==
    /\ Worker(p)
    /\ \/ /\ wk[p].terminate \/ wk[p].exiting
          /\ Dies(p)
       \/ /\ ~wk[p].terminate /\ ~wk[p].exiting /\ (wk[p].noaccept \/ wk[p].quit)
          /\ wk' = [wk EXCEPT ![p].noaccept = FALSE, ![p].closing = @ \/ wk[p].noaccept,
                              ![p].quit = FALSE, ![p].exiting = wk[p].quit]
          /\ UNCHANGED <<os, sigchld>>
    /\ UNCHANGED <<rest_of_worker, inbox, outbox, left, hist>>

Crash(p) ==
    /\ Running(p) /\ left.crash > 0
    /\ mpc = "start" => left.race
    /\ left' = [left EXCEPT !.crash = @ - 1]
    /\ Dies(p)
    /\ UNCHANGED <<rest_of_worker, inbox, outbox, hist>>

-----------------------------------------------------------------------------
(* The admin plugin of the master: admin_process_query, its handlers run   *)
(* from the event loop.                                                    *)

rest_of_admin == <<mpc, mi, back, flags, live, tryc, rcmd, tvars, os, wk, sigchld>>

\* construct_channel_info: the statement to one worker or to all, and the
\* event for the answer.  The numbers of a closed pair count as a channel.
Send(c, a) ==
    LET open == {i \in Used : procs[i].chan # "none"}
        to == CASE a.kind = "given" -> {a.index}
                [] a.kind = "one" -> {i \in open : \A j \in open : i <= j}
                [] OTHER -> open
        m == [cmd |-> "ADMIN", con |-> c, q |-> a.q, kind |-> a.kind, slot |-> 0]
    IN  /\ inbox' = Broadcast(inbox, {procs[i].pid : i \in {j \in to : procs[j].chan = "open"}}, m)
        /\ evs' = [i \in Slots |-> IF i \in to THEN [con |-> c, pid |-> procs[i].pid] ELSE evs[i]]
        /\ adm' = [adm EXCEPT ![c] = [a EXCEPT !.st = "pend", !.pending = Cardinality(to)]]
        /\ hist' = [hist EXCEPT !.dropped = @ \/ to = {} \/ \E i \in to :
                        procs[i].chan # "open" \/ Len(inbox[procs[i].pid]) >= ChanCap
                        \/ ~Running(procs[i].pid)]

\* A statement arrives.  candidate_config_changed belongs to the process, not
\* to the connection.  KILL goes to the worker in the high bits of the id.
AdminQuery(c, kind) ==
    /\ mpc = "loop" /\ adm[c].st = "idle" /\ left.query > 0
    /\ c \in left.cons /\ kind \in left.kinds
    /\ left' = [left EXCEPT !.query = @ - 1]
    /\ \E t \in {p \in Pids : kind = "given" => Worker(p) /\ ~wk[p].terminate} :
         LET a == [adm[c] EXCEPT !.kind = kind, !.q = @ + 1, !.ans = {},
                                 !.index = wk[t].base, !.target = t]
             refused == kind = "given" /\ a.index > last
         IN  /\ kind # "given" => t = 1
             /\ chas' = [chas EXCEPT !.candidate = kind \in {"conf", "conf0"},
                                     !.mutex = @ \/ ~refused]
             /\ IF refused \/ chas.mutex
                THEN adm' = [adm EXCEPT ![c] = [a EXCEPT !.st = IF refused THEN "idle" ELSE "wait"]]
                     /\ UNCHANGED <<inbox, evs, hist>>
                ELSE Send(c, a)
    /\ UNCHANGED <<rest_of_admin, outbox>>

\* network_send_admin_sql_to_workers, from its 10 ms timer.
AdminRetry(c) ==
    /\ mpc = "loop" /\ adm[c].st = "wait" /\ ~chas.mutex
    /\ chas' = [chas EXCEPT !.mutex = TRUE]
    /\ Send(c, adm[c])
    /\ UNCHANGED <<rest_of_admin, outbox, left>>

\* admin_resultset_merge: a modification may set or clear config_changed.
Merge(a) ==
    [chas EXCEPT !.mutex = FALSE,
                 !.config_changed = IF chas.candidate /\ a.kind \in {"conf", "conf0", "given"}
                                    THEN a.kind # "conf0" ELSE @]

AdminResp_wrong(i) ==
    /\ mpc = "loop" /\ evs[i].con # None /\ procs[i].chan = "open" /\ procs[i].pid = evs[i].pid
    /\ outbox[evs[i].pid] # <<>>
    /\ LET p == evs[i].pid
           c == evs[i].con
           a == [adm[c] EXCEPT !.pending = @ - 1, !.got = @ \union {Head(outbox[p])}]
       IN  /\ outbox' = [outbox EXCEPT ![p] = Tail(@)]
           /\ adm' = [adm EXCEPT ![c] = IF a.pending = 0
                                        THEN [a EXCEPT !.st = "idle", !.ans = a.got, !.got = {}]
                                        ELSE a]
           /\ chas' = [Merge(a) EXCEPT !.mutex = FALSE]
           /\ hist' = [hist EXCEPT !.conf = @ \/ (a.pending = 0 /\ a.kind = "conf")]
    /\ evs' = [evs EXCEPT ![i] = [con |-> None, pid |-> None]]
    /\ UNCHANGED <<rest_of_admin, inbox, left>>

\* network_read_sql_resp: an answer arrives on the channel of slot i.
AdminResp(i) ==
    /\ mpc = "loop" /\ evs[i].con # None /\ procs[i].chan = "open" /\ procs[i].pid = evs[i].pid
    /\ outbox[evs[i].pid] # <<>>
    /\ LET p == evs[i].pid
           c == evs[i].con
           a == [adm[c] EXCEPT !.pending = @ - 1, !.got = @ \union {Head(outbox[p])}]
       IN  /\ adm[c].st # "closed"
           /\ outbox' = [outbox EXCEPT ![p] = Tail(@)]
           /\ \/ /\ a.pending # 0
                 /\ adm' = [adm EXCEPT ![c] = a]
                 /\ UNCHANGED <<chas, hist, left>>
              \/ /\ a.pending = 0
                 /\ adm' = [adm EXCEPT ![c] = [a EXCEPT !.st = "idle", !.ans = a.got, !.got = {}]]
                 /\ chas' = Merge(a)
                 /\ hist' = [hist EXCEPT !.conf = @ \/ a.kind = "conf"]
                 /\ UNCHANGED left
              \/ /\ left.slow > 0            \* the rest of the answer takes over 6 s
                 /\ left' = [left EXCEPT !.slow = @ - 1]
                 /\ adm' = [adm EXCEPT ![c] = [a EXCEPT !.st = "idle", !.got = adm[c].got]]
                 /\ chas' = [chas EXCEPT !.mutex = FALSE]
                 /\ hist' = [hist EXCEPT !.disturbed = TRUE]
    /\ evs' = [evs EXCEPT ![i] = [con |-> None, pid |-> None]]
    /\ UNCHANGED <<rest_of_admin, inbox>>

-----------------------------------------------------------------------------

WorkerStep(p) == WRead(p) \/ WEof(p) \/ WLoop(p)
Admin == \/ \E c \in Cons : AdminRetry(c)
         \/ \E i \in Slots : AdminResp(i)

Next ==
    \/ Master \/ SigChld \/ Admin
    \/ \E sig \in {"term", "quit", "noaccept", "change"} : Signal(sig)
    \/ \E p \in Pids : WorkerStep(p) \/ Crash(p)
    \/ \E c \in Cons, kind \in {"show", "one", "conf", "conf0", "given"} : AdminQuery(c, kind)

\* The kernel schedules every process and delivers signals; libev fires the
\* timers and the readable descriptors of a master that is in its loop.
Fairness ==
    /\ WF_vars(Master) /\ WF_vars(SigChld) /\ WF_vars(Admin)
    /\ \A p \in Pids : WF_vars(WorkerStep(p))

Spec == Init /\ [][Next]_vars /\ Fairness

-----------------------------------------------------------------------------
(* Properties.                                                             *)

TypeOK ==
    /\ mpc \in {"start", "record", "top", "loop", "body", "reap", "sleep", "after", "change",
                "changed", "exited"}
    /\ mi \in 0 .. N + 1 /\ back \in {"start", "reap", "changed"} /\ rcmd \in {"OPEN", "CLOSE"}
    /\ live \in BOOLEAN /\ tryc \in 0 .. TryLimit /\ last \in 0 .. N + 1
    /\ \A s \in Slots : procs[s].pid \in Pids \union {None}
                        /\ procs[s].chan \in {"none", "open", "stale"}
                        /\ evs[s].con \in Cons \union {None}
    /\ \A p \in Pids : os[p] \in {"none", "run", "zombie", "dead"} /\ Len(inbox[p]) <= ChanCap

\* The master knows every child that runs: it is in the table, in a slot not
\* marked as exited, or the fork has just returned (cetus_spawn_process,
\* cetus_reap_children).
ChildrenKnown ==
    \A p \in Pids : Running(p) /\ ~Gone /\ ~(mpc = "record" /\ p = Forked)
                    => \E s \in Used : procs[s].pid = p /\ ~procs[s].exited

\* Unless the event loop was left while an admin statement was in flight, or
\* an answer took over 6 s, every admin connection is given the workers'
\* answers to its own, latest statement (network_read_sql_resp).
AnswersOwn ==
    ~hist.disturbed => \A c \in Cons : \A m \in adm[c].got \union adm[c].ans :
                          m.con = c /\ m.q = adm[c].q

\* While config_changed stands no worker runs with the configuration the
\* master was started with (cetus_reap_children does not respawn then).
FreshConfig ==
    chas.config_changed /\ ~hist.disturbed /\ ~Gone
        => \A s \in Used : Worker(procs[s].pid) => wk[procs[s].pid].conf

\* A SIGTERM ends the master (cetus_master_process_cycle), unless an answer
\* of a worker was lost: the admin mutex then keeps the event loop going.
Terminates == flags.terminate ~> (Gone \/ hist.dropped)

\* Once the master is gone, for whatever reason, every worker exits: the
\* channels close one after the other (cetus_channel_handler).
OrphansExit == Gone ~> (\A p \in Pids : ~Worker(p))

\* A worker that died is replaced (cetus_reap_children) as long as Cetus is
\* neither stopping nor draining, the fork succeeds, and the death was not
\* reported before the parent had noted the pid.
DeadReplaced ==
    \A s \in Slots :
        (s \in Used /\ procs[s].pid # None /\ ~Running(procs[s].pid)) ~>
            \/ s \notin Used \/ procs[s].pid = None \/ Running(procs[s].pid)
            \/ procs[s].chan = "stale" \/ procs[s].exiting
            \/ Gone \/ flags.terminate \/ flags.quit \/ chas.config_changed \/ hist.lost

\* When the workers of a changed configuration are all gone the master starts
\* the new binary and exits, unless a death was counted together with another
\* or a worker was missing before (active_worker_processes).
DrainEnds ==
    (chas.config_changed /\ last > 0 /\ \A p \in Pids : ~Worker(p)) ~>
        (Gone \/ ~chas.config_changed \/ hist.missed \/ hist.lost
         \/ \E s \in Slots : procs[s].chan = "stale")

\* KILL reaches the worker that owns the thread id: the number of the slot is
\* in its high bits (admin_kill_query, cetus_worker_process_cycle).
KillReachesOwner ==
    \A c \in Cons : adm[c].st = "pend" /\ adm[c].kind = "given" /\ Worker(adm[c].target)
        => \E i \in Used : procs[i].pid = adm[c].target /\ adm[c].index = i

\* A configuration change that was answered is in force in every worker.
ChangeInForce ==
    hist.conf /\ ~Gone => \A s \in Used : Worker(procs[s].pid) => wk[procs[s].pid].conf

\* The master's table is true: it knows every child that runs, and while config_changed stands none
\* of them has the old configuration (cetus_spawn_process, cetus_reap_children).
MasterInv == TypeOK /\ ChildrenKnown /\ FreshConfig

\* Everything ends: the master after a SIGTERM, and every worker once the master is gone
\* (cetus_master_process_cycle, cetus_channel_handler), but for the races Terminates names.
AllExit == Terminates /\ OrphansExit

\* The service goes on: a worker that died is replaced, and when the workers of a changed
\* configuration are gone the new binary is started (cetus_reap_children, cetus_change_binary),
\* but for the races DeadReplaced and DrainEnds name.
ServiceKept == DeadReplaced /\ DrainEnds
=============================================================================
