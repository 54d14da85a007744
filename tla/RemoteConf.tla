----------------------------- MODULE RemoteConf -----------------------------
(* The remote configuration centre of one worker (src/chassis-config.c, the  *)
(* remote-config thread of src/cetus-process-cycle.c, the asynchronous       *)
(* commands of plugins/admin/admin-commands.c, src/cetus-users.c).           *)
(*                                                                           *)
(* The event loop of the worker ("main") answers the administrator.  A       *)
(* command that needs the remote database leaves its arguments in the        *)
(* chassis_config_t that both threads share, raises options_update_flag,     *)
(* arms a timer and lets the client wait.  The remote-config thread polls    *)
(* the flag, does what asynchronous_type says, stores options_success_flag   *)
(* and lowers options_update_flag.  The timer's callback answers when the    *)
(* flag is down, and gives up when the four bits of `retries` wrap to zero.  *)
(*                                                                           *)
(* There is no lock.  The two flags and `retries` are bit-fields of one      *)
(* word, so that a store to one of them loads and stores the others: a mix   *)
(* with `torn` set splits every such store into RCLoad and the store.  A mix *)
(* with `calm` set leaves out the windows of a few instructions: the thread  *)
(* does not poll between two stores of a command being started, and the      *)
(* event loop does not run between the thread's last stores.                 *)
(*                                                                           *)
(* A change of the administrator is a number.  The accounts, the sharding    *)
(* rules and the backends are the set of the changes made to them, an option *)
(* is the last change, and 0 in such a set is the text of a NULL pointer.    *)
EXTENDS Integers, Sequences, FiniteSets

CONSTANTS RCMixes,   \* [kinds, cmds, edits, fails, clients, local, calm, torn] of a run
          RCRetries  \* the values of `retries`, 16 in the code

ASSUME RemoteConfAssumption == RCRetries \in Nat \ {0, 1}

VARIABLE rc

Writes == {"user", "set", "ro", "rw", "backend"}
Reloads == {"reload", "reload_user", "reload_variables"}

\* struct chassis_config_t: the word of bit-fields, the arguments and the caches.
Word == [update : BOOLEAN, success : BOOLEAN, retries : 0 .. RCRetries - 1]

RCOff == [pc |-> "off"]

Objects == {"users", "variables", "sharding", "ro", "rw"}

RCInit ==
    \E m \in RCMixes :
        rc = [pc      |-> "up",
              mix     |-> m,
              made    |-> 0,                                  \* the changes made so far
              word    |-> [update |-> FALSE, success |-> FALSE, retries |-> 0],
              type    |-> "none",                             \* asynchronous_type
              data    |-> <<>>,                               \* user_data
              args    |-> <<>>,                               \* key, value, reserve1, reserve2
              mem     |-> [o \in Objects |-> {}],             \* what the worker goes by
              memopt  |-> 0,
              store   |-> [o \in Objects |-> {}],             \* the remote database
              opt     |-> 0,
              cache   |-> [o \in {"users", "variables", "sharding"} |-> <<{}>>],
              options |-> 0,                                  \* options_one
              timer   |-> 0,                                  \* the client of remote_config_event
              main    |-> [pc |-> "loop", cli |-> 0, cmd |-> "none", snap |-> <<>>],
              thr     |-> [pc |-> "poll", op |-> "none", ok |-> FALSE, link |-> TRUE, snap |-> <<>>],
              unlinked |-> FALSE,                             \* a write of the accounts found no connection
              cli     |-> [c \in 1 .. m.clients |->
                              [st |-> "free", cmd |-> "none", change |-> 0, ans |-> "none",
                               alone |-> TRUE, saw |-> {}]]]

Alive == rc.pc = "up"

\* Neither thread is between two stores that belong together.
MainMay == Alive /\ rc.main.pc = "loop" /\ (rc.mix.calm => rc.thr.pc \notin {"second", "free"})
ThreadMay == Alive /\ (rc.mix.calm => rc.main.pc = "loop")

\* A store to a bit-field of the word: the rest of the word is what was loaded.
Loaded(t) == IF rc[t].snap = <<>> THEN rc.word ELSE rc[t].snap[1]

Storing(t) ==
    IF t = "main" THEN rc.main.pc \in {"flag", "retries", "bump"}
    ELSE rc.thr.pc \in {"first", "second"}

RCLoad(t) ==
    /\ Alive /\ rc.mix.torn /\ Storing(t) /\ rc[t].snap = <<>>
    /\ rc' = [rc EXCEPT ![t].snap = <<rc.word>>]

-----------------------------------------------------------------------------
(* The administrator's side of the event loop.                               *)

Ended(s, c, a) == [s EXCEPT !.cli[c].st = "answered", !.cli[c].ans = a]

\* Every cell of the configuration the operator edits by hand in the remote tables.
RCEdit(o) ==
    /\ Alive /\ rc.mix.edits > 0
    /\ rc' = [rc EXCEPT !.mix.edits = @ - 1, !.made = @ + 1,
                        !.store = IF o = "option" THEN @ ELSE [@ EXCEPT ![o] = @ \cup {rc.made + 1}],
                        !.opt = IF o = "option" THEN rc.made + 1 ELSE @]

\* The file of the object is truncated and written, then cached.
chassis_config_local_write_object(s, o, text) == [s EXCEPT !.store[o] = text, !.cache[o] = <<text>>]

\* The file of the object is read, whatever the cache holds.
chassis_config_local_query_object(s, o) == [s EXCEPT !.cache[o] = <<s.store[o]>>]

\* A write of an object to the remote database is only prepared: the text is left in user_data.
chassis_config_write_object(s, o, text) ==
    IF s.mix.local THEN chassis_config_local_write_object(s, o, text) ELSE [s EXCEPT !.data = <<text>>]

\* cetus_users_update_record and cetus_users_delete_record followed by
\* cetus_users_write_json.
cetus_users_write_json(s, k) ==
    [chassis_config_write_object(s, "users", s.mem["users"] \cup {k}) EXCEPT !.mem["users"] = @ \cup {k}]

\* shard_conf_write_json says TRUE whatever chassis_config_write_object answers.
shard_conf_write_json(s, k) ==
    [chassis_config_write_object(s, "sharding", s.mem["sharding"] \cup {k}) EXCEPT !.mem["sharding"] = @ \cup {k}]

\* The text of an object: the cache, unless it is to be refreshed or empty.  To refresh it drops
\* the cache, and with a remote database leaves the reading to the thread.
chassis_config_query_object(s, o, refresh) ==
    CASE s.mix.local -> chassis_config_local_query_object(s, o)
      [] refresh /\ ~s.mix.local -> [s EXCEPT !.cache[o] = <<>>]
      [] OTHER -> IF s.cache[o] # <<>> THEN s ELSE [s EXCEPT !.cache[o] = <<s.store[o]>>]

\* The arguments of a change of an option or of the backends: insert backend stores one list,
\* update and delete store both.
Arguments(s, cmd, k) ==
    LET m == [s EXCEPT !.mem["ro"] = IF cmd \in {"ro", "backend"} THEN @ \cup {k} ELSE @,
                       !.mem["rw"] = IF cmd = "rw" THEN @ \cup {k} ELSE @,
                       !.memopt = IF cmd = "set" THEN k ELSE @]
    IN [m EXCEPT !.args = CASE cmd = "set" -> << <<"option", k>> >>
                            [] cmd = "backend" -> << <<"ro", m.mem["ro"]>>, <<"rw", m.mem["rw"]>> >>
                            [] OTHER -> << <<cmd, m.mem[cmd]>> >>]

\* What a command does before it hands over to the thread.
Prepared(s, cmd, k) ==
    CASE cmd = "user" -> cetus_users_write_json(s, k)
      [] cmd = "reload_user" -> chassis_config_query_object(s, "users", TRUE)
      [] cmd \in {"reload", "reload_variables"} -> s
      [] OTHER -> Arguments(s, cmd, k)

\* The command of client c arrives (process_admin_sql).  create vdb and the like are answered at
\* once; with a local configuration all but config reload are, the files being written in place;
\* the others raise the flag.
RCCommand(c, cmd) ==
    /\ MainMay
    /\ rc.cli[c].st # "waiting" /\ rc.mix.cmds > 0 /\ cmd \in rc.mix.kinds
    /\ LET k == IF cmd \in Reloads THEN rc.made ELSE rc.made + 1
           s == [rc EXCEPT !.mix.cmds = @ - 1, !.made = k,
                           !.cli[c] = [st |-> "waiting", cmd |-> cmd, change |-> k, ans |-> "none",
                                       alone |-> /\ rc.thr.pc = "poll" /\ ~rc.word.update
                                                 /\ \A d \in DOMAIN rc.cli : rc.cli[d].st # "waiting",
                                       saw |-> CASE cmd = "reload" -> {rc.opt}
                                                 [] cmd = "reload_user" -> rc.store["users"]
                                                 [] cmd = "reload_variables" -> rc.store["variables"]
                                                 [] OTHER -> {}]]
           \* what the others go by is no longer theirs alone
           t == [s EXCEPT !.cli = [d \in DOMAIN @ |-> IF d = c THEN @[d] ELSE [@[d] EXCEPT !.alone = FALSE]]]
       IN rc' = CASE cmd = "sharding" -> Ended(shard_conf_write_json(t, k), c, "ok")
                  [] rc.mix.local /\ cmd = "user" -> Ended(cetus_users_write_json(t, k), c, "ok")
                  [] rc.mix.local /\ cmd = "reload_user" ->
                         LET q == chassis_config_query_object(t, "users", TRUE)
                         IN Ended([q EXCEPT !.mem["users"] = q.cache["users"][1]], c, "ok")
                  [] rc.mix.local /\ cmd = "reload_variables" -> Ended(t, c, "error")
                  [] OTHER -> [Prepared(t, cmd, k) EXCEPT !.main = [@ EXCEPT !.pc = "flag", !.cli = c, !.cmd = cmd]]

\* admin_set_remote_config and its five likes: options_update_flag first,
RaiseFlag ==
    /\ Alive /\ rc.main.pc = "flag"
    /\ rc' = [rc EXCEPT !.word = [Loaded("main") EXCEPT !.update = TRUE], !.main.snap = <<>>,
                        !.main.pc = "type"]

\* then what is to be done,
SetType ==
    /\ Alive /\ rc.main.pc = "type"
    /\ rc' = [rc EXCEPT !.type = rc.main.cmd, !.main.pc = "retries"]

\* then the one timer of the process, which forgets whom it served before.
ArmTimer ==
    /\ Alive /\ rc.main.pc = "retries"
    /\ rc' = [rc EXCEPT !.word = [Loaded("main") EXCEPT !.retries = 1], !.main.snap = <<>>,
                        !.main.pc = "loop", !.timer = rc.main.cli]

-----------------------------------------------------------------------------
(* The remote-config thread.  A remote call may fail while the mix allows.   *)

\* retrieve_remote_config_mainloop
Poll ==
    /\ ThreadMay /\ rc.thr.pc = "poll" /\ rc.word.update /\ rc.type # "none"
    /\ rc' = [rc EXCEPT !.thr.pc = "call", !.thr.op = rc.type, !.thr.link = TRUE]

\* chassis_config_mysql_write_object, for the accounts and the rules.  The text of a NULL
\* user_data is "(null)".
chassis_config_mysql_write_object(s) ==
    [s EXCEPT !.store["users"] = IF s.data = <<>> THEN {0} ELSE s.data[1],
              !.cache["users"] = IF s.data = <<>> THEN <<>> ELSE s.data]

\* chassis_config_set_remote_options and chassis_config_set_remote_backends.
chassis_config_set_remote(s) ==
    [s EXCEPT !.opt = IF \E i \in DOMAIN s.args : s.args[i][1] = "option" THEN s.args[1][2] ELSE @,
              !.store = [o \in Objects |->
                            IF \E i \in DOMAIN s.args : s.args[i][1] = o
                            THEN (CHOOSE i \in {<<o, s.args[j][2]>> : j \in {j \in DOMAIN s.args : s.args[j][1] = o}} : TRUE)[2]
                            ELSE @[o]]]

\* What the call leaves behind when it succeeds: chassis_config_load_options_mysql,
\* chassis_config_mysql_query_object and chassis_config_reload_variables fill a cache.
Called(s, cmd) ==
    CASE cmd = "reload" -> [s EXCEPT !.options = s.opt]
      [] cmd = "reload_user" -> [s EXCEPT !.cache["users"] = <<s.store["users"]>>]
      [] cmd = "reload_variables" -> [s EXCEPT !.cache["variables"] = <<s.store["variables"]>>]
      [] cmd = "user" -> chassis_config_mysql_write_object(s)
      [] OTHER -> chassis_config_set_remote(s)

\* The call, with the connection it opens and closes.
Call ==
    /\ ThreadMay /\ rc.thr.pc = "call" /\ ~rc.mix.local
    /\ rc' = [Called(rc, rc.thr.op) EXCEPT !.thr.pc = "first", !.thr.ok = TRUE]

CallFails_wrong ==
    /\ ThreadMay /\ rc.thr.pc = "call" /\ rc.mix.fails > 0 /\ ~rc.mix.local
    /\ rc' = [rc EXCEPT !.mix.fails = @ - 1, !.thr.pc = "first", !.thr.ok = TRUE]

\* A query that fails.
CallFails ==
    /\ ThreadMay /\ rc.thr.pc = "call" /\ rc.mix.fails > 0 /\ ~rc.mix.local
    /\ rc' = [rc EXCEPT !.mix.fails = @ - 1, !.thr.pc = "first", !.thr.ok = FALSE]

\* Of two statements about the backends the first may have been done.
HalfFails ==
    /\ ThreadMay /\ rc.thr.pc = "call" /\ rc.mix.fails > 0 /\ ~rc.mix.local
    /\ rc.thr.op = "backend" /\ Len(rc.args) = 2
    /\ rc' = [chassis_config_set_remote([rc EXCEPT !.args = <<@[1]>>])
                 EXCEPT !.args = rc.args, !.mix.fails = @ - 1, !.thr.pc = "first", !.thr.ok = FALSE]

\* No connection: the settings and the variables leave the flag up, and are tried again at once;
\* the accounts and the writes report the failure, but for chassis_config_mysql_write_object, which
\* also leaves the flag up, and whose user_data is freed all the same.
ConnectFails ==
    /\ ThreadMay /\ rc.thr.pc = "call" /\ (rc.mix.local \/ rc.mix.fails > 0)
    /\ rc' = [rc EXCEPT !.mix.fails = IF rc.mix.local THEN @ ELSE @ - 1,
                        !.data = IF rc.thr.op = "user" THEN <<>> ELSE @,
                        !.unlinked = @ \/ rc.thr.op = "user",
                        !.thr.link = FALSE,
                        !.thr.pc = IF rc.thr.op \in {"reload", "reload_variables", "user"}
                                   THEN "poll" ELSE "first",
                        !.thr.ok = FALSE]

\* The two stores at the end of a call: options_update_flag goes down before options_success_flag
\* is stored, but for most of the failures.
FlagFirst ==
    rc.thr.ok \/ rc.thr.op \in {"user", "reload_variables"} \/ (~rc.thr.link /\ rc.thr.op \in Writes)

RCStored(w, flag) == IF flag THEN [w EXCEPT !.update = FALSE] ELSE [w EXCEPT !.success = rc.thr.ok]

FirstStore ==
    /\ ThreadMay /\ rc.thr.pc = "first"
    /\ rc' = [rc EXCEPT !.word = RCStored(Loaded("thr"), FlagFirst), !.thr.snap = <<>>, !.thr.pc = "second"]

SecondStore ==
    /\ ThreadMay /\ rc.thr.pc = "second"
    /\ rc' = [rc EXCEPT !.word = RCStored(Loaded("thr"), ~FlagFirst), !.thr.snap = <<>>,
                        !.thr.pc = IF rc.thr.op = "user" THEN "free" ELSE "poll"]

\* user_data is freed after the flag is down.
FreeData ==
    /\ ThreadMay /\ rc.thr.pc = "free"
    /\ rc' = [rc EXCEPT !.data = <<>>, !.thr.pc = "poll"]

-----------------------------------------------------------------------------
(* The callbacks of the timer.                                               *)

\* send_admin_resp answers the waiting client, and frees its connection.
send_admin_resp(s, a) == [Ended(s, s.timer, a) EXCEPT !.timer = 0]

\* The callbacks of config reload, config reload user and config reload variables bring what was
\* read into force, and read it from the event loop when the thread has left nothing.
InForce(s, cmd) ==
    CASE cmd = "reload" -> [s EXCEPT !.memopt = s.options]
      [] cmd \in {"reload_user", "reload_variables"} ->
             LET o == IF cmd = "reload_user" THEN "users" ELSE "variables"
                 q == chassis_config_query_object(s, o, FALSE)
             IN [q EXCEPT !.mem[o] = q.cache[o][1]]
      [] OTHER -> s

Cmd == rc.cli[rc.timer].cmd

\* The update flag is down: the client learns how it went.  admin_update_remote_backend_callback
\* also frees the arguments.
Freed(s, cmd) == [s EXCEPT !.args = IF cmd \in {"ro", "rw", "backend"} THEN <<>> ELSE @]

TimerDone ==
    /\ MainMay /\ rc.timer # 0 /\ ~rc.word.update
    /\ rc' = IF rc.word.success
             THEN Freed(send_admin_resp(InForce(rc, Cmd), "ok"), Cmd)
             ELSE Freed(send_admin_resp(rc, "error"), Cmd)

\* The cache is empty and the remote database does not answer the event loop: an error is queued,
\* but the client goes on waiting.
TimerReadFails ==
    /\ MainMay /\ rc.timer # 0 /\ ~rc.word.update /\ rc.word.success /\ rc.mix.fails > 0
    /\ \/ Cmd = "reload_user" /\ rc.cache["users"] = <<>>
       \/ Cmd = "reload_variables" /\ rc.cache["variables"] = <<>>
    /\ rc' = [rc EXCEPT !.mix.fails = @ - 1, !.timer = 0]

\* The flag is still up: one more of the retries.
TimerRetry ==
    /\ MainMay /\ rc.timer # 0 /\ rc.word.update
    /\ rc' = [rc EXCEPT !.main.pc = "bump"]

Bump_wrong ==
    /\ Alive /\ rc.main.pc = "bump"
    /\ rc' = [rc EXCEPT !.word = [Loaded("main") EXCEPT !.retries = (@ + 1) % RCRetries],
                        !.main.snap = <<>>, !.main.pc = "loop"]

\* The bit-field wraps: the client is told of a timeout, the flag stays as it is.
Bump ==
    /\ Alive /\ rc.main.pc = "bump"
    /\ LET w == Loaded("main")
           s == [rc EXCEPT !.word = [w EXCEPT !.retries = (@ + 1) % RCRetries], !.main.snap = <<>>,
                           !.main.pc = "loop"]
       IN rc' = IF s.word.retries = 0 THEN Freed(send_admin_resp(s, "timeout"), Cmd) ELSE s

-----------------------------------------------------------------------------

MainStep == RaiseFlag \/ SetType \/ ArmTimer \/ TimerDone \/ TimerRetry \/ Bump
ThreadStep == Poll \/ Call \/ ConnectFails \/ FirstStore \/ SecondStore \/ FreeData

RCNext ==
    \/ \E o \in {"users", "variables", "option"} : RCEdit(o)
    \/ \E c \in DOMAIN rc.cli, cmd \in Writes \cup Reloads \cup {"sharding"} : RCCommand(c, cmd)
    \/ RaiseFlag \/ SetType \/ ArmTimer
    \/ Poll \/ Call \/ CallFails \/ HalfFails \/ ConnectFails
    \/ FirstStore \/ SecondStore \/ FreeData
    \/ TimerDone \/ TimerReadFails \/ TimerRetry \/ Bump
    \/ \E t \in {"main", "thr"} : RCLoad(t)

\* The event loop and the thread are scheduled, the timer fires.
RCFairness == WF_rc(MainStep) /\ WF_rc(ThreadStep)

-----------------------------------------------------------------------------

\* The shared record and the clients keep their shape.
RCTypeOK ==
    rc.pc = "up" =>
        /\ rc.word \in Word
        /\ rc.thr.pc \in {"poll", "call", "first", "second", "free"}
        /\ rc.main.pc \in {"loop", "flag", "type", "retries", "bump"}
        /\ rc.timer # 0 => rc.cli[rc.timer].st = "waiting"

\* "set", "update backends", "update user": when the client reads OK, the remote database holds
\* its change (admin_set_remote_config_callback and its likes).  The command was alone: nothing
\* was in the thread's hands when it came, and no other came before its answer.
OkIsStored ==
    rc.pc = "up" /\ rc.mix.calm /\ ~rc.mix.local /\ ~rc.unlinked =>
        \A c \in DOMAIN rc.cli :
            LET i == rc.cli[c] IN
            i.ans = "ok" /\ i.alone =>
                /\ i.cmd = "set" => rc.opt >= i.change
                /\ i.cmd = "user" => i.change \in rc.store["users"]
                /\ i.cmd \in {"ro", "backend"} => i.change \in rc.store["ro"]
                /\ i.cmd = "rw" => i.change \in rc.store["rw"]

\* The accounts of the remote database are never overwritten by the text of a NULL pointer: what
\* retrieve_remote_config_mainloop frees it does not write again, one administrator working at a
\* time and every write of the accounts finding its connection.
StoreIntact ==
    rc.pc = "up" /\ rc.mix.calm /\ rc.mix.clients = 1 /\ ~rc.unlinked => 0 \notin rc.store["users"]

\* The objects table holds JSON (doc/cetus-configuration.md, `objects`): what
\* chassis_config_mysql_write_object stores there is never the text of a NULL user_data.
ObjectsAreJson ==
    rc.pc = "up" => 0 \notin rc.store["users"]

\* A client answered OK to "config reload user" or "config reload variables" finds in force at
\* least what the remote database held when it asked (admin_update_user, admin_update_variables).
ReloadInForce ==
    rc.pc = "up" /\ rc.mix.calm /\ ~rc.mix.local =>
        \A c \in DOMAIN rc.cli :
            LET i == rc.cli[c] IN
            i.ans = "ok" /\ i.alone =>
                /\ i.cmd = "reload_user" => i.saw \subseteq rc.mem["users"]
                /\ i.cmd = "reload_variables" => i.saw \subseteq rc.mem["variables"]
                /\ i.cmd = "reload" => \A k \in i.saw : rc.memopt >= k

Waits(c) == rc.pc = "up" /\ rc.mix.calm /\ c \in DOMAIN rc.cli /\ rc.cli[c].st = "waiting" /\ rc.cli[c].alone

\* Every administrator who is alone is answered, the remote database answering or not: the
\* retries run out (the callbacks of the timer).
RCAnswered ==
    \A c \in {1, 2} : Waits(c) ~> ~Waits(c)

\* An answer of the remote configuration can be relied on: OK to a change means that it is stored,
\* OK to a reload that it is in force, and what is stored was never freed before
\* (retrieve_remote_config_mainloop against the callbacks of admin-commands.c).
RemoteInv == RCTypeOK /\ OkIsStored /\ StoreIntact /\ ReloadInForce
=============================================================================
