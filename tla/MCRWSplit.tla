------------------------------ MODULE MCRWSplit ------------------------------
(***************************************************************************)
(* Workloads of RWSplit for TLC.  Each names the statements clients send,  *)
(* the failures that happen and the settings of the proxy.                 *)
(***************************************************************************)
EXTENDS RWSplit

Symmetry == Permutations(Clients) \cup Permutations(Socks)

Plain == {"select", "update", "begin", "commit", "quit"}
PassMixes == {
    Plain \cup {"two_clients", "lost", "reduce_conns"},
    {"update", "commit", "ac0", "ac1", "two_clients"},
    {"select", "update", "prep", "exec", "close", "two_clients"},
    Plain \cup {"error", "ac0", "ac1"},
    Plain \cup {"error", "found", "ro_select", "rw_select", "read_master_50", "reduce_conns"},
    Plain \cup {"error", "settran", "unsettran"},
    Plain \cup {"error", "lost", "down", "idle"},
    Plain \cup {"lost", "failover"},
    {"select", "update", "use", "local", "ping", "warning", "lost"},
    Plain \cup {"prep", "exec", "close", "lost"},
    Plain \cup {"rw_select", "ro_select", "master_preferred", "down"},
    Plain \cup {"ro_select", "read_master_100", "found", "down"},
    {"select", "ro_select", "prep", "ro_prep", "exec", "close", "quit", "refresh"}}

\* A client that pings its connection in a transaction.
PingMixes == {Plain \cup {"ping"}}
=============================================================================
