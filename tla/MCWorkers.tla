------------------------------ MODULE MCWorkers ------------------------------
(***************************************************************************)
(* Two workers and two admin connections; each mix of the environment's    *)
(* budgets is one family of behaviours.                                    *)
(***************************************************************************)
EXTENDS Workers

Quiet == [fail |-> 0, crash |-> 0, race |-> FALSE, term |-> 0, quit |-> 0, noaccept |-> 0,
          change |-> 0, query |-> 0, kinds |-> {}, cons |-> {1}, drop |-> 0, slow |-> 0]

MCMixes == {
    [Quiet EXCEPT !.crash = 2],
    [Quiet EXCEPT !.crash = 1, !.term = 1],
    [Quiet EXCEPT !.crash = 1, !.race = TRUE],
    [Quiet EXCEPT !.crash = 1, !.fail = 1],
    [Quiet EXCEPT !.query = 2, !.kinds = {"show", "one"}, !.cons = Cons, !.term = 1],
    [Quiet EXCEPT !.query = 2, !.kinds = {"show"}, !.cons = Cons, !.crash = 1],
    [Quiet EXCEPT !.query = 2, !.kinds = {"conf", "conf0"}, !.crash = 1],
    [Quiet EXCEPT !.query = 1, !.kinds = {"conf"}, !.crash = 2],
    [Quiet EXCEPT !.query = 1, !.kinds = {"show"}, !.quit = 1],
    [Quiet EXCEPT !.noaccept = 1, !.change = 1, !.crash = 1, !.fail = 1],
    [Quiet EXCEPT !.query = 1, !.kinds = {"show"}, !.drop = 1, !.term = 1],
    [Quiet EXCEPT !.query = 2, !.kinds = {"show"}, !.slow = 1],
    [Quiet EXCEPT !.query = 1, !.kinds = {"given"}]}

\* What refutes KillReachesOwner (a respawned worker) and ChangeInForce (a statement between the
\* change and the death of a worker).
KillMixes == {[Quiet EXCEPT !.query = 1, !.kinds = {"given"}, !.crash = 1]}
ConfMixes == {[Quiet EXCEPT !.query = 2, !.kinds = {"conf", "show"}, !.cons = Cons, !.crash = 1]}
=============================================================================
