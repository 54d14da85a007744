---------------------------- MODULE AtomicCommit ----------------------------
(***************************************************************************)
(* What a distributed transaction of the sharding build promises: its      *)
(* writes on the groups are all committed or none is. A branch here is the *)
(* part of the transaction on one group that has written; XATran shows     *)
(* that the proxy's XA state machine implements this specification.        *)
(***************************************************************************)
EXTENDS Naturals

CONSTANT Groups

VARIABLES
    branch,      \* the state of the writes of the transaction on each group
    committing   \* has commit been decided for the transaction

vars == <<branch, committing>>

BranchStates == {"none", "working", "prepared", "committed", "aborted"}

(* A branch is a function of the groups; committing is a flag.             *)
TypeOK ==
    /\ branch \in [Groups -> BranchStates]
    /\ committing \in BOOLEAN

Init ==
    /\ branch = [g \in Groups |-> "none"]
    /\ committing = FALSE

(* The first write of the transaction on a group.                          *)
Work(g) ==
    /\ ~committing
    /\ branch[g] = "none"
    /\ branch' = [branch EXCEPT ![g] = "working"]
    /\ UNCHANGED committing

Prepare(g) ==
    /\ branch[g] = "working"
    /\ branch' = [branch EXCEPT ![g] = "prepared"]
    /\ UNCHANGED committing

(* A branch is rolled back: on request, or because its connection is lost. *)
Abort(g) ==
    /\ ~committing
    /\ branch[g] \in {"working", "prepared"}
    /\ branch' = [branch EXCEPT ![g] = "aborted"]
    /\ UNCHANGED committing

(* Phase two begins when every branch is prepared.                         *)
DecideCommit ==
    /\ ~committing
    /\ \A g \in Groups : branch[g] \in {"none", "prepared"}
    /\ committing' = TRUE
    /\ UNCHANGED branch

Commit(g) ==
    /\ committing
    /\ branch[g] = "prepared"
    /\ branch' = [branch EXCEPT ![g] = "committed"]
    /\ UNCHANGED committing

(* A wrong form, which the properties refute.                              *)
CommitOnePhase_wrong(g) ==
    /\ ~committing
    /\ branch[g] = "working"
    /\ branch' = [branch EXCEPT ![g] = "committed"]
    /\ committing' = TRUE

(* The only branch that wrote decides alone.                               *)
CommitOnePhase(g) ==
    /\ ~committing
    /\ branch[g] = "working"
    /\ \A h \in Groups \ {g} : branch[h] = "none"
    /\ branch' = [branch EXCEPT ![g] = "committed"]
    /\ committing' = TRUE

(* The client begins another transaction, with another xid.                *)
NewTransaction ==
    /\ branch' = [g \in Groups |-> "none"]
    /\ committing' = FALSE

Next ==
    \/ \E g \in Groups : Work(g) \/ Prepare(g) \/ Abort(g) \/ Commit(g) \/ CommitOnePhase(g)
    \/ DecideCommit
    \/ NewTransaction

Spec == Init /\ [][Next]_vars

-----------------------------------------------------------------------------
(* All or nothing: no write is committed while another one is rolled back. *)
Atomic == ~ \E g, h \in Groups : branch[g] = "committed" /\ branch[h] = "aborted"

(* What makes Atomic inductive: nothing is committed before the decision,  *)
(* and after it there is nothing left that could still fail.               *)
DecisionInv ==
    /\ TypeOK
    /\ \A g \in Groups :
        /\ branch[g] = "committed" => committing
        /\ committing => branch[g] \in {"none", "prepared", "committed"}
=============================================================================
