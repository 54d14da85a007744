------------------------- MODULE AtomicCommitProofs -------------------------
(***************************************************************************)
(* Atomic holds of AtomicCommit for every set of groups.                   *)
(***************************************************************************)
EXTENDS AtomicCommit, TLAPS

(* Before the first statement nothing is decided and nothing is written.   *)
LEMMA InitDecision == Init => DecisionInv
  BY DEF Init, DecisionInv, TypeOK, BranchStates

(* Each action keeps the decision ahead of the commits and behind the      *)
(* prepares.                                                               *)
LEMMA NextDecision == DecisionInv /\ [Next]_vars => DecisionInv'
<1> SUFFICES ASSUME DecisionInv, [Next]_vars PROVE DecisionInv'
  OBVIOUS
<1> USE DEF DecisionInv, TypeOK, BranchStates
<1>1. ASSUME NEW g \in Groups, Work(g) PROVE DecisionInv'
  BY <1>1 DEF Work
<1>2. ASSUME NEW g \in Groups, Prepare(g) PROVE DecisionInv'
  BY <1>2 DEF Prepare
<1>3. ASSUME NEW g \in Groups, Abort(g) PROVE DecisionInv'
  BY <1>3 DEF Abort
<1>4. ASSUME NEW g \in Groups, Commit(g) PROVE DecisionInv'
  BY <1>4 DEF Commit
<1>5. ASSUME NEW g \in Groups, CommitOnePhase(g) PROVE DecisionInv'
  BY <1>5 DEF CommitOnePhase
<1>6. CASE DecideCommit
  BY <1>6 DEF DecideCommit
<1>7. CASE NewTransaction
  BY <1>7 DEF NewTransaction
<1>8. CASE UNCHANGED vars
  BY <1>8 DEF vars
<1> QED
  BY <1>1, <1>2, <1>3, <1>4, <1>5, <1>6, <1>7, <1>8 DEF Next

(* A committed branch implies the decision, and the decision excludes an   *)
(* aborted one.                                                            *)
LEMMA DecisionIsAtomic == DecisionInv => Atomic
  BY DEF DecisionInv, Atomic

(* The inductive invariant of the abstract specification.                  *)
THEOREM DecisionAlways == Spec => []DecisionInv
  BY InitDecision, NextDecision, PTL DEF Spec

(* All or nothing, for any number of groups: what XATran inherits by       *)
(* implementing AtomicCommit.                                              *)
THEOREM AtomicAlways == Spec => []Atomic
  BY DecisionAlways, DecisionIsAtomic, PTL
=============================================================================
