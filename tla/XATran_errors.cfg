SPECIFICATION Spec
CONSTANTS
  Groups = {1, 2}
  ClientStmts = {"START", "AC0", "AC1", "COMMIT", "ROLLBACK", "WRITE", "READ"}
  Nested = FALSE
  Faults = {"err", "dup", "rb", "xaer", "shortage", "aged", "quit"}
  PreparedInTrans = TRUE
INVARIANTS TranInv OneResult
PROPERTY ImplementsAtomicCommit
