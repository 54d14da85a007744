SPECIFICATION LiveSpec
CONSTANTS
  Groups = {1, 2}
  ClientStmts = {"START", "COMMIT", "ROLLBACK", "WRITE"}
  Nested = FALSE
  Faults = {"timeout", "shortage"}
  PreparedInTrans = TRUE
INVARIANT TranInv
PROPERTIES EveryStatementAnswered  ImplementsAtomicCommit
