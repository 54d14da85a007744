SPECIFICATION Spec
CONSTANTS
  Groups = {1, 2}
  ClientStmts = {"START", "COMMIT", "ROLLBACK", "WRITE"}
  Nested = FALSE
  Faults = {"querydrop"}
  PreparedInTrans = TRUE
INVARIANT TranInv
