SPECIFICATION Spec
CONSTANTS
  Groups = {1, 2, 3}
  ClientStmts = {"START", "COMMIT", "ROLLBACK", "WRITE"}
  Nested = FALSE
  Faults = {"enddrop"}
  PreparedInTrans = FALSE
INVARIANT Agreement
 
