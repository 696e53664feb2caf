SPECIFICATION Spec
CONSTANTS
  Place = {"history", "root", "group"}
  MaxHappen = 3
INVARIANTS TypeOK CallsInFlight 
 
CHECK_DEADLOCK FALSE
