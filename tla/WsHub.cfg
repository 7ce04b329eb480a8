\* Two connections and one change of the device list.
SPECIFICATION Spec
CONSTANTS
    Sockets = {c1, c2}
    MaxChanges = 1
INVARIANTS LoopServesTheConnected ConnectedStayActive
PROPERTIES ClientsConverge LeaversAreForgotten
CHECK_DEADLOCK FALSE
