SPECIFICATION Spec
CONSTANTS
    Gnbs = {"A", "B", "C"}
    Source = "A"
    Ues = {"u1", "u2"}
    Usable = 2
    MaxHops = 3
CHECK_DEADLOCK FALSE
INVARIANTS TypeOK ServedOnce AcceptedCompletes
PROPERTIES AdoptsOwnContext HandoverEnds
