SPECIFICATION Spec
CONSTANTS
    Gnbs = {"A", "B"}
    Source = "A"
    Ues = {"u1", "u2"}
    Usable = 2
    MaxHops = 2
CHECK_DEADLOCK FALSE
INVARIANT TunnelKept
