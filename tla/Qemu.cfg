SPECIFICATION QemuSpec
CONSTANTS
    Users = {u1, u2}
    HostWait = 1
    ReaperWait = 3
    Sessions <- MCSessions
    None = None
INVARIANTS
    CallsStayInStep
    OrphansAreSlow
PROPERTIES
    HostDeathKillsQemu
CHECK_DEADLOCK FALSE
