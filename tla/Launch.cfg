SPECIFICATION LaunchSpec
CONSTANTS
    slirp = slirp
    glib = glib
    pcre = pcre
    libc = libc
    s1 = s1
    s2 = s2
    Libs = {slirp, glib, pcre, libc}
    Slirp = slirp
    RecursionLimit = 3
    Machines <- MCMachines
    Hosts <- MCHosts
INVARIANTS
    WheelsBuildAndRun
    OwnPeers
    GuestReachesItsHost
    EmulationFits
CHECK_DEADLOCK FALSE
