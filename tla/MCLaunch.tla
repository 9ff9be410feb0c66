------------------------------ MODULE MCLaunch ------------------------------
(* Build machines, complete or lacking something, and the hosts their        *)
(* wheels are installed on, each with the configurations that matter there.  *)
EXTENDS Launch, TLC

CONSTANTS slirp, glib, pcre, libc, s1, s2

Graph(q, img) ==
    [f \in Files |->
        CASE f = "qemu" -> q [] f = "img" -> img
          [] f = slirp -> {glib, libc} [] f = glib -> {pcre, libc}
          [] f = pcre -> {glib, libc} [] OTHER -> {libc}]
Machine(os, needs, missing, installed_, lacks, n) ==
    [os |-> os, arch |-> IF n = 2 \/ os = "darwin" THEN "arm64" ELSE "x86_64",
     needs |-> needs, system |-> {libc}, missing |-> missing, unknown |-> {pcre},
     glibc |-> [f \in Files |-> CASE f = "accel" -> 3 [] f = glib -> 2 [] OTHER -> 1],
     tools |-> installed_, lacks |-> lacks, attempts |-> n]

Usual == Graph({slirp, libc}, {glib, libc})
OldSlirp == Graph({glib, libc}, {slirp, libc})
Systems == {"linux", "darwin", "windows"}
Good(os) == Machine(os, Usual, {}, Tools, {}, 1)
\* Builds that fail, are interrupted and start again; their wheels are installed.
Others ==
    {Machine(os, Usual, {}, Tools, lacks, 3) : os \in Systems, lacks \in {{}, {"modules"}}}
    \cup {Machine(os, Usual, {l}, Tools, {}, 1) : os \in Systems, l \in {slirp, glib, pcre}}
    \cup {Machine(os, Usual, {}, Tools, {what}, 1) : os \in Systems, what \in {"bios", "licence"}}
    \cup {Machine(os, Usual, {}, there, lacks, 2) :
        os \in {"linux", "darwin"}, lacks \in {{}, {"manager"}},
        there \in {{}, {"qemu"}, {"qemu", "qemu-img"}}}
    \cup {Machine("darwin", OldSlirp, {}, Tools, {}, 2), Machine("darwin", OldSlirp, {}, Tools, {}, 1),
          Machine("darwin", Usual, {}, Tools \ {"meson"}, {"manager"}, 2),
          Machine("windows", Usual, {}, Tools, {"bios"}, 2)}
MCMachines == Others \cup {Good(os) : os \in Systems}

Bare == [arch |-> None, image |-> "base", mode |-> "FULL", accel |-> "auto", wait |-> 60,
         dns |-> "auto", display |-> FALSE, forwards |-> <<>>]
FromHost(port) == [from |-> "host", at |-> <<"127.0.0.1", port>>]
FromGuest(address, port) == [from |-> "guest", at |-> <<address, port>>]
One(c) == s1 :> c
Both(c, d) == s1 :> c @@ s2 :> d

Host(m, arch, wants) ==
    [built |-> m, os |-> m.os, arch |-> arch, python |-> m.arch, glibc |-> 3,
     pip |-> TRUE, hv |-> "ready", system |-> {arch}, manager |-> "none",
     images |-> {"amd64", "arm64"}, index |-> FALSE, native |-> FALSE, save |-> NoSave,
     saves |-> FALSE, others |-> FALSE, ports |-> {1, 2, 3, 4}, wants |-> wants]

Modes == {"NONE", "MOUNTS_ONLY", "FULL"}
Forwarded ==
    {<<>>, <<FromHost(4)>>, <<FromHost(4), FromHost(4)>>,
     <<FromGuest(None, 80), FromGuest("10.0.2.101", 80)>>, <<FromGuest(None, 80)>>,
     <<FromGuest("10.0.2.100", 445)>>, <<FromGuest("10.0.2.2", 80)>>,
     <<FromGuest("192.168.1.7", 80)>>}

WheelHosts == {Host(m, m.arch, <<>>) : m \in Others}
              \cup {[Host(Good("linux"), "x86_64", <<>>) EXCEPT !.glibc = g] : g \in {1, 2}}
ModeHosts ==
    {[Host(Good(os), Good(os).arch, One([Bare EXCEPT !.mode = mode, !.forwards = fs])) EXCEPT
        !.ports = {1, 2, 3}] :
        os \in {"linux", "darwin"}, mode \in Modes, fs \in Forwarded}
    \cup {[Host(Good("windows"), "x86_64", One([Bare EXCEPT !.mode = mode, !.forwards = fs])) EXCEPT
            !.native = native] :
        mode \in Modes, native \in BOOLEAN,
        fs \in {<<>>, <<FromGuest("10.0.2.101", 80)>>, <<FromGuest("10.0.2.100", 445)>>}}
    \cup {Host(Good("darwin"), "arm64", One([Bare EXCEPT !.dns = dns])) : dns \in {"on", "off"}}
    \cup {Host(Machine("darwin", OldSlirp, {}, Tools, {}, 1), "arm64", One(Bare))}
ArchHosts ==
    {[Host(Good(os), arch,
           One([Bare EXCEPT !.arch = label, !.accel = accel, !.wait = wait, !.mode = "NONE"])) EXCEPT
        !.hv = hv, !.pip = pip, !.system = Arches, !.images = there,
        !.ports = IF os = "linux" THEN {1, 2} ELSE {1, 2, 3}] :
        os \in {"linux", "windows"}, arch \in Arches, label \in {None, "arm64"},
        accel \in {"auto", None, "kvm"}, wait \in {60, 90}, hv \in {"ready", "absent"},
        pip \in BOOLEAN, there \in {{"amd64", "arm64"}, {"any"}}}
    \cup {[Host(Good("linux"), "x86_64", One([Bare EXCEPT !.arch = label])) EXCEPT
            !.pip = FALSE, !.hv = "denied", !.ports = {1, 2}] : label \in {None, "aarch64"}}
InstallHosts ==
    {[Host(Good("linux"), arch, One([Bare EXCEPT !.arch = label])) EXCEPT
        !.pip = FALSE, !.system = {}, !.manager = manager, !.images = {}, !.index = index,
        !.ports = {1, 2}] :
        arch \in Arches, label \in {None, "arm64"}, index \in BOOLEAN,
        manager \in {"apt", "dnf", "brew", "none"}}
\* A save of an emulated sandbox, one from another host, and their loading.
SaveHosts ==
    {[Host(Good("linux"), "x86_64",
           Both([Bare EXCEPT !.arch = label, !.mode = "NONE"],
                [Bare EXCEPT !.image = "save", !.mode = "NONE"]))
        EXCEPT !.pip = FALSE, !.system = Arches, !.save = save, !.saves = TRUE, !.ports = {1, 2}] :
        label \in {None, "arm64"},
        save \in {NoSave, [recorded |-> "arm64", disk |-> "arm64"],
                  [recorded |-> None, disk |-> "x86_64"]}}
\* Two sandboxes and a program that want the same ports.
PortHosts ==
    {[Host(Good("linux"), "x86_64", Both([Bare EXCEPT !.display = d], [Bare EXCEPT !.display = d]))
        EXCEPT !.pip = FALSE, !.others = ~d, !.ports = {1, 2, 3}] : d \in BOOLEAN}
    \cup {[Host(Good("windows"), "x86_64",
                Both([Bare EXCEPT !.mode = "NONE"], [Bare EXCEPT !.mode = "NONE"]))
            EXCEPT !.pip = FALSE, !.ports = {1, 2, 3}]}
\* The host's own architecture, named: by a name of it that saves record, and
\* by the one in the names of image files.
AliasHosts ==
    {[Host(Good("linux"), "x86_64", One([Bare EXCEPT !.arch = "amd64"])) EXCEPT
        !.pip = FALSE, !.ports = {1, 2}],
     [Host(Good("linux"), "x86_64", One([Bare EXCEPT !.arch = "x86_64"])) EXCEPT
        !.pip = FALSE, !.images = {"any"}, !.ports = {1, 2}]}

MCHosts == WheelHosts \cup ModeHosts \cup ArchHosts \cup InstallHosts \cup SaveHosts
           \cup PortHosts \cup AliasHosts
=============================================================================
