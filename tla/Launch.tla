------------------------------- MODULE Launch -------------------------------
(***************************************************************************)
(* From the wheel to a running sandbox: the QEMU wheel that WheelBuild     *)
(* makes is installed on a host, and sandboxes are started there by the    *)
(* phases of Sandbox.start(): image, accelerator, runtime, ports, servers, *)
(* command line, QEMU, guest agent, QMP.                                   *)
(*                                                                         *)
(* Ports are looked up before they are used: another process, or another   *)
(* sandbox, may take one in between.  Several sandboxes share the ports of *)
(* their host.                                                             *)
(*                                                                         *)
(* The abstraction of the command line is what QEMU does with it: the      *)
(* machine and accelerator, the ports it listens on, and which guest       *)
(* address leads where.  Disks and mounts are in SaveStore and Mounts.     *)
(*                                                                         *)
(* A definition named Action_Slip is Action with a slip a programmer could *)
(* make; the specification does not use it.                                *)
(***************************************************************************)
EXTENDS WheelBuild

CONSTANTS
    Hosts,          \* what is checked: .built (a build machine), .os, .arch (of the
                    \* hardware), .python (of the interpreter), .glibc, .pip, .hv,
                    \* .system (archs with a QEMU on PATH), .manager, .images, .index,
                    \* .native (SMB by Windows), .save, .ports, .wants
    RecursionLimit  \* how often a function may call itself

None == "none"
NoSave == [recorded |-> None, disk |-> None]
Arches == {"x86_64", "arm64"}
Accelerators == {"kvm", "hvf", "whpx", "tcg"}
Saves == [recorded : Arches \cup {None}, disk : Arches \cup {None}]
NoPort == 0
VncPorts == {91, 92}
\* Endpoints are an address and a port.
SmbPort == 445
Tunnel == <<"10.0.2.100", SmbPort>>
Gateway == "10.0.2.2"

ASSUME LaunchAssumption ==
    /\ RecursionLimit \in Nat \ {0}
    /\ \A h \in Hosts :
        /\ h.built \in Machines /\ h.os \in {"linux", "darwin", "windows"}
        /\ {h.arch, h.python} \subseteq Arches /\ h.system \subseteq Arches
        /\ h.hv \in {"ready", "absent", "denied"}
        /\ h.images \subseteq {"amd64", "arm64", "any"} /\ h.glibc \in Nat
        /\ h.save \in Saves
        /\ \A b \in DOMAIN h.wants :
              h.wants[b].accel \in Accelerators \cup {"auto", None} /\ h.wants[b].wait \in Nat
        /\ h.ports \subseteq Nat \ ({NoPort, SmbPort} \cup VncPorts)

VARIABLES
    host,       \* one of Hosts, when the wheel is built
    installed,  \* the wheel is in site-packages
    system,     \* the archs that have a QEMU on PATH
    images,     \* the image files of the image package
    saved,      \* a save: the arch it records and that of its disk
    listening,  \* who listens on each port: <<sandbox, role>> or <<None, "other">>
    box,        \* each Sandbox object and what start() has found so far
    qemu        \* each sandbox's QEMU: "none", "starting", "up", "guest", "exited"
hostVars == <<host, installed, system, images, saved>>
launchVars == <<hostVars, listening, box, qemu>>
allVars == <<buildVars, launchVars>>

NoHost == [wants |-> <<>>, ports |-> {}]
Sandboxes == DOMAIN host.wants
Config(b) == host.wants[b]
Ports == host.ports \cup VncPorts
Free(p) == p \notin DOMAIN listening
FreePorts == {p \in host.ports : Free(p)}

NewBox == [pc |-> "new", tries |-> 0, guest |-> None, disk |-> None, accel |-> None, wait |-> 0,
           runtime |-> None, agentPort |-> NoPort, qmpPort |-> NoPort, vncPort |-> NoPort,
           socketPort |-> NoPort, smbPort |-> NoPort, dnsPort |-> NoPort,
           agent |-> None, qmp |-> None, save |-> NoSave]

LaunchInit ==
    /\ BuildInit
    /\ host = NoHost
    /\ installed = FALSE /\ system = {} /\ images = {} /\ saved = NoSave
    /\ listening = <<>> /\ box = <<>> /\ qemu = <<>>

Goes(b, pc) == box' = [box EXCEPT ![b].pc = pc]
FreedOf(owners) == [p \in {q \in DOMAIN listening : listening[q] \notin owners} |-> listening[p]]

-----------------------------------------------------------------------------
(* The host: pip, the package manager, the image package.                   *)

\* The build is over, and this is where its wheel goes.
Arrive ==
    /\ Over /\ host = NoHost
    /\ host' \in {h \in Hosts : h.built = machine}
    /\ system' = host'.system /\ images' = host'.images /\ saved' = host'.save
    /\ box' = [b \in DOMAIN host'.wants |-> NewBox]
    /\ qemu' = [b \in DOMAIN host'.wants |-> "none"]
    /\ UNCHANGED <<buildVars, installed, listening>>

\* pip goes by the tag: the system and the interpreter's architecture, and on
\* Linux a glibc that is new enough.
PipAccepts ==
    /\ host.os = machine.os /\ host.python = machine.arch
    /\ Linux => tag <= host.glibc

PipInstall ==
    /\ stage = "done" /\ host # NoHost /\ host.pip /\ ~installed /\ PipAccepts
    /\ installed' = TRUE
    /\ UNCHANGED <<buildVars, host, system, images, saved, listening, box, qemu>>

\* ensure_runtime(): QEMU by the package manager where there is none at all.
Packaged ==
    CASE host.manager = "apt" -> {host.arch}
      [] host.manager = "dnf" -> {"x86_64"}
      [] host.manager \in {"brew", "installer"} -> Arches
      [] OTHER -> {}

EnsureRuntime ==
    /\ host # NoHost /\ ~installed /\ host.arch \notin system /\ Packaged # {}
    /\ system' = system \cup Packaged
    /\ UNCHANGED <<buildVars, host, installed, images, saved, listening, box, qemu>>

-----------------------------------------------------------------------------
(* The configuration, which is checked when the object is made.             *)
\* A guest address that is left out is the default one.
Forward(f) ==
    IF f.from = "guest" /\ f.at[1] = None THEN [f EXCEPT !.at[1] = "10.0.2.101"] ELSE f
\* The positions of the forwards of each kind, and what the i-th listens at.
HostForwards(c) == {i \in DOMAIN c.forwards : c.forwards[i].from = "host"}
GuestForwards(c) == {i \in DOMAIN c.forwards : c.forwards[i].from = "guest"}
At(c, i) == Forward(c.forwards[i]).at
Distinct(c, places) == \A i, j \in places : At(c, i) = At(c, j) => i = j
Reserved == {Gateway, "10.0.2.3", "10.0.2.15"}
InSlirpNetwork(address) == address # "192.168.1.7"

ForwardRefused(c, i) ==
    i \in GuestForwards(c) /\ (At(c, i)[1] \in Reserved \/ ~InSlirpNetwork(At(c, i)[1]))

\* Slip: the tunnel of the mounts is forgotten.
ForwardsRefused_NoTunnel(c) ==
    \/ ~Distinct(c, HostForwards(c)) \/ ~Distinct(c, GuestForwards(c))
    \/ GuestForwards(c) # {} /\ c.mode = "NONE"

ForwardsRefused(c) ==
    \/ ~Distinct(c, HostForwards(c)) \/ ~Distinct(c, GuestForwards(c))
    \/ GuestForwards(c) # {} /\ c.mode = "NONE"
    \/ \E i \in GuestForwards(c) : At(c, i) = Tunnel

Refused(c) == (\E i \in DOMAIN c.forwards : ForwardRefused(c, i)) \/ ForwardsRefused(c)

Create(b) ==
    /\ box[b].pc = "new"
    /\ Goes(b, IF Refused(Config(b)) THEN "refused" ELSE "created")
    /\ UNCHANGED <<buildVars, hostVars, listening, qemu>>

-----------------------------------------------------------------------------
(* _resolve_image().  A file is asked for by the label given, or by the     *)
(* host's own; a package without it is reinstalled, and asked again.        *)
from_str(a) == IF a \in {"x86_64", "amd64", "x64"} THEN "x86_64" ELSE "arm64"
image_arch(a) == IF a = "x86_64" THEN "amd64" ELSE "arm64"
_detect_architecture == host.arch

\* What a file holds: an unlabelled one is the host's own.
DiskOf(label) == IF label = "any" THEN host.arch ELSE from_str(label)
Artifact(arch) ==
    LET label == IF arch = None THEN image_arch(_detect_architecture) ELSE arch IN
    IF label \in images THEN label ELSE IF "any" \in images THEN "any" ELSE None

\* The arch the image package is asked for.
SaveIsForeign == saved.recorded # None /\ saved.recorded # _detect_architecture
Asked(b) ==
    IF Config(b).image = "save"
    THEN IF SaveIsForeign THEN image_arch(from_str(saved.recorded)) ELSE None
    ELSE Config(b).arch

\* The image's label differs from the name of the host's architecture.
GuestArch(b) ==
    IF Config(b).image = "save" \/ Asked(b) = None THEN Asked(b)
    ELSE LET guest == image_arch(from_str(Asked(b))) IN
         IF guest # _detect_architecture THEN guest ELSE None

Resolve(b) ==
    /\ box[b].pc = "created"
    /\ Config(b).image = "save" => saved # NoSave
    /\ Artifact(Asked(b)) # None
    /\ box' = [box EXCEPT ![b].pc = "image", ![b].guest = GuestArch(b),
                          ![b].save = IF Config(b).image = "save" THEN saved ELSE NoSave,
                          ![b].disk = IF Config(b).image = "save" THEN saved.disk
                                      ELSE DiskOf(Artifact(Asked(b)))]
    /\ UNCHANGED <<buildVars, hostVars, listening, qemu>>

\* pip brings the wheel of the interpreter's own architecture.
AutoInstall(b) ==
    /\ box[b].pc = "created"
    /\ Config(b).image = "save" => saved # NoSave
    /\ Artifact(Asked(b)) = None /\ host.index /\ box[b].tries < RecursionLimit
    /\ images' = images \cup {image_arch(host.python)}
    /\ box' = [box EXCEPT ![b].tries = @ + 1]
    /\ UNCHANGED <<buildVars, host, installed, system, saved, listening, qemu>>

NoImage(b) ==
    /\ box[b].pc = "created"
    /\ \/ Config(b).image = "save" /\ saved = NoSave
       \/ /\ Config(b).image = "save" => saved # NoSave
          /\ Artifact(Asked(b)) = None /\ (~host.index \/ box[b].tries = RecursionLimit)
    /\ Goes(b, "failed")
    /\ UNCHANGED <<buildVars, hostVars, listening, qemu>>

-----------------------------------------------------------------------------
(* _detect_accelerator().                                                   *)
Kvm == IF host.hv = "ready" THEN "kvm" ELSE "tcg"
Hvf == IF host.hv = "ready" THEN "hvf" ELSE "tcg"
Whpx == IF host.hv = "ready" THEN "whpx" ELSE "tcg"
_detect_os == host.os
Detected ==
    CASE _detect_os = "linux" -> Kvm [] _detect_os = "darwin" -> Hvf [] OTHER -> Whpx

BOOT_DEFAULT == 60
BOOT_TCG == 600
BOOT_WHPX == 120

Chosen(b) ==
    CASE Config(b).accel = "auto" -> Detected
      [] Config(b).accel = None -> "tcg"
      [] OTHER -> Config(b).accel
BootTimeout(b) ==
    CASE Config(b).wait # BOOT_DEFAULT -> Config(b).wait
      [] Chosen(b) = "tcg" -> BOOT_TCG
      [] Chosen(b) = "whpx" -> BOOT_WHPX
      [] OTHER -> BOOT_DEFAULT

\* Slip: the image may be another architecture's.
DetectAccelerator_Native(b) ==
    /\ box[b].pc = "image"
    /\ box' = [box EXCEPT ![b].pc = "accel", ![b].accel = Chosen(b), ![b].wait = BootTimeout(b)]
    /\ UNCHANGED <<buildVars, hostVars, listening, qemu>>

DetectAccelerator(b) ==
    /\ box[b].pc = "image"
    /\ box' = [box EXCEPT ![b].pc = "accel",
                          ![b].accel = IF box[b].guest # None THEN "tcg" ELSE Chosen(b),
                          ![b].wait = IF box[b].guest # None THEN BOOT_TCG ELSE BootTimeout(b)]
    /\ UNCHANGED <<buildVars, hostVars, listening, qemu>>

-----------------------------------------------------------------------------
(* _load_runtime(): the QEMU of the platform config's architecture.  With   *)
(* the wheel installed nothing else is looked for.                          *)
X86_64Config == [arch |-> "x86_64", machine |-> "q35", cpu |-> None]
ARM64Config == [arch |-> "arm64", machine |-> "virt", cpu |-> "max"]
get_platform_config_for_arch(a) == IF from_str(a) = "x86_64" THEN X86_64Config ELSE ARM64Config
Platform(b) ==
    get_platform_config_for_arch(IF box[b].guest # None THEN box[b].guest ELSE _detect_architecture)
ArchConfig(b) == Platform(b).arch

BundledRuntime(b) == IF machine.arch = ArchConfig(b) THEN "bundled" ELSE None
SystemRuntime(b) == IF ArchConfig(b) \in system THEN "system" ELSE None
Runtime(b) == IF installed THEN BundledRuntime(b) ELSE SystemRuntime(b)

LoadRuntime(b) ==
    /\ box[b].pc = "accel"
    /\ box' = [box EXCEPT ![b].pc = IF Runtime(b) = None THEN "failed" ELSE "runtime",
                          ![b].runtime = Runtime(b)]
    /\ UNCHANGED <<buildVars, hostVars, listening, qemu>>

-----------------------------------------------------------------------------
(* _launch_process(): ports are looked for, servers are started, and QEMU   *)
(* is.  Nothing holds a port that was found.                                *)
find_free_vnc_port == {p \in VncPorts : Free(p) /\ \A q \in VncPorts : Free(q) => p <= q}

FindPorts(b) ==
    /\ box[b].pc = "runtime"
    /\ \E agent, qmp \in FreePorts,
          socket \in IF host.os = "windows" THEN FreePorts ELSE {NoPort},
          vnc \in IF Config(b).display THEN find_free_vnc_port ELSE {NoPort} :
        box' = [box EXCEPT ![b].pc = "ports", ![b].agentPort = agent, ![b].qmpPort = qmp,
                           ![b].socketPort = socket, ![b].vncPort = vnc]
    /\ UNCHANGED <<buildVars, hostVars, listening, qemu>>

\* On Windows SMB is a listener of this process or Windows itself; elsewhere
\* QEMU starts one program per connection.
TcpSmb == host.os = "windows" /\ ~host.native
WantsSmb(b) == Config(b).mode \in {"FULL", "MOUNTS_ONLY"}
DnsProxyWanted(b) ==
    /\ Config(b).dns # "off" /\ host.os = "darwin"
    /\ Config(b).dns = "on" \/ Config(b).mode = "FULL"

StartServers(b) ==
    /\ box[b].pc = "ports"
    /\ \E smb \in IF WantsSmb(b) /\ TcpSmb THEN FreePorts ELSE {NoPort},
          dns \in IF DnsProxyWanted(b) THEN FreePorts ELSE {NoPort} :
        /\ box' = [box EXCEPT ![b].pc = "spawned", ![b].smbPort = smb, ![b].dnsPort = dns]
        /\ listening' = [p \in (DOMAIN listening) \cup ({smb, dns} \ {NoPort}) |->
                           IF ~Free(p) THEN listening[p]
                           ELSE <<b, IF p = smb THEN "smb" ELSE "dns">>]
    /\ qemu' = [qemu EXCEPT ![b] = "starting"]
    /\ UNCHANGED <<buildVars, hostVars>>

-----------------------------------------------------------------------------
(* The command line, as QEMU reads it.                                      *)
CpuModel(b) == IF box[b].accel \in {"kvm", "hvf"} THEN "host" ELSE Platform(b).cpu
Restricted(b) == Config(b).mode # "FULL"

\* guestfwd: what the guest dials, and what answers.
SmbServer(b) == IF TcpSmb THEN <<b, "smb">> ELSE IF host.os = "windows" THEN <<None, "smb">>
                ELSE <<b, "program">>
UsesGuestfwd == host.os # "windows"
SmbTunnel(b) ==
    IF WantsSmb(b) /\ (UsesGuestfwd \/ Config(b).mode = "MOUNTS_ONLY")
    THEN {[at |-> Tunnel, to |-> SmbServer(b)]} ELSE {}
UserTunnels(b) ==
    {[at |-> At(Config(b), i), to |-> <<None, "service">>] : i \in GuestForwards(Config(b))}
Guestfwd(b) == SmbTunnel(b) \cup UserTunnels(b)
\* No two of them are for one address.
GuestfwdFits(b) ==
    /\ Distinct(Config(b), GuestForwards(Config(b)))
    /\ \A t \in SmbTunnel(b), u \in UserTunnels(b) : t.at # u.at

\* The ports QEMU listens on: the port, what for, and which forward it is for.
HostfwdPorts(b) ==
    IF Config(b).mode = "NONE" THEN {}
    ELSE {<<box[b].agentPort, "agent", 0>>}
         \cup {<<At(Config(b), i)[2], "user", i>> : i \in HostForwards(Config(b))}
VncPort(b) == IF box[b].vncPort = NoPort THEN {} ELSE {<<box[b].vncPort, "vnc", 0>>}
SerialPort(b) == IF box[b].socketPort = NoPort THEN {} ELSE {<<box[b].socketPort, "serial", 0>>}
Listens(b) == HostfwdPorts(b) \cup {<<box[b].qmpPort, "qmp", 0>>} \cup VncPort(b) \cup SerialPort(b)
PortsOf(b) == {l[1] : l \in Listens(b)}

\* QEMU takes an accelerator of this host for a guest of its architecture, and
\* the processor of the host with an accelerator.
AccelWorks(b) ==
    \/ box[b].accel = "tcg" /\ CpuModel(b) # "host"
    \/ /\ box[b].accel # "tcg" /\ host.hv = "ready" /\ box[b].accel = Detected
       /\ ArchConfig(b) = host.arch
       /\ (box[b].runtime = "bundled" /\ host.os = "darwin") => bundle["qemu"].entitled

QemuAccepts(b) ==
    /\ \A p \in PortsOf(b) : Free(p)
    /\ \A k, l \in Listens(b) : k[1] = l[1] => k = l
    /\ GuestfwdFits(b)
    /\ AccelWorks(b)

QemuComesUp(b) ==
    /\ qemu[b] = "starting" /\ QemuAccepts(b)
    /\ qemu' = [qemu EXCEPT ![b] = "up"]
    /\ listening' = [p \in (DOMAIN listening) \cup PortsOf(b) |->
                       IF p \in DOMAIN listening THEN listening[p]
                       ELSE <<b, (CHOOSE l \in Listens(b) : l[1] = p)[2]>>]
    /\ UNCHANGED <<buildVars, hostVars, box>>

QemuGivesUp(b) ==
    /\ qemu[b] = "starting" /\ ~QemuAccepts(b)
    /\ qemu' = [qemu EXCEPT ![b] = "exited"]
    /\ UNCHANGED <<buildVars, hostVars, listening, box>>

\* The machine of ARM boots no system of 64 bits without a processor for it.
GuestIsUp(b) ==
    /\ qemu[b] = "up" /\ box[b].disk = ArchConfig(b)
    /\ Platform(b).machine = "virt" => CpuModel(b) # None
    /\ qemu' = [qemu EXCEPT ![b] = "guest"]
    /\ UNCHANGED <<buildVars, hostVars, listening, box>>

QemuRoles == {"agent", "user", "qmp", "vnc", "serial"}
WithoutQemu(b) == FreedOf({<<b, role>> : role \in QemuRoles})

QemuExits(b) ==
    /\ qemu[b] \in {"up", "guest"}
    /\ qemu' = [qemu EXCEPT ![b] = "exited"]
    /\ listening' = WithoutQemu(b)
    /\ UNCHANGED <<buildVars, hostVars, box>>

-----------------------------------------------------------------------------
(* _connect_to_guest_agent(): the serial channel, then HTTP.  Each attempt  *)
(* looks whether QEMU is there and then dials a port; whoever answers       *)
(* there has to know the token, which the guest got with its command line.  *)
AtPort(p, role) == {o \in Sandboxes : ~Free(p) /\ listening[p] = <<o, role>>}
Answering(b) ==
    (IF box[b].socketPort = NoPort THEN {b} ELSE AtPort(box[b].socketPort, "serial"))
    \cup AtPort(box[b].agentPort, "agent")
KnowsToken(b, peer) == peer = b

\* Slip: whoever answers is the guest.
ConnectAgent_Any(b) ==
    /\ box[b].pc = "spawned"
    /\ \E peer \in Answering(b) :
        /\ qemu[peer] = "guest"
        /\ box' = [box EXCEPT ![b].pc = "agent", ![b].agent = peer]
    /\ UNCHANGED <<buildVars, hostVars, listening, qemu>>

ConnectAgent(b) ==
    /\ box[b].pc = "spawned"
    /\ \E peer \in Answering(b) :
        /\ qemu[peer] = "guest" /\ KnowsToken(b, peer)
        /\ box' = [box EXCEPT ![b].pc = "agent", ![b].agent = peer]
    /\ UNCHANGED <<buildVars, hostVars, listening, qemu>>

\* _cleanup(): the servers, the clients and QEMU.
Cleaned(b, pc) ==
    /\ box' = [box EXCEPT ![b].pc = pc, ![b].agent = None, ![b].qmp = None,
                          ![b].agentPort = NoPort, ![b].socketPort = NoPort,
                          ![b].smbPort = NoPort, ![b].dnsPort = NoPort]
    /\ listening' = FreedOf({b} \X (QemuRoles \cup {"smb", "dns"}))
    /\ qemu' = [qemu EXCEPT ![b] = IF @ = "none" THEN @ ELSE "exited"]

\* QEMU has exited, or the time is up and the guest has not answered.
GuestIsSilent(b) ==
    /\ box[b].pc = "spawned" /\ qemu[b] # "guest"
    /\ Cleaned(b, "failed")
    /\ UNCHANGED <<buildVars, hostVars>>

\* _connect_to_qmp(): nothing says who is at the port; one client at a time.
ConnectQmp(b) ==
    /\ box[b].pc = "agent"
    /\ \E peer \in AtPort(box[b].qmpPort, "qmp") :
        /\ \A o \in Sandboxes : box[o].qmp # peer
        /\ box' = [box EXCEPT ![b].pc = "running", ![b].qmp = peer]
    /\ UNCHANGED <<buildVars, hostVars, listening, qemu>>

\* start() raises and cleans nothing.
QmpFails(b) ==
    /\ box[b].pc = "agent"
    /\ \A peer \in AtPort(box[b].qmpPort, "qmp") : \E o \in Sandboxes : box[o].qmp = peer
    /\ Goes(b, "stranded")
    /\ UNCHANGED <<buildVars, hostVars, listening, qemu>>

StopSandbox(b) ==
    /\ box[b].pc = "running"
    /\ Cleaned(b, "stopped")
    /\ UNCHANGED <<buildVars, hostVars>>

\* save(): the manifest records the architecture of the host.
SaveSandbox(b) ==
    /\ box[b].pc = "running" /\ qemu[b] = "guest" /\ host.saves
    /\ saved' = [recorded |-> _detect_architecture, disk |-> box[b].disk]
    /\ UNCHANGED <<buildVars, host, installed, system, images, listening, box, qemu>>

\* Another program takes a port, and leaves it.
OtherTakes(p) ==
    /\ host # NoHost /\ host.others /\ Free(p) /\ \A q \in DOMAIN listening : listening[q][1] # None
    /\ listening' = [q \in (DOMAIN listening) \cup {p} |->
                       IF q = p THEN <<None, "other">> ELSE listening[q]]
    /\ UNCHANGED <<buildVars, hostVars, box, qemu>>

OtherLeaves(p) ==
    /\ ~Free(p) /\ listening[p] = <<None, "other">>
    /\ listening' = FreedOf({<<None, "other">>})
    /\ UNCHANGED <<buildVars, hostVars, box, qemu>>

-----------------------------------------------------------------------------
Starts(b) ==
    \/ Create(b) \/ Resolve(b) \/ AutoInstall(b) \/ NoImage(b) \/ DetectAccelerator(b)
    \/ LoadRuntime(b) \/ FindPorts(b) \/ StartServers(b)
    \/ QemuComesUp(b) \/ QemuGivesUp(b) \/ GuestIsUp(b) \/ QemuExits(b)
    \/ ConnectAgent(b) \/ GuestIsSilent(b) \/ ConnectQmp(b) \/ QmpFails(b) \/ StopSandbox(b) \/ SaveSandbox(b)

LaunchNext ==
    \/ host = NoHost /\ BuildNext /\ UNCHANGED launchVars
    \/ Arrive \/ PipInstall \/ EnsureRuntime
    \/ \E b \in Sandboxes : Starts(b)
    \/ \E p \in Ports : OtherTakes(p) \/ OtherLeaves(p)

LaunchSpec == LaunchInit /\ [][LaunchNext]_allVars

-----------------------------------------------------------------------------
Launched == {b \in Sandboxes : qemu[b] \in {"starting", "up", "guest"}}
Running == {b \in Sandboxes : box[b].pc = "running"}

\* A wheel that pip accepts is one that runs: whatever its binaries load in the
\* end is in it or on every host, and found there, also when bin/ was left by a
\* build that stopped half way (verify); no file needs a newer glibc than the
\* host's (set_platform_wheel_tag); and on macOS every signature holds and QEMU
\* has its entitlement, though qemu-img and libslirp came after it was signed.
\* On macOS the first is so for a build from an empty bin/.  And a machine that
\* has all that is needed builds a wheel (GoodMachinesBuild).
WheelsBuildAndRun ==
    /\ GoodMachinesBuild
    /\ installed =>
         /\ (Mac => attempt = 1) => \A f \in Shipped : \A l \in Needs(f) : Resolves(f, l)
         /\ Linux => \A f \in Bundled : machine.glibc[f] <= host.glibc
         /\ Mac => bundle["qemu"].entitled /\ \A f \in Shipped : bundle[f].sealed

\* A running sandbox talks to its own guest, and to its own QEMU for as long as
\* that lives: though ports were only looked up, were taken by others in
\* between, or were another sandbox's (_wait_for_guest_agent, _connect_to_qmp).
OwnPeers ==
    \A b \in Running :
        /\ box[b].agent = b
        /\ qemu[b] # "exited" => box[b].qmp = b

\* The address at which the guest mounts a share, which is worked out when the
\* sandbox runs (_mount_cifs_share), is one that the command line, which was
\* made before, leads to this sandbox's server (_build_network_args) and that
\* no Forward of the user leads elsewhere (_validate_port_forwards).
MountAddress(b) ==
    IF UsesGuestfwd \/ Config(b).mode = "MOUNTS_ONLY" THEN Tunnel
    ELSE <<Gateway, IF TcpSmb THEN box[b].smbPort ELSE SmbPort>>

Reached(b, address) ==
    {g.to : g \in {t \in Guestfwd(b) : t.at = address}}
    \cup IF address[1] # Gateway \/ Restricted(b) THEN {}
         ELSE IF address[2] = SmbPort THEN {<<None, "smb">>}
         ELSE IF Free(address[2]) THEN {} ELSE {listening[address[2]]}

MountsReachOwnServer ==
    \A b \in Running \cup {s \in Sandboxes : box[s].pc = "spawned"} :
        WantsSmb(b) => Reached(b, MountAddress(b)) = {SmbServer(b)}

\* A label was given, no image file has it, and one without a label stands in.
Unlabelled(b) ==
    Config(b).image # "save" /\ Config(b).arch # None /\ Artifact(Config(b).arch) = "any"

\* A guest of another architecture than the host's is emulated and a guest that
\* is emulated gets the time that takes, unless the user asked for another; the
\* machine is that of the image, except when a label was given that no image file
\* has and a file without a label is taken for it (whose content nobody knows), and
\* for a save whose manifest records the host of a sandbox that was emulated
\* itself (_detect_accelerator, resolve).
EmulationFits ==
    \A b \in Launched :
        /\ box[b].accel # "tcg" => ArchConfig(b) = host.arch
        /\ box[b].accel = "tcg" => box[b].wait # BOOT_DEFAULT
        /\ \/ box[b].disk = ArchConfig(b)
           \/ Config(b).image = "save" /\ box[b].save.recorded # box[b].save.disk
           \/ Unlabelled(b)

\* On macOS with the bundled QEMU and full networking the guest's queries come
\* to this sandbox's proxy: QEMU was told a port where the proxy listens, and
\* the libslirp it loads is the patched one (_maybe_start_dns_proxy).
DnsReachesTheHost ==
    \A b \in Running \cap Launched :
        (host.os = "darwin" /\ Config(b).mode = "FULL" /\ Config(b).dns # "off"
           /\ box[b].runtime = "bundled") =>
            /\ ~Free(box[b].dnsPort) /\ listening[box[b].dnsPort] = <<b, "dns">>
            /\ Slirp \in bundle["qemu"].local /\ bundle[Slirp].patched

\* What the guest is told to connect to is this sandbox's own.
GuestReachesItsHost == MountsReachOwnServer /\ DnsReachesTheHost

\* docs/under-the-hood/index.md:157 says of the architecture that it "forces TCG
\* emulation when cross-arch".  The host's own is emulated too when it is named
\* as image files name it: this does not hold.
NativeIsNotEmulated ==
    \A b \in Launched :
        (ArchConfig(b) = host.arch /\ Chosen(b) # "tcg") => box[b].accel # "tcg"
=============================================================================
