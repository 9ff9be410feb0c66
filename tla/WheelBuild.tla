----------------------------- MODULE WheelBuild -----------------------------
(***************************************************************************)
(* The build of the quicksand-qemu wheel: the hook (quicksand-qemu/        *)
(* hatch_build.py) and the bundler it uses (quicksand_build_tools).  The   *)
(* QEMU of the build machine is copied into bin/ with the libraries it     *)
(* needs, whose references are made to point into the bundle; then data,   *)
(* licences, a list of sources, a check of the result and the wheel's tag. *)
(*                                                                         *)
(* bin/ outlives a build that was interrupted or has failed, and the next  *)
(* build works on what it finds there.  Left out: the wording of files and *)
(* messages, downloads, and commands whose exit status is not looked at:   *)
(* those succeed.                                                          *)
(*                                                                         *)
(* A definition named Action_Slip is Action with a slip a programmer could *)
(* make; the specification does not use it.                                *)
(***************************************************************************)
EXTENDS Naturals, Sequences, FiniteSets

CONSTANTS
    Libs,      \* libraries a binary may need
    Slirp,     \* libslirp.0.dylib, among Libs
    Machines   \* what is checked.  A build machine: .os, .needs (of "qemu", "img" and
               \* each library), .system (libraries every host has), .missing (not
               \* installed), .unknown (no package owns it), .glibc (the version a
               \* file requires), .tools (what is installed), .lacks (of "manager",
               \* "bios", "licence", "modules"), .arch, .attempts

Binaries == {"qemu", "img"}
Files == Binaries \cup Libs \cup {"accel"}
Tools == {"qemu", "qemu-img", "patchelf", "meson"}

ASSUME WheelAssumption ==
    /\ IsFiniteSet(Libs) /\ Slirp \in Libs
    /\ Libs \cap (Binaries \cup {"accel"}) = {}
    /\ \A m \in Machines :
        /\ m.os \in {"linux", "darwin", "windows"} /\ m.arch \in {"x86_64", "arm64"}
        /\ m.needs \in [Files -> SUBSET Libs] /\ m.glibc \in [Files -> Nat]
        /\ m.system \subseteq Libs /\ (m.os = "darwin" => Slirp \notin m.system)
        /\ m.missing \subseteq Libs \ m.system
        /\ m.unknown \subseteq Libs /\ m.tools \subseteq Tools
        /\ m.lacks \subseteq {"manager", "bios", "licence", "modules"}
        /\ m.attempts \in Nat \ {0}

VARIABLES
    machine,   \* one of Machines
    stage,     \* of initialize()
    tools,     \* installed by now
    stack,     \* the recursion over a binary's libraries
    bundle,    \* bin/: what is known of each file in it
    sources,   \* the libraries SOURCES.md lists
    tag,       \* the glibc version of the wheel's tag
    attempt
buildVars == <<machine, stage, tools, stack, bundle, sources, tag, attempt>>

Stages == <<"install", "copy", "qemu", "img", "slirp", "data", "modules", "licences",
            "sources", "verify_qemu", "verify_img", "tag", "done">>
StageAfter(s) == Stages[(CHOOSE i \in DOMAIN Stages : Stages[i] = s) + 1]
\* The stage in which a binary gets its libraries, and what it is a part of.
Bundling == stage \in Binaries
Advance == stage' = StageAfter(stage)

\* A file as it comes from the machine: none of its references point into the
\* bundle, and its signature holds.
Original == [local |-> {}, rpath |-> FALSE, sealed |-> TRUE, entitled |-> FALSE,
             patched |-> FALSE]
With(f, file) == [g \in DOMAIN bundle \cup {f} |-> IF g = f THEN file ELSE bundle[g]]
Bundled == DOMAIN bundle

Needs(f) == machine.needs[f]
\* Everything a file needs in the end, as ldd reports it.
Reach(f) ==
    {l \in Libs : \A s \in SUBSET Libs :
        (Needs(f) \subseteq s /\ \A k \in s : Needs(k) \subseteq s) => l \in s}

BuildTypes ==
    /\ machine \in Machines
    /\ stage \in {Stages[i] : i \in DOMAIN Stages} \cup {"failed", "interrupted"}
    /\ tools \subseteq Tools /\ Bundled \subseteq Files /\ sources \subseteq Libs
    /\ attempt \in 1 .. machine.attempts

BuildInit ==
    /\ machine \in Machines
    /\ stage = "install" /\ tools = machine.tools
    /\ stack = <<>> /\ bundle = <<>> /\ sources = {} /\ tag = 0
    /\ attempt = 1

-----------------------------------------------------------------------------
(* QEMU is installed if it is not there; on Linux so is patchelf.           *)
Linux == machine.os = "linux"
Mac == machine.os = "darwin"

InstallMacos == {"qemu", "qemu-img"}                \* brew install qemu
InstallLinux == {"qemu", "qemu-img", "patchelf"}    \* apt-get or dnf
InstallWindows == {"qemu", "qemu-img"}              \* the installer, silent
EnsurePatchelf == IF Linux THEN {"patchelf"} \ tools ELSE {}

Missing ==
    CASE "qemu" \in tools -> EnsurePatchelf
      [] "qemu" \notin tools /\ Linux -> InstallLinux
      [] "qemu" \notin tools /\ Mac -> InstallMacos
      [] OTHER -> InstallWindows

Ensure ==
    /\ stage = "install"
    /\ Missing # {} => "manager" \notin machine.lacks
    /\ tools' = tools \cup Missing
    /\ IF "qemu-img" \in tools' THEN Advance ELSE stage' = "failed"
    /\ UNCHANGED <<machine, stack, bundle, sources, tag, attempt>>

EnsureFails ==
    /\ stage = "install" /\ Missing # {} /\ "manager" \in machine.lacks
    /\ stage' = "failed"
    /\ UNCHANGED <<machine, tools, stack, bundle, sources, tag, attempt>>

CopyBinaries ==
    /\ stage = "copy"
    /\ bundle' = [f \in Bundled \cup Binaries |-> IF f \in Binaries THEN Original ELSE bundle[f]]
    /\ Advance
    /\ UNCHANGED <<machine, tools, stack, sources, tag, attempt>>

-----------------------------------------------------------------------------
(* The libraries of a binary, depth first.  A frame is a file, what its     *)
(* tool lists (otool: what it needs; ldd: all it needs in the end) and      *)
(* what remains to be looked at.                                            *)
SystemLibs == machine.system
ShouldBundle(l) == l \notin machine.missing /\ l \notin SystemLibs
Listed(f) == IF Linux THEN Reach(f) ELSE Needs(f)
Frame(f) == [file |-> f, listed |-> Listed(f), left |-> Listed(f)]
Top == stack[Len(stack)]
Looked(l) == [stack EXCEPT ![Len(stack)].left = @ \ {l}]

StartBundling ==
    /\ Bundling /\ machine.os # "windows" /\ stack = <<>>
    /\ stack' = <<Frame(stage)>>
    /\ UNCHANGED <<machine, stage, tools, bundle, sources, tag, attempt>>

\* A library of the system, one that is not there, or one that bin/ has.
PassOver(l) ==
    /\ Bundling /\ stack # <<>> /\ l \in Top.left
    /\ ShouldBundle(l) => l \in Bundled
    /\ stack' = Looked(l)
    /\ UNCHANGED <<machine, stage, tools, bundle, sources, tag, attempt>>

\* A new one is copied, and its own libraries come next.
CopyLib(l) ==
    /\ Bundling /\ stack # <<>> /\ l \in Top.left /\ ShouldBundle(l) /\ l \notin Bundled
    /\ bundle' = With(l, Original)
    /\ stack' = Append(Looked(l), Frame(l))
    /\ UNCHANGED <<machine, stage, tools, sources, tag, attempt>>

\* The end of a frame: the references are rewritten, which breaks the
\* signature; on Linux the search path is set, by the caller for a library.
Pop == stack' = SubSeq(stack, 1, Len(stack) - 1)

Rewrite ==
    /\ Bundling /\ Mac /\ Len(stack) > 1 /\ Top.left = {}
    /\ bundle' = [bundle EXCEPT ![Top.file].local = {l \in Top.listed : ShouldBundle(l)},
                                ![Top.file].sealed = FALSE]
    /\ Pop
    /\ UNCHANGED <<machine, stage, tools, sources, tag, attempt>>

SetPath ==
    /\ Bundling /\ Linux /\ Len(stack) > 1 /\ Top.left = {}
    /\ Top.listed \cap machine.missing = {}
    /\ bundle' = [bundle EXCEPT ![Top.file].rpath = TRUE]
    /\ Pop
    /\ UNCHANGED <<machine, stage, tools, sources, tag, attempt>>

\* ldd found something missing.
NotFound ==
    /\ Bundling /\ Linux /\ stack # <<>> /\ Top.left = {}
    /\ Top.listed \cap machine.missing # {}
    /\ stage' = "failed" /\ stack' = <<>>
    /\ UNCHANGED <<machine, tools, bundle, sources, tag, attempt>>

\* On macOS all libraries in lib/ and the binary are signed, QEMU with the
\* entitlement it needs for the hypervisor.
Sign ==
    /\ Bundling /\ Mac /\ Len(stack) = 1 /\ Top.left = {}
    /\ bundle' = [f \in Bundled |->
                    IF f = stage
                    THEN [bundle[f] EXCEPT !.local = {l \in Top.listed : ShouldBundle(l)},
                                           !.sealed = TRUE, !.entitled = (stage = "qemu")]
                    ELSE IF f \in Libs THEN [bundle[f] EXCEPT !.sealed = TRUE]
                    ELSE bundle[f]]
    /\ stack' = <<>> /\ Advance
    /\ UNCHANGED <<machine, tools, sources, tag, attempt>>

EndLinux ==
    /\ Bundling /\ Linux /\ Len(stack) = 1 /\ Top.left = {}
    /\ Top.listed \cap machine.missing = {}
    /\ bundle' = [bundle EXCEPT ![stage].rpath = TRUE]
    /\ stack' = <<>> /\ Advance
    /\ UNCHANGED <<machine, tools, sources, tag, attempt>>

\* On Windows: every DLL of the installation, beside the binary.
BundleDlls ==
    /\ Bundling /\ machine.os = "windows"
    /\ LET dlls == {l \in Libs : ShouldBundle(l)} IN
       bundle' = [f \in Bundled \cup dlls |-> IF f \in Bundled THEN bundle[f] ELSE Original]
    /\ Advance
    /\ UNCHANGED <<machine, tools, stack, sources, tag, attempt>>

-----------------------------------------------------------------------------
(* libslirp is rebuilt with a patch and takes the place of the bundled one. *)
BuildTools == {"meson"}
SlirpRefused ==
    \/ Slirp \notin Bundled \/ Slirp \notin Needs("qemu")
    \/ BuildTools \ tools # {} /\ "manager" \in machine.lacks

Patched ==
    [local |-> Needs(Slirp) \cap Bundled, rpath |-> FALSE, sealed |-> TRUE,
     entitled |-> FALSE, patched |-> TRUE]

PatchSlirp ==
    /\ stage = "slirp"
    /\ Mac => ~SlirpRefused
    /\ bundle' = IF Mac THEN With(Slirp, Patched) ELSE bundle
    /\ tools' = IF Mac THEN tools \cup BuildTools ELSE tools
    /\ Advance
    /\ UNCHANGED <<machine, stack, sources, tag, attempt>>

PatchFails ==
    /\ stage = "slirp" /\ Mac /\ SlirpRefused
    /\ stage' = "failed"
    /\ UNCHANGED <<machine, tools, stack, bundle, sources, tag, attempt>>

-----------------------------------------------------------------------------
(* What else the wheel holds.                                               *)
NeedsBios == machine.arch = "x86_64"

\* Keymaps may be missing; the firmware may not, where there is one.
DataFiles ==
    /\ stage = "data"
    /\ IF NeedsBios /\ "bios" \in machine.lacks THEN stage' = "failed" ELSE Advance
    /\ UNCHANGED <<machine, tools, stack, bundle, sources, tag, attempt>>

\* The accelerators, copied as they are.
Modules ==
    /\ stage = "modules"
    /\ bundle' = IF Linux /\ "modules" \notin machine.lacks THEN With("accel", Original) ELSE bundle
    /\ Advance
    /\ UNCHANGED <<machine, tools, stack, sources, tag, attempt>>

Licences ==
    /\ stage = "licences"
    /\ IF "licence" \in machine.lacks THEN stage' = "failed" ELSE Advance
    /\ UNCHANGED <<machine, tools, stack, bundle, sources, tag, attempt>>

\* SOURCES.md.  macOS: whatever the formula of QEMU depends on, bundled or
\* not; Linux: the packages that own the bundled libraries; Windows: the
\* bundled libraries a fixed table knows.
Collected == Libs \cap Bundled
BrewDeps == (UNION {Reach(b) : b \in Binaries}) \ (machine.unknown \cup machine.missing)
Owned == Libs \ machine.unknown
UpstreamMap == Libs \ machine.unknown
SourcesLinux == Collected \cap Owned
SourcesWindows == Collected \cap UpstreamMap

Sources ==
    /\ stage = "sources"
    /\ \/ Mac /\ sources' \in {BrewDeps, {}}      \* `brew deps` failed, silently
       \/ Linux /\ sources' = SourcesLinux
       \/ ~Mac /\ ~Linux /\ sources' = SourcesWindows
    /\ Advance
    /\ UNCHANGED <<machine, tools, stack, bundle, tag, attempt>>

-----------------------------------------------------------------------------
(* The check of a binary: it runs here, and it runs without this machine.   *)
Resolves(f, l) ==
    \/ l \in machine.system
    \/ /\ l \in Bundled
       /\ CASE Mac -> l \in bundle[f].local
            [] Linux -> bundle[f].rpath
            [] OTHER -> TRUE
RunsHere(f) == \A l \in Reach(f) : l \in machine.missing => l \in Bundled
\* otool lists what the binary itself refers to, ldd and the loader of
\* Windows what it loads in the end.
Loaded(f) == {f} \cup (Reach(f) \cap Bundled)
IsolatedMacos(f) == \A l \in Needs(f) : Resolves(f, l)
IsolatedLinux(f) == \A g \in Loaded(f) : \A l \in Needs(g) : Resolves(g, l)
IsolatedWindows(f) == \A g \in Loaded(f) : Needs(g) \subseteq Bundled \cup machine.system
Isolated(f) ==
    CASE Mac -> IsolatedMacos(f) [] Linux -> IsolatedLinux(f) [] OTHER -> IsolatedWindows(f)

\* Slip: it runs here, that will do.
VerifyPasses_Here(f) == RunsHere(f)
VerifyPasses(f) == RunsHere(f) /\ Isolated(f)
Verified == IF stage = "verify_qemu" THEN "qemu" ELSE "img"

Verify ==
    /\ stage \in {"verify_qemu", "verify_img"}
    /\ IF VerifyPasses(Verified) THEN Advance ELSE stage' = "failed"
    /\ UNCHANGED <<machine, tools, stack, bundle, sources, tag, attempt>>

ElfFiles == Bundled

\* The wheel: everything in bin/, tagged with the glibc its files require.
Tag ==
    /\ stage = "tag"
    /\ tag' = IF Linux THEN CHOOSE n \in {machine.glibc[f] : f \in ElfFiles} :
                                \A f \in ElfFiles : machine.glibc[f] <= n
              ELSE 0
    /\ Advance
    /\ UNCHANGED <<machine, tools, stack, bundle, sources, attempt>>

-----------------------------------------------------------------------------
Over == stage \in {"done", "failed", "interrupted"}

Interrupt ==
    /\ ~Over /\ attempt < machine.attempts
    /\ stage' = "interrupted" /\ stack' = <<>>
    /\ UNCHANGED <<machine, tools, bundle, sources, tag, attempt>>

Again ==
    /\ stage \in {"failed", "interrupted"} /\ attempt < machine.attempts
    /\ stage' = "install" /\ attempt' = attempt + 1
    /\ UNCHANGED <<machine, tools, stack, bundle, sources, tag>>

BuildNext ==
    \/ Ensure \/ EnsureFails \/ CopyBinaries
    \/ StartBundling \/ Rewrite \/ SetPath \/ NotFound \/ Sign \/ EndLinux \/ BundleDlls
    \/ \E l \in Libs : PassOver(l) \/ CopyLib(l)
    \/ PatchSlirp \/ PatchFails \/ DataFiles \/ Modules \/ Licences \/ Sources
    \/ Verify \/ Tag \/ Interrupt \/ Again

BuildSpec == BuildInit /\ [][BuildNext]_buildVars

-----------------------------------------------------------------------------
\* The binaries of the wheel and what they load when they start.  The modules
\* QEMU loads on Linux while it runs (accelerators) are copied with their
\* libraries left as they are, and are not what is stated here.
Shipped == Bundled \cap ({"qemu", "img"} \cup Reach("qemu") \cup Reach("img"))

\* Whatever a binary of a finished wheel loads in the end is in the wheel, or
\* on every host, and is found there: also when bin/ was left by a build that
\* stopped half way (verify; _process_linux_libs skips files that exist).  On
\* macOS this is so for the first build.
SelfContained ==
    (stage = "done" /\ (Mac => attempt = 1)) =>
        \A f \in Shipped : \A l \in Needs(f) : Resolves(f, l)

\* The same with no exception, as verify() promises.
MissedLibsAreCaught ==
    stage = "done" => \A f \in Shipped : \A l \in Needs(f) : Resolves(f, l)

\* A machine that has all that is needed builds the wheel: what the bundler
\* makes from an empty bin/ never fails the verification.
GoodMachinesBuild ==
    (stage = "failed" /\ attempt = 1) =>
        \/ machine.lacks \cap {"bios", "licence", "manager"} # {}
        \/ machine.missing # {} \/ "qemu-img" \notin tools
        \/ (Mac /\ Slirp \notin Needs("qemu"))

\* What macOS checks before it runs a file holds for the wheel: no file was
\* changed after it was signed, and QEMU kept its entitlement (bundling
\* qemu-img and patching libslirp come after QEMU was signed).
SignaturesHold ==
    (stage = "done" /\ Mac) =>
        /\ \A f \in Shipped : bundle[f].sealed
        /\ bundle["qemu"].entitled

\* A finished macOS wheel has the patched libslirp, and QEMU loads that one.
PatchedSlirpIsUsed ==
    (stage = "done" /\ Mac) =>
        Slirp \in bundle["qemu"].local /\ bundle[Slirp].patched

\* The tag promises no older glibc than a file of the wheel requires, and the
\* list of sources names every bundled library that can be named - on macOS, if
\* it names any: a `brew deps` that fails leaves an empty list, and nobody asks.
LabelsCoverTheWheel ==
    stage = "done" =>
        /\ Linux => \A f \in Bundled : machine.glibc[f] <= tag
        /\ \/ \A l \in Libs \cap Bundled : l \in sources \cup machine.unknown
           \/ Mac /\ sources = {}
=============================================================================
