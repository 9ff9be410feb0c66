--------------------------- MODULE Launch_proofs ---------------------------
(***************************************************************************)
(* Proofs about WheelBuild, Launch and SandboxLifecycle, in this order.    *)
(*                                                                         *)
(* WheelBuild, for any libraries and machines: what bin/ holds at each     *)
(* stage of a build, however often it was interrupted before, and what is  *)
(* so of a wheel that is done.                                             *)
(*                                                                         *)
(* Launch, for any hosts: what is so of every sandbox at every phase of    *)
(* its start, and from it that wheels run where pip takes them, that       *)
(* sandboxes talk to their own guests and are reached by them, and that    *)
(* the emulation fits the image.                                           *)
(*                                                                         *)
(* SandboxLifecycle, for any tasks, tags and bounds: nothing leaks but     *)
(* what NothingLeaks names; a running sandbox is usable; and, but for what *)
(* HMP told unheard, for checkpoints that overtook a save() and for        *)
(* cancelled QMP commands, no checkpoint is frozen into a save and the     *)
(* reverts of a first session name snapshots the overlay has.              *)
(***************************************************************************)
EXTENDS Launch, SandboxLifecycle, FiniteSetTheorems, SequenceTheorems, WellFoundedInduction,
        TLAPS

-----------------------------------------------------------------------------
(* The build: the inductive invariant.                                      *)
StageNames == {"install", "copy", "qemu", "img", "slirp", "data", "modules", "licences",
               "sources", "verify_qemu", "verify_img", "tag", "done", "failed", "interrupted"}
FileRecords ==
    [local : SUBSET Libs, rpath : BOOLEAN, sealed : BOOLEAN, entitled : BOOLEAN,
     patched : BOOLEAN]
FrameRecords == [file : Files, listed : SUBSET Libs, left : SUBSET Libs]

WheelTypes ==
    /\ machine \in Machines /\ stage \in StageNames
    /\ tools \subseteq Tools /\ sources \subseteq Libs
    /\ Bundled \subseteq Files /\ bundle \in [Bundled -> FileRecords]
    /\ stack \in Seq(FrameRecords)
    /\ attempt \in 1 .. machine.attempts

\* The stages that come after the libraries of QEMU, those of qemu-img and
\* libslirp.
Finished == {"verify_qemu", "verify_img", "tag", "done"}
AfterSlirp == {"data", "modules", "licences", "sources"} \cup Finished
AfterImg == {"slirp"} \cup AfterSlirp
AfterQemu == {"img"} \cup AfterImg
BundledOne(f) == (f = "qemu" /\ stage \in AfterQemu) \/ (f = "img" /\ stage \in AfterImg)

\* The stack belongs to a binary.  What its frames have looked at is in the
\* bundle, unless it is not to be.
FrameAt(i) ==
    /\ stack[i].listed = Listed(stack[i].file) /\ stack[i].left \subseteq stack[i].listed
    /\ \A l \in stack[i].listed \ stack[i].left : ShouldBundle(l) => l \in Bundled
    /\ IF i = 1 THEN stack[i].file = stage ELSE stack[i].file \in Libs \cap Bundled
StackInv ==
    /\ stack # <<>> => Bundling /\ machine.os # "windows"
    /\ \A i \in 1..Len(stack) : FrameAt(i)

\* A file of which everything it needs is there, and found.
Complete(f) ==
    /\ Mac => \A l \in Needs(f) : ShouldBundle(l) => l \in Bundled /\ l \in bundle[f].local
    /\ Linux => bundle[f].rpath
\* In a first build that is so for every library the recursion is done with.
LibsInv ==
    /\ \A l \in Bundled \cap Libs : ShouldBundle(l)
    /\ (attempt = 1 /\ stage \notin {"failed", "interrupted"}) =>
        \A l \in Bundled \cap Libs :
            Complete(l) \/ \E i \in 2..Len(stack) : stack[i].file = l

\* And so for the binaries, in any build.
BinaryInv ==
    /\ stage \in {"qemu"} \cup AfterQemu => Binaries \subseteq Bundled
    /\ \A f \in Binaries : BundledOne(f) =>
        /\ Complete(f)
        /\ Linux => \A l \in Reach(f) : ShouldBundle(l) => l \in Bundled
        /\ machine.os = "windows" => \A l \in Libs : ShouldBundle(l) => l \in Bundled

\* On macOS files are signed, and libslirp is swapped.
SignedInv ==
    Mac =>
        /\ \A f \in Binaries : BundledOne(f) => bundle[f].sealed
        /\ stage \in AfterQemu => bundle["qemu"].entitled
        /\ stage \in AfterImg => \A l \in Bundled \cap Libs : bundle[l].sealed
        /\ stage \in AfterSlirp =>
            Slirp \in Bundled /\ Slirp \in Needs("qemu") /\ bundle[Slirp].patched

\* A wheel was verified and its tag is that of its newest file.
VerifiedInv ==
    /\ stage \in {"verify_img", "tag", "done"} => VerifyPasses("qemu")
    /\ stage \in {"tag", "done"} => VerifyPasses("img")
    /\ stage = "done" /\ Linux => tag \in Nat /\ \A f \in Bundled : machine.glibc[f] <= tag

WheelInv ==
    /\ WheelTypes /\ StackInv /\ LibsInv /\ BinaryInv /\ SignedInv /\ VerifiedInv
    /\ GoodMachinesBuild

-----------------------------------------------------------------------------
(* The operators.                                                           *)

\* initialize() goes from one stage to the next one.
LEMMA StageOrder ==
  /\ StageAfter("install") = "copy" /\ StageAfter("copy") = "qemu"
  /\ StageAfter("qemu") = "img" /\ StageAfter("img") = "slirp"
  /\ StageAfter("slirp") = "data" /\ StageAfter("data") = "modules"
  /\ StageAfter("modules") = "licences" /\ StageAfter("licences") = "sources"
  /\ StageAfter("sources") = "verify_qemu" /\ StageAfter("verify_qemu") = "verify_img"
  /\ StageAfter("verify_img") = "tag" /\ StageAfter("tag") = "done"
<1>1. DOMAIN Stages = 1..13
  BY DEF Stages
<1>2. /\ Stages[1] = "install" /\ Stages[2] = "copy" /\ Stages[3] = "qemu" /\ Stages[4] = "img"
      /\ Stages[5] = "slirp" /\ Stages[6] = "data" /\ Stages[7] = "modules"
      /\ Stages[8] = "licences" /\ Stages[9] = "sources" /\ Stages[10] = "verify_qemu"
      /\ Stages[11] = "verify_img" /\ Stages[12] = "tag" /\ Stages[13] = "done"
  BY DEF Stages
<1>3. \A i, j \in 1..13 : Stages[i] = Stages[j] => i = j
  <2> DEFINE place == [s \in StageNames |->
                CASE s = "install" -> 1 [] s = "copy" -> 2 [] s = "qemu" -> 3 [] s = "img" -> 4
                  [] s = "slirp" -> 5 [] s = "data" -> 6 [] s = "modules" -> 7
                  [] s = "licences" -> 8 [] s = "sources" -> 9 [] s = "verify_qemu" -> 10
                  [] s = "verify_img" -> 11 [] s = "tag" -> 12 [] OTHER -> 13]
  <2>1. /\ place[Stages[1]] = 1 /\ place[Stages[2]] = 2 /\ place[Stages[3]] = 3
        /\ place[Stages[4]] = 4 /\ place[Stages[5]] = 5 /\ place[Stages[6]] = 6
        /\ place[Stages[7]] = 7 /\ place[Stages[8]] = 8 /\ place[Stages[9]] = 9
        /\ place[Stages[10]] = 10 /\ place[Stages[11]] = 11 /\ place[Stages[12]] = 12
        /\ place[Stages[13]] = 13
    BY <1>2 DEF StageNames
  <2> HIDE DEF place
  <2>2. \A i \in 1..13 : place[Stages[i]] = i
    BY <2>1
  <2> QED
    BY <2>2
<1>4. ASSUME NEW i \in 1..12 PROVE StageAfter(Stages[i]) = Stages[i + 1]
  <2>1. \E k \in DOMAIN Stages : Stages[k] = Stages[i]
    BY <1>1
  <2>2. (CHOOSE k \in DOMAIN Stages : Stages[k] = Stages[i]) = i
    BY <1>1, <1>3, <2>1
  <2> QED
    BY <2>2 DEF StageAfter
<1>5. /\ StageAfter(Stages[1]) = Stages[2] /\ StageAfter(Stages[2]) = Stages[3]
      /\ StageAfter(Stages[3]) = Stages[4] /\ StageAfter(Stages[4]) = Stages[5]
      /\ StageAfter(Stages[5]) = Stages[6] /\ StageAfter(Stages[6]) = Stages[7]
      /\ StageAfter(Stages[7]) = Stages[8] /\ StageAfter(Stages[8]) = Stages[9]
      /\ StageAfter(Stages[9]) = Stages[10] /\ StageAfter(Stages[10]) = Stages[11]
      /\ StageAfter(Stages[11]) = Stages[12] /\ StageAfter(Stages[12]) = Stages[13]
  BY <1>4
<1> QED
  BY <1>2, <1>5

\* What a machine is.
LEMMA MachineFacts ==
  ASSUME machine \in Machines
  PROVE  /\ machine.os \in {"linux", "darwin", "windows"}
         /\ machine.needs \in [Files -> SUBSET Libs] /\ machine.glibc \in [Files -> Nat]
         /\ machine.system \subseteq Libs /\ machine.missing \subseteq Libs \ machine.system
         /\ machine.tools \subseteq Tools /\ machine.attempts \in Nat \ {0}
         /\ Mac => Slirp \notin machine.system
         /\ Slirp \in Libs /\ Libs \cap (Binaries \cup {"accel"}) = {}
  BY WheelAssumption DEF Mac

\* ldd lists what a file needs, and what that needs.
LEMMA ReachIsClosed ==
  ASSUME machine \in Machines, NEW f \in Files
  PROVE  /\ Needs(f) \subseteq Libs /\ Reach(f) \subseteq Libs /\ Listed(f) \subseteq Libs
         /\ Needs(f) \subseteq Reach(f) /\ Needs(f) \subseteq Listed(f)
         /\ \A l \in Reach(f) : Needs(l) \subseteq Reach(f)
<1>1. \A g \in Files : Needs(g) \subseteq Libs
  BY MachineFacts DEF Needs
<1>2. Libs \subseteq Files
  BY DEF Files
<1>3. Reach(f) \subseteq Libs
  BY DEF Reach
<1>4. Needs(f) \subseteq Reach(f)
  BY <1>1 DEF Reach
<1>5. ASSUME NEW l \in Reach(f), NEW k \in Needs(l)
      PROVE  k \in Reach(f)
  <2>1. k \in Libs
    BY <1>1, <1>2, <1>3
  <2>2. ASSUME NEW s \in SUBSET Libs, Needs(f) \subseteq s, \A g \in s : Needs(g) \subseteq s
        PROVE  k \in s
    <3>1. l \in s
      BY <2>2 DEF Reach
    <3> QED
      BY <2>2, <3>1
  <2> QED
    BY <2>1, <2>2 DEF Reach
<1> QED
  BY <1>1, <1>3, <1>4, <1>5 DEF Listed

\* Of finitely many files one requires the newest glibc.
LEMMA NewestExists ==
  ASSUME NEW S, IsFiniteSet(S), S # {}, NEW version \in [S -> Nat]
  PROVE  \E n \in S : \A k \in S : version[k] <= version[n]
<1> DEFINE Above(n) == {k \in S : version[k] > version[n]}
           sizes == {Cardinality(Above(n)) : n \in S}
<1>1. \A n \in S : IsFiniteSet(Above(n)) /\ Cardinality(Above(n)) \in Nat
  BY FS_Subset, FS_CardinalityType
<1>2. sizes \subseteq Nat /\ sizes # {}
  BY <1>1
<1>3. PICK m \in sizes : \A j \in sizes : ~(<<j, m>> \in OpToRel(<, Nat))
  BY <1>2, NatLessThanWellFounded, WFMin
<1>4. PICK n \in S : m = Cardinality(Above(n))
  OBVIOUS
<1>5. ASSUME NEW k \in S, ~(version[k] <= version[n])
      PROVE  FALSE
  <2>1. version[k] > version[n] /\ version[k] \in Nat /\ version[n] \in Nat
    BY <1>5
  <2>2. Above(k) \subseteq Above(n) /\ Above(k) # Above(n)
    <3>1. k \in Above(n) /\ k \notin Above(k)
      BY <2>1
    <3>2. \A x \in Above(k) : version[x] > version[n]
      BY <2>1
    <3> QED
      BY <3>1, <3>2
  <2>3. Cardinality(Above(k)) < Cardinality(Above(n))
    <3>1. /\ IsFiniteSet(Above(n)) /\ Cardinality(Above(n)) \in Nat
          /\ Cardinality(Above(k)) \in Nat
      BY <1>1
    <3> HIDE DEF Above
    <3>2. /\ Cardinality(Above(k)) <= Cardinality(Above(n))
          /\ Cardinality(Above(n)) = Cardinality(Above(k)) => Above(n) = Above(k)
      BY <2>2, <3>1, FS_Subset
    <3> QED
      BY <2>2, <3>1, <3>2
  <2>4. Cardinality(Above(k)) \in sizes
    OBVIOUS
  <2>5. <<Cardinality(Above(k)), m>> \in OpToRel(<, Nat)
    BY <1>1, <1>4, <2>3 DEF OpToRel
  <2> HIDE DEF sizes
  <2> QED
    BY <1>3, <2>4, <2>5
<1> QED
  BY <1>5

-----------------------------------------------------------------------------
(* Steps that move the build on, or end it, and leave bin/ as it is.        *)

MovesOn ==
    \/ stage' \in {"failed", "interrupted"} /\ attempt' = attempt
    \/ stage' = "install" /\ attempt' > 1
    \/ /\ stack = <<>> /\ stage \notin {"failed", "interrupted"} /\ attempt' = attempt
       /\ stage' \in AfterQemu => stage \in AfterQemu
       /\ stage' \in AfterImg => stage \in AfterImg
       /\ stage' \in AfterSlirp => stage \in AfterSlirp
       /\ stage' # "qemu"

\* What is in bin/ is as good as it was.
LEMMA MovingOnKeeps ==
  ASSUME WheelInv, MovesOn, UNCHANGED <<machine, bundle>>, stack' = <<>>,
         stage' \in StageNames, tools' \subseteq Tools, sources' \subseteq Libs,
         attempt' \in 1 .. machine.attempts, VerifiedInv', GoodMachinesBuild'
  PROVE  WheelInv'
<1>1. WheelTypes'
  BY DEF WheelInv, WheelTypes, Bundled
<1>2. StackInv'
  BY DEF StackInv
<1>3. /\ Bundled' = Bundled /\ \A f : Complete(f)' = Complete(f) /\ Needs(f)' = Needs(f)
      /\ \A f : Reach(f)' = Reach(f)
      /\ \A l : ShouldBundle(l)' = ShouldBundle(l)
      /\ Mac' = Mac /\ Linux' = Linux
  BY DEF Bundled, Complete, Needs, Reach, ShouldBundle, SystemLibs, Mac, Linux
<1>4. LibsInv'
  <2>1. /\ stage' \notin {"failed", "interrupted"} /\ attempt' = 1
        => stack = <<>> /\ stage \notin {"failed", "interrupted"} /\ attempt = 1
    BY DEF MovesOn
  <2>2. stack = <<>> => ~\E i \in 2..Len(stack) : stack[i].file = stack[i].file
    OBVIOUS
  <2> QED
    BY <1>3, <2>1, <2>2 DEF WheelInv, LibsInv
<1>5. /\ stage' \in AfterQemu => stage \in AfterQemu
      /\ stage' \in AfterImg => stage \in AfterImg
      /\ stage' \in AfterSlirp => stage \in AfterSlirp
      /\ stage' \in {"qemu"} \cup AfterQemu => stage \in {"qemu"} \cup AfterQemu
  BY DEF MovesOn, AfterQemu, AfterImg, AfterSlirp, Finished
<1>6. \A f : BundledOne(f)' => BundledOne(f)
  BY <1>5 DEF BundledOne
<1>7. BinaryInv'
  BY <1>3, <1>5, <1>6 DEF WheelInv, BinaryInv
<1>8. SignedInv'
  BY <1>3, <1>5, <1>6 DEF WheelInv, SignedInv
<1> QED
  BY <1>1, <1>2, <1>4, <1>7, <1>8 DEF WheelInv

\* A stage that has nothing to do with libraries has an empty stack.
LEMMA NoStack ==
  ASSUME WheelInv, ~Bundling
  PROVE  stack = <<>>
BY DEF WheelInv, StackInv

\* QEMU is found, or installed, or not.
LEMMA EnsureKeeps ==
  ASSUME WheelInv, Ensure \/ EnsureFails
  PROVE  WheelInv'
<1>1. stage = "install" /\ stack = <<>> /\ UNCHANGED <<machine, bundle, stack, sources, attempt>>
  BY NoStack DEF Ensure, EnsureFails, Bundling, Binaries
<1>2. tools' \subseteq Tools
  BY MachineFacts DEF WheelInv, WheelTypes, Ensure, EnsureFails, Missing, EnsurePatchelf, Tools,
     InstallMacos, InstallLinux, InstallWindows
<1>3. stage' \in {"copy", "failed"}
  BY <1>1, StageOrder DEF Ensure, EnsureFails, Advance
<1>4. MovesOn
  BY <1>1, <1>3 DEF MovesOn, AfterQemu, AfterImg, AfterSlirp, Finished
<1>5. VerifiedInv'
  BY <1>3 DEF VerifiedInv
<1>6. GoodMachinesBuild'
  BY StageOrder DEF GoodMachinesBuild, Ensure, EnsureFails, Advance
<1> QED
  BY <1>1, <1>2, <1>3, <1>4, <1>5, <1>6, MovingOnKeeps DEF WheelInv, WheelTypes, StageNames

\* The build is given up at any point, and begun again.
LEMMA InterruptionKeeps ==
  ASSUME WheelInv, Interrupt \/ Again
  PROVE  WheelInv'
<1>1. /\ UNCHANGED <<machine, bundle, sources, tools>> /\ stage' \in {"interrupted", "install"}
      /\ attempt \in 1 .. machine.attempts
  BY DEF WheelInv, WheelTypes, Interrupt, Again
<1>2. stack' = <<>> /\ MovesOn /\ attempt' \in 1 .. machine.attempts
  <2>1. CASE Interrupt
    BY <1>1, <2>1 DEF Interrupt, MovesOn
  <2>2. CASE Again
    <3>1. stack = <<>>
      BY <2>2, NoStack DEF Again, Bundling, Binaries
    <3>2. machine.attempts \in Nat
      BY MachineFacts DEF WheelInv, WheelTypes
    <3> QED
      BY <1>1, <2>2, <3>1, <3>2 DEF Again, MovesOn
  <2> QED
    BY <2>1, <2>2
<1>3. VerifiedInv' /\ GoodMachinesBuild'
  BY <1>1 DEF VerifiedInv, GoodMachinesBuild
<1> QED
  BY <1>1, <1>2, <1>3, MovingOnKeeps DEF WheelInv, WheelTypes, StageNames

\* In a first build of a machine that lacks nothing libslirp is bundled.
LEMMA PatchFailsKeeps ==
  ASSUME WheelInv, PatchFails
  PROVE  WheelInv'
<1>1. /\ stage = "slirp" /\ stage' = "failed" /\ Mac /\ SlirpRefused /\ stack = <<>>
      /\ UNCHANGED <<machine, bundle, stack, sources, tools, attempt>>
  BY NoStack DEF PatchFails, Bundling, Binaries
<1>2. MovesOn /\ VerifiedInv'
  BY <1>1 DEF MovesOn, VerifiedInv
<1>3. GoodMachinesBuild'
  <2> SUFFICES ASSUME machine.lacks \cap {"bios", "licence", "manager"} = {},
                      machine.missing = {}, Slirp \in Needs("qemu")
               PROVE  FALSE
    BY <1>1 DEF GoodMachinesBuild, Mac, Needs
  <2>1. Complete("qemu")
    BY <1>1 DEF WheelInv, BinaryInv, BundledOne, AfterQemu, AfterImg, Binaries
  <2>2. ShouldBundle(Slirp)
    BY <1>1, MachineFacts DEF WheelInv, WheelTypes, ShouldBundle, SystemLibs
  <2>3. Slirp \in Bundled
    BY <1>1, <2>1, <2>2 DEF Complete
  <2> QED
    BY <1>1, <2>3 DEF SlirpRefused
<1> QED
  BY <1>1, <1>2, <1>3, MovingOnKeeps DEF WheelInv, WheelTypes, StageNames

\* Data, licences and the list of sources are or are not to be had.
LEMMA DataKeeps ==
  ASSUME WheelInv, DataFiles \/ Licences \/ Sources
  PROVE  WheelInv'
<1>1. /\ stack = <<>> /\ UNCHANGED <<machine, bundle, stack, tools, attempt>>
      /\ \/ stage = "data" /\ stage' \in {"modules", "failed"}
         \/ stage = "licences" /\ stage' \in {"sources", "failed"}
         \/ stage = "sources" /\ stage' = "verify_qemu"
  BY NoStack, StageOrder DEF DataFiles, Licences, Sources, Bundling, Binaries, Advance
<1>2. MovesOn
  BY <1>1 DEF MovesOn, AfterQemu, AfterImg, AfterSlirp, Finished
<1>3. VerifiedInv'
  BY <1>1 DEF VerifiedInv
<1>4. GoodMachinesBuild'
  BY <1>1, StageOrder DEF GoodMachinesBuild, DataFiles, Licences, Sources, Advance
<1>5. sources' \subseteq Libs
  <2>1. \A b \in Binaries : Reach(b) \subseteq Libs
    BY DEF Reach
  <2> QED
    BY <2>1 DEF WheelInv, WheelTypes, DataFiles, Licences, Sources, BrewDeps, SourcesLinux,
       SourcesWindows, Collected
<1> QED
  BY <1>1, <1>2, <1>3, <1>4, <1>5, MovingOnKeeps DEF WheelInv, WheelTypes, StageNames

\* What verify() sees stays as it is when nothing in bin/ changes.
LEMMA SameVerdict ==
  ASSUME UNCHANGED <<machine, bundle>>
  PROVE  \A f : VerifyPasses(f)' = VerifyPasses(f)
BY DEF VerifyPasses, RunsHere, Isolated, IsolatedMacos, IsolatedLinux, IsolatedWindows, Resolves,
   Loaded, Reach, Needs, Bundled, Mac, Linux

\* What the bundler made from an empty bin/ passes, where nothing is missing.
LEMMA GoodBinariesPass ==
  ASSUME WheelInv, machine.missing = {}, attempt = 1, stage \in {"verify_qemu", "verify_img"},
         NEW f \in Binaries
  PROVE  VerifyPasses(f)
<1>1. /\ machine \in Machines /\ f \in Files /\ f \in Bundled /\ stack = <<>>
      /\ Complete(f)
      /\ Linux => \A l \in Reach(f) : ShouldBundle(l) => l \in Bundled
      /\ machine.os = "windows" => \A l \in Libs : ShouldBundle(l) => l \in Bundled
  BY NoStack DEF WheelInv, WheelTypes, BinaryInv, BundledOne, AfterQemu, AfterImg, AfterSlirp,
     Finished, Files, Binaries, Bundling
<1>2. \A l \in Libs : ShouldBundle(l) <=> l \notin machine.system
  BY DEF ShouldBundle, SystemLibs
<1>3. RunsHere(f)
  BY DEF RunsHere
<1>4. /\ Needs(f) \subseteq Libs /\ Reach(f) \subseteq Libs /\ Needs(f) \subseteq Reach(f)
      /\ \A l \in Reach(f) : Needs(l) \subseteq Reach(f)
  BY <1>1, ReachIsClosed
<1>5. \A l \in Bundled \cap Libs : Complete(l)
  <2>1. \A l : ~\E i \in 2..Len(stack) : stack[i].file = l
    BY <1>1
  <2>2. stage \notin {"failed", "interrupted"}
    OBVIOUS
  <2> QED
    BY <2>1, <2>2 DEF WheelInv, LibsInv
<1>6. CASE Mac
  <2>1. IsolatedMacos(f)
    BY <1>1, <1>2, <1>4, <1>6 DEF IsolatedMacos, Resolves, Complete
  <2> QED
    BY <1>3, <1>6, <2>1 DEF VerifyPasses, Isolated, Mac, Linux
<1>7. CASE Linux
  <2>1. ~Mac
    BY <1>7 DEF Linux, Mac
  <2>2. \A g \in Loaded(f) : bundle[g].rpath /\ Needs(g) \subseteq Reach(f)
    BY <1>1, <1>4, <1>5, <1>7 DEF Loaded, Complete
  <2>3. IsolatedLinux(f)
    BY <1>1, <1>2, <1>4, <1>7, <2>1, <2>2 DEF IsolatedLinux, Resolves
  <2> QED
    BY <1>3, <1>7, <2>1, <2>3 DEF VerifyPasses, Isolated
<1>8. CASE ~Mac /\ ~Linux
  <2>1. machine.os = "windows"
    BY <1>1, <1>8, MachineFacts DEF Mac, Linux
  <2>2. \A g \in Loaded(f) : Needs(g) \subseteq Libs
    BY <1>4 DEF Loaded
  <2>3. IsolatedWindows(f)
    BY <1>1, <1>2, <2>1, <2>2 DEF IsolatedWindows
  <2> QED
    BY <1>3, <1>8, <2>3 DEF VerifyPasses, Isolated
<1> QED
  BY <1>6, <1>7, <1>8

\* Each binary is verified, and good ones pass.
LEMMA VerifyKeeps ==
  ASSUME WheelInv, Verify
  PROVE  WheelInv'
<1>1. /\ stack = <<>> /\ UNCHANGED <<machine, bundle, stack, tools, sources, attempt, tag>>
      /\ stage \in {"verify_qemu", "verify_img"}
      /\ \/ ~VerifyPasses(Verified) /\ stage' = "failed"
         \/ VerifyPasses(Verified) /\ stage = "verify_qemu" /\ stage' = "verify_img"
         \/ VerifyPasses(Verified) /\ stage = "verify_img" /\ stage' = "tag"
  BY NoStack, StageOrder DEF Verify, Bundling, Binaries, Advance
<1>2. MovesOn
  BY <1>1 DEF MovesOn, AfterQemu, AfterImg, AfterSlirp, Finished
<1>3. VerifiedInv'
  <2>1. \A f : VerifyPasses(f)' = VerifyPasses(f)
    BY <1>1, SameVerdict
  <2> QED
    BY <1>1, <2>1 DEF WheelInv, VerifiedInv, Verified
<1>4. GoodMachinesBuild'
  <2>1. ASSUME machine.missing = {}, attempt = 1 PROVE VerifyPasses(Verified)
    BY <1>1, <2>1, GoodBinariesPass DEF Verified, Binaries
  <2> QED
    BY <1>1, <2>1 DEF GoodMachinesBuild
<1> QED
  BY <1>1, <1>2, <1>3, <1>4, MovingOnKeeps DEF WheelInv, WheelTypes, StageNames

\* The tag is the newest glibc a file of the wheel requires.
LEMMA TagKeeps ==
  ASSUME WheelInv, Tag
  PROVE  WheelInv'
<1>1. /\ stack = <<>> /\ UNCHANGED <<machine, bundle, stack, tools, sources, attempt>>
      /\ stage = "tag" /\ stage' = "done"
  BY NoStack, StageOrder DEF Tag, Bundling, Binaries, Advance
<1>2. MovesOn
  BY <1>1 DEF MovesOn, AfterQemu, AfterImg, AfterSlirp, Finished
<1>3. VerifiedInv'
  <2>1. \A f : VerifyPasses(f)' = VerifyPasses(f)
    BY <1>1, SameVerdict
  <2>2. Linux => tag' \in Nat /\ \A f \in Bundled : machine.glibc[f] <= tag'
    <3> SUFFICES ASSUME Linux PROVE tag' \in Nat /\ \A f \in Bundled : machine.glibc[f] <= tag'
      OBVIOUS
    <3>1. Bundled \subseteq Files /\ machine.glibc \in [Files -> Nat] /\ "qemu" \in Bundled
      BY <1>1, MachineFacts DEF WheelInv, WheelTypes, BinaryInv, AfterQemu, AfterImg, AfterSlirp,
         Finished, Binaries
    <3>2. IsFiniteSet(Bundled)
      <4>1. IsFiniteSet(Libs \cup {"qemu", "img", "accel"})
        <5>1. IsFiniteSet({"qemu", "img", "accel"})
          <6>1. IsFiniteSet({"qemu"})
            BY FS_Singleton
          <6>2. IsFiniteSet({"qemu"} \cup {"img"})
            BY <6>1, FS_AddElement
          <6>3. IsFiniteSet(({"qemu"} \cup {"img"}) \cup {"accel"})
            BY <6>2, FS_AddElement
          <6>4. ({"qemu"} \cup {"img"}) \cup {"accel"} = {"qemu", "img", "accel"}
            OBVIOUS
          <6> QED
            BY <6>3, <6>4
        <5> QED
          BY <5>1, WheelAssumption, FS_Union
      <4>2. Bundled \subseteq Libs \cup {"qemu", "img", "accel"}
        BY <3>1 DEF Files, Binaries
      <4> QED
        BY <4>1, <4>2, FS_Subset
    <3> DEFINE version == [f \in Bundled |-> machine.glibc[f]]
    <3>3. \E n \in Bundled : \A f \in Bundled : version[f] <= version[n]
      BY <3>1, <3>2, NewestExists
    <3>4. \E n \in {machine.glibc[f] : f \in Bundled} : \A f \in Bundled : machine.glibc[f] <= n
      BY <3>3
    <3>5. tag' = CHOOSE n \in {machine.glibc[f] : f \in Bundled} :
                        \A f \in Bundled : machine.glibc[f] <= n
      BY DEF Tag, ElfFiles
    <3> QED
      BY <3>1, <3>4, <3>5
  <2>3. UNCHANGED <<machine, bundle>> => (Linux' = Linux /\ Bundled' = Bundled)
    BY DEF Linux, Bundled
  <2> QED
    BY <1>1, <2>1, <2>2, <2>3 DEF WheelInv, VerifiedInv
<1>4. GoodMachinesBuild'
  BY <1>1 DEF GoodMachinesBuild
<1> QED
  BY <1>1, <1>2, <1>3, <1>4, MovingOnKeeps DEF WheelInv, WheelTypes, StageNames

-----------------------------------------------------------------------------
(* The recursion over libraries.                                            *)

\* Nothing about the machine changes.
LEMMA SameMachine ==
  ASSUME UNCHANGED machine
  PROVE  /\ Mac' = Mac /\ Linux' = Linux
         /\ \A f : Needs(f)' = Needs(f) /\ Reach(f)' = Reach(f) /\ Listed(f)' = Listed(f)
         /\ \A l : ShouldBundle(l)' = ShouldBundle(l)
BY DEF Mac, Linux, Needs, Reach, Listed, ShouldBundle, SystemLibs

\* A library of the top frame has been looked at.
LEMMA LookedStack ==
  ASSUME WheelTypes, stack # <<>>, NEW l, NEW s, s = Looked(l)
  PROVE  /\ s \in Seq(FrameRecords) /\ Len(s) = Len(stack) /\ s # <<>>
         /\ Len(stack) \in Nat /\ Len(stack) >= 1
         /\ \A i \in 1..Len(stack) :
                /\ s[i].file = stack[i].file /\ s[i].listed = stack[i].listed
                /\ s[i].left = stack[i].left \ (IF i = Len(stack) THEN {l} ELSE {})
<1>1. /\ stack \in Seq(FrameRecords) /\ Len(stack) \in Nat /\ Len(stack) >= 1
      /\ \A i \in 1..Len(stack) : stack[i] \in FrameRecords
  BY DEF WheelTypes
<1>2. s = [stack EXCEPT ![Len(stack)] = [stack[Len(stack)] EXCEPT !.left = @ \ {l}]]
  BY DEF Looked
<1> DEFINE top == [stack[Len(stack)] EXCEPT !.left = @ \ {l}]
<1>3. /\ top \in FrameRecords /\ top.file = stack[Len(stack)].file
      /\ top.listed = stack[Len(stack)].listed /\ top.left = stack[Len(stack)].left \ {l}
  BY <1>1 DEF FrameRecords
<1> HIDE DEF top
<1>4. s = [stack EXCEPT ![Len(stack)] = top]
  BY <1>2 DEF top
<1>5. s \in Seq(FrameRecords) /\ Len(s) = Len(stack)
  BY <1>1, <1>3, <1>4, ExceptSeq
<1>6. \A i \in 1..Len(stack) : s[i] = IF i = Len(stack) THEN top ELSE stack[i]
  BY <1>1, <1>4
<1>7. s # <<>>
  BY <1>1, <1>5
<1>8. ASSUME NEW i \in 1..Len(stack)
      PROVE  /\ s[i].file = stack[i].file /\ s[i].listed = stack[i].listed
             /\ s[i].left = stack[i].left \ (IF i = Len(stack) THEN {l} ELSE {})
  <2>1. CASE i = Len(stack)
    BY <1>3, <1>6, <2>1
  <2>2. CASE i # Len(stack)
    BY <1>6, <2>2
  <2> QED
    BY <2>1, <2>2
<1> QED
  BY <1>1, <1>5, <1>7, <1>8

\* A frame is taken off.
LEMMA PoppedStack ==
  ASSUME WheelTypes, stack # <<>>, Pop
  PROVE  /\ stack' \in Seq(FrameRecords) /\ Len(stack') = Len(stack) - 1
         /\ Len(stack) \in Nat /\ Len(stack) >= 1
         /\ \A i \in 1..Len(stack') : stack'[i] = stack[i]
<1>1. stack \in Seq(FrameRecords) /\ Len(stack) \in Nat /\ Len(stack) >= 1
  BY DEF WheelTypes
<1> DEFINE n == Len(stack) - 1
<1>2. n \in Int /\ \A i \in 1..n : stack[i] \in FrameRecords
  BY <1>1
<1>3. /\ SubSeq(stack, 1, n) \in Seq(FrameRecords)
      /\ Len(SubSeq(stack, 1, n)) = IF 1 <= n THEN n - 1 + 1 ELSE 0
      /\ \A i \in 1..(n - 1 + 1) : SubSeq(stack, 1, n)[i] = stack[1 + i - 1]
  <2> HIDE DEF n
  <2> QED
    BY <1>2, SubSeqProperties
<1>4. stack' = SubSeq(stack, 1, n)
  BY DEF Pop
<1>5. Len(stack') = n
  <2>1. n \in Nat
    BY <1>1
  <2> HIDE DEF n
  <2>2. (IF 1 <= n THEN n - 1 + 1 ELSE 0) = n
    BY <2>1
  <2> QED
    BY <1>3, <1>4, <2>2
<1>6. \A i \in 1..n : stack'[i] = stack[i]
  BY <1>1, <1>3, <1>4
<1> QED
  BY <1>1, <1>3, <1>4, <1>5, <1>6

\* What a step of the recursion keeps when it neither moves on nor takes a
\* library away: the binaries' part.
LEMMA BundlingKeeps ==
  ASSUME WheelInv, Bundling, UNCHANGED <<machine, stage, attempt, tools>>,
         Bundled \subseteq Bundled', \A f \in Binaries : BundledOne(f) => bundle'[f] = bundle[f],
         Mac => stage \notin AfterImg
  PROVE  BinaryInv' /\ VerifiedInv' /\ GoodMachinesBuild' /\ SignedInv'
<1>1. stage \in {"qemu", "img"}
  BY DEF Bundling, Binaries
<1>2. /\ Mac' = Mac /\ Linux' = Linux
      /\ \A f : Needs(f)' = Needs(f) /\ Reach(f)' = Reach(f)
      /\ \A l : ShouldBundle(l)' = ShouldBundle(l)
      /\ \A f : BundledOne(f)' = BundledOne(f)
  BY SameMachine DEF BundledOne
<1>3. \A f \in Binaries : BundledOne(f) => Complete(f)'
  <2> SUFFICES ASSUME NEW f \in Binaries, BundledOne(f) PROVE Complete(f)'
    OBVIOUS
  <2>1. Complete(f)
    BY DEF WheelInv, BinaryInv
  <2>2. bundle'[f] = bundle[f]
    OBVIOUS
  <2> QED
    BY <1>2, <2>1, <2>2 DEF Complete
<1>4. BinaryInv'
  BY <1>2, <1>3 DEF WheelInv, BinaryInv
<1>5. VerifiedInv' /\ GoodMachinesBuild'
  BY <1>1 DEF VerifiedInv, GoodMachinesBuild
<1>6. SignedInv'
  <2>1. stage \notin AfterImg /\ stage \notin AfterSlirp
    BY <1>1 DEF AfterImg, AfterSlirp, Finished
  <2>2. stage \in AfterQemu => BundledOne("qemu")
    BY DEF BundledOne
  <2> QED
    BY <1>2, <2>1, <2>2 DEF WheelInv, SignedInv, Binaries
<1> QED
  BY <1>4, <1>5, <1>6

\* A frame is a frame, whatever bin/ holds.
LEMMA FrameFacts ==
  ASSUME machine \in Machines, NEW f \in Files
  PROVE  /\ Frame(f) \in FrameRecords /\ Frame(f).file = f
         /\ Frame(f).listed = Listed(f) /\ Frame(f).left = Listed(f)
BY ReachIsClosed DEF Frame, FrameRecords

\* The first frame is the binary's.
LEMMA StartBundlingKeeps ==
  ASSUME WheelInv, StartBundling
  PROVE  WheelInv'
<1>1. /\ Bundling /\ machine.os # "windows" /\ stack = <<>> /\ stage \in {"qemu", "img"}
      /\ UNCHANGED <<machine, stage, tools, bundle, sources, tag, attempt>>
      /\ Bundled' = Bundled
  BY DEF StartBundling, Bundling, Binaries, Bundled
<1>2. /\ machine \in Machines /\ stage \in Files
  BY <1>1 DEF WheelInv, WheelTypes, Files, Binaries
<1>3. stack' = <<Frame(stage)>> /\ Frame(stage) \in FrameRecords
  BY <1>2, FrameFacts DEF StartBundling
<1>4. /\ stack' \in Seq(FrameRecords) /\ Len(stack') = 1 /\ stack'[1] = Frame(stage)
  BY <1>3
<1>5. WheelTypes'
  BY <1>1, <1>4 DEF WheelInv, WheelTypes
<1>6. StackInv'
  <2>1. Bundling'
    BY <1>1 DEF Bundling
  <2>2. FrameAt(1)'
    <3>1. /\ stack'[1].file = stage /\ stack'[1].listed = Listed(stage)
          /\ stack'[1].left = Listed(stage)
      BY <1>2, <1>4, FrameFacts
    <3>2. Listed(stage)' = Listed(stage)
      BY <1>1 DEF Listed, Linux, Reach, Needs
    <3> QED
      BY <1>1, <3>1, <3>2 DEF FrameAt
  <2>3. \A i \in 1..Len(stack') : i = 1
    BY <1>4
  <2> QED
    BY <1>1, <2>1, <2>2, <2>3 DEF StackInv
<1>7. LibsInv'
  <2>1. \A l : Complete(l)' = Complete(l) /\ ShouldBundle(l)' = ShouldBundle(l)
    BY <1>1 DEF Complete, Mac, Linux, Needs, ShouldBundle, SystemLibs, Bundled
  <2>2. \A l : ~\E i \in 2..Len(stack) : stack[i].file = l
    BY <1>1
  <2> QED
    BY <1>1, <2>1, <2>2 DEF WheelInv, LibsInv
<1>8. Mac => stage \notin AfterImg
  BY <1>1 DEF AfterImg, AfterSlirp, Finished
<1> QED
  BY <1>1, <1>5, <1>6, <1>7, <1>8, BundlingKeeps DEF WheelInv

\* A library is passed over.
LEMMA PassOverKeeps ==
  ASSUME WheelInv, NEW l \in Libs, PassOver(l)
  PROVE  WheelInv'
<1>1. /\ Bundling /\ stack # <<>> /\ stage \in {"qemu", "img"}
      /\ ShouldBundle(l) => l \in Bundled
      /\ UNCHANGED <<machine, stage, tools, bundle, sources, tag, attempt>>
      /\ Bundled' = Bundled
  BY DEF PassOver, Bundling, Binaries, Bundled
<1>2. /\ stack' \in Seq(FrameRecords) /\ Len(stack') = Len(stack) /\ stack' # <<>>
      /\ Len(stack) \in Nat /\ Len(stack) >= 1
      /\ \A i \in 1..Len(stack) :
            /\ stack'[i].file = stack[i].file /\ stack'[i].listed = stack[i].listed
            /\ stack'[i].left = stack[i].left \ (IF i = Len(stack) THEN {l} ELSE {})
  <2>1. WheelTypes /\ stack # <<>> /\ stack' = Looked(l)
    BY DEF WheelInv, PassOver
  <2> QED
    BY <2>1, LookedStack
<1>3. WheelTypes'
  BY <1>1, <1>2 DEF WheelInv, WheelTypes
<1>4. StackInv'
  <2>1. Bundling' /\ machine'.os # "windows"
    BY <1>1 DEF WheelInv, StackInv, Bundling
  <2>2. ASSUME NEW i \in 1..Len(stack) PROVE FrameAt(i)'
    <3>1. FrameAt(i)
      BY DEF WheelInv, StackInv
    <3>2. \A f : Listed(f)' = Listed(f) /\ ShouldBundle(f)' = ShouldBundle(f)
      BY <1>1, SameMachine
    <3>3. Listed(stack[i].file)' = Listed(stack[i].file)
      BY <1>1, <1>2 DEF Listed, Linux, Reach, Needs
    <3>4. stack'[i].left \subseteq stack'[i].listed
      BY <1>2, <3>1 DEF FrameAt
    <3>5. \A k \in stack'[i].listed \ stack'[i].left : ShouldBundle(k) => k \in Bundled
      BY <1>1, <1>2, <3>1 DEF FrameAt
    <3>6. IF i = 1 THEN stack'[i].file = stage ELSE stack'[i].file \in Libs \cap Bundled
      BY <1>2, <3>1 DEF FrameAt
    <3> QED
      BY <1>1, <1>2, <3>1, <3>2, <3>3, <3>4, <3>5, <3>6 DEF FrameAt
  <2> QED
    BY <1>2, <2>1, <2>2 DEF StackInv
<1>5. LibsInv'
  <2>1. \A k : Complete(k)' = Complete(k) /\ ShouldBundle(k)' = ShouldBundle(k)
    BY <1>1 DEF Complete, Mac, Linux, Needs, ShouldBundle, SystemLibs, Bundled
  <2>2. \A k : (\E i \in 2..Len(stack) : stack[i].file = k)
               => \E i \in 2..Len(stack') : stack'[i].file = k
    <3>1. \A i \in 2..Len(stack) :
             i \in 1..Len(stack) /\ i \in 2..Len(stack') /\ stack'[i].file = stack[i].file
      BY <1>2
    <3> QED
      BY <3>1
  <2> QED
    BY <1>1, <2>1, <2>2 DEF WheelInv, LibsInv
<1>6. Mac => stage \notin AfterImg
  BY <1>1 DEF AfterImg, AfterSlirp, Finished
<1> QED
  BY <1>1, <1>3, <1>4, <1>5, <1>6, BundlingKeeps DEF WheelInv

\* A file stays complete when bin/ grows.
LEMMA StaysComplete ==
  ASSUME UNCHANGED machine, Bundled \subseteq Bundled'
  PROVE  \A f : (bundle'[f] = bundle[f] /\ Complete(f)) => Complete(f)'
BY SameMachine DEF Complete

\* A new library is copied, and has a frame of its own.
LEMMA CopyLibKeeps ==
  ASSUME WheelInv, NEW l \in Libs, CopyLib(l)
  PROVE  WheelInv'
<1>0. PICK n \in Nat : n = Len(stack)
  BY DEF WheelInv, WheelTypes
<1> DEFINE s == Looked(l)
<1>1. /\ Bundling /\ stack # <<>> /\ stage \in {"qemu", "img"} /\ stage \in Files
      /\ ShouldBundle(l) /\ l \notin Bundled /\ l \in Top.left /\ l \in Files
      /\ stack' = Append(s, Frame(l)) /\ bundle' = With(l, Original)
      /\ UNCHANGED <<machine, stage, tools, sources, tag, attempt>>
  BY DEF CopyLib, Bundling, Binaries, Files
<1>2. /\ s \in Seq(FrameRecords) /\ Len(s) = n /\ n \in Nat /\ n >= 1
      /\ \A i \in 1..n :
            /\ s[i].file = stack[i].file /\ s[i].listed = stack[i].listed
            /\ s[i].left = stack[i].left \ (IF i = n THEN {l} ELSE {})
      /\ n = Len(stack)
  <2>1. WheelTypes /\ stack # <<>>
    BY <1>1 DEF WheelInv
  <2> QED
    BY <1>0, <2>1, LookedStack
<1> HIDE DEF s
<1>3. /\ Frame(l) \in FrameRecords /\ Frame(l).file = l
      /\ Frame(l).listed = Listed(l) /\ Frame(l).left = Listed(l)
  BY <1>1, FrameFacts DEF WheelInv, WheelTypes
<1>4. /\ stack' \in Seq(FrameRecords) /\ Len(stack') = n + 1 /\ stack' # <<>>
      /\ stack'[n + 1] = Frame(l) /\ \A i \in 1..n : stack'[i] = s[i]
  BY <1>1, <1>2, <1>3
<1>5. /\ Bundled' = Bundled \cup {l} /\ bundle'[l] = Original
      /\ \A g \in Bundled : bundle'[g] = bundle[g]
  BY <1>1 DEF With, Bundled
<1>6. WheelTypes'
  <2>1. Original \in FileRecords
    BY DEF Original, FileRecords
  <2>2. bundle' \in [Bundled' -> FileRecords]
    BY <1>1, <1>5, <2>1 DEF WheelInv, WheelTypes, With, Bundled
  <2> QED
    BY <1>1, <1>4, <1>5, <2>2 DEF WheelInv, WheelTypes
<1>7. StackInv'
  <2>1. Bundling' /\ machine'.os # "windows"
    BY <1>1 DEF WheelInv, StackInv, Bundling
  <2>2. \A f : ShouldBundle(f)' = ShouldBundle(f)
    BY <1>1, SameMachine
  <2>3. ASSUME NEW i \in 1..n PROVE FrameAt(i)'
    <3>1. FrameAt(i)
      BY <1>2 DEF WheelInv, StackInv
    <3>2. /\ stack'[i].file = stack[i].file /\ stack'[i].listed = stack[i].listed
          /\ stack'[i].left = stack[i].left \ (IF i = n THEN {l} ELSE {})
      BY <1>2, <1>4
    <3>3. Listed(stack[i].file)' = Listed(stack[i].file)
      BY <1>1, <3>2 DEF Listed, Linux, Reach, Needs
    <3>4. stack'[i].left \subseteq stack'[i].listed
      BY <3>1, <3>2 DEF FrameAt
    <3>5. \A k \in stack'[i].listed \ stack'[i].left : ShouldBundle(k) => k \in Bundled'
      BY <1>5, <3>1, <3>2 DEF FrameAt
    <3>6. IF i = 1 THEN stack'[i].file = stage ELSE stack'[i].file \in Libs \cap Bundled'
      BY <1>5, <3>1, <3>2 DEF FrameAt
    <3>7. stack'[i].listed = Listed(stack[i].file)
      BY <3>1, <3>2 DEF FrameAt
    <3> QED
      BY <1>1, <2>2, <3>2, <3>3, <3>4, <3>5, <3>6, <3>7 DEF FrameAt
  <2>4. FrameAt(n + 1)'
    <3>1. /\ stack'[n + 1].file = l /\ stack'[n + 1].listed = Listed(l)
          /\ stack'[n + 1].left = Listed(l)
      BY <1>3, <1>4
    <3>2. Listed(l)' = Listed(l)
      BY <1>1 DEF Listed, Linux, Reach, Needs
    <3>3. n + 1 # 1
      BY <1>2
    <3> QED
      BY <1>5, <3>1, <3>2, <3>3 DEF FrameAt
  <2>5. \A i \in 1..Len(stack') : i \in 1..n \/ i = n + 1
    BY <1>2, <1>4
  <2> QED
    BY <1>4, <2>1, <2>3, <2>4, <2>5 DEF StackInv
<1>8. LibsInv'
  <2>1. \A k : ShouldBundle(k)' = ShouldBundle(k)
    BY <1>1, SameMachine
  <2>2. \A k \in Bundled : Complete(k) => Complete(k)'
    BY <1>1, <1>5, StaysComplete
  <2>3. \A k : (\E i \in 2..Len(stack) : stack[i].file = k)
               => \E i \in 2..Len(stack') : stack'[i].file = k
    <3>1. \A i \in 2..n : i \in 1..n /\ i \in 2..(n + 1)
      BY <1>2
    <3>2. \A i \in 2..n : stack'[i].file = stack[i].file
      BY <1>2, <1>4, <3>1
    <3>3. 2..Len(stack) = 2..n /\ 2..Len(stack') = 2..(n + 1)
      BY <1>2, <1>4
    <3> QED
      BY <3>1, <3>2, <3>3
  <2>4. \E i \in 2..Len(stack') : stack'[i].file = l
    <3>1. n + 1 \in 2..(n + 1) /\ stack'[n + 1].file = l
      BY <1>2, <1>3, <1>4
    <3>2. 2..Len(stack') = 2..(n + 1)
      BY <1>4
    <3> QED
      BY <3>1, <3>2
  <2> QED
    BY <1>1, <1>5, <2>1, <2>2, <2>3, <2>4 DEF WheelInv, LibsInv
<1>9. BinaryInv' /\ VerifiedInv' /\ GoodMachinesBuild' /\ SignedInv'
  <2>1. Mac => stage \notin AfterImg
    BY <1>1 DEF AfterImg, AfterSlirp, Finished
  <2>2. \A f \in Binaries : BundledOne(f) => f \in Bundled
    BY DEF WheelInv, BinaryInv, BundledOne, AfterQemu, Binaries
  <2> QED
    BY <1>1, <1>5, <2>1, <2>2, BundlingKeeps
<1> QED
  BY <1>6, <1>7, <1>8, <1>9 DEF WheelInv

\* The end of a frame that is not the binary's: the stack without it, and the
\* file changed.
LEMMA PoppingKeeps ==
  ASSUME WheelInv, Bundling, Len(stack) > 1, Pop, NEW f \in Files, f = Top.file,
         UNCHANGED <<machine, stage, tools, sources, tag, attempt>>,
         Bundled' = Bundled, bundle' \in [Bundled -> FileRecords],
         \A g \in Bundled \ {f} : bundle'[g] = bundle[g], Complete(f)'
  PROVE  WheelInv'
<1>0. PICK n \in Nat : n = Len(stack)
  BY DEF WheelInv, WheelTypes
<1>1. /\ n = Len(stack) /\ n > 1 /\ stack' \in Seq(FrameRecords) /\ Len(stack') = n - 1
      /\ stage \in {"qemu", "img"} /\ stack # <<>> /\ stage \in Binaries
      /\ \A i \in 1..(n - 1) : stack'[i] = stack[i]
  <2>1. WheelTypes /\ stack # <<>>
    BY DEF WheelInv, WheelTypes
  <2> QED
    BY <1>0, <2>1, PoppedStack DEF Bundling, Binaries
<1>2. WheelTypes'
  BY <1>1 DEF WheelInv, WheelTypes
<1>3. StackInv'
  <2>1. Bundling' /\ machine'.os # "windows"
    BY <1>1 DEF WheelInv, StackInv, Bundling
  <2>2. ASSUME NEW i \in 1..(n - 1) PROVE FrameAt(i)'
    <3>1. FrameAt(i) /\ stack'[i] = stack[i]
      BY <1>1 DEF WheelInv, StackInv
    <3>2. \A g : ShouldBundle(g)' = ShouldBundle(g)
      BY SameMachine
    <3>3. Listed(stack[i].file)' = Listed(stack[i].file)
      BY <3>1 DEF Listed, Linux, Reach, Needs
    <3> QED
      BY <3>1, <3>2, <3>3 DEF FrameAt
  <2> QED
    BY <1>1, <2>1, <2>2 DEF StackInv
<1>4. f \in Libs \cap Bundled
  <2>1. FrameAt(n)
    BY <1>1 DEF WheelInv, StackInv
  <2> QED
    BY <1>1, <2>1 DEF FrameAt, Top
<1>5. LibsInv'
  <2>1. \A k : ShouldBundle(k)' = ShouldBundle(k)
    BY SameMachine
  <2>2. \A k \in Bundled : Complete(k) => Complete(k)'
    BY StaysComplete
  <2>3. \A k \in Bundled : (\E i \in 2..Len(stack) : stack[i].file = k)
               => Complete(k)' \/ \E i \in 2..Len(stack') : stack'[i].file = k
    <3>1. \A i \in 2..Len(stack) : i = n \/ (i \in 2..Len(stack') /\ stack'[i] = stack[i])
      BY <1>1
    <3>2. stack[n].file = f
      BY <1>1 DEF Top
    <3> QED
      BY <3>1, <3>2
  <2> QED
    BY <2>1, <2>2, <2>3 DEF WheelInv, LibsInv
<1>6. \A g \in Binaries : BundledOne(g) => bundle'[g] = bundle[g]
  <2>1. \A g \in Binaries : BundledOne(g) => g \in Bundled
    BY DEF WheelInv, BinaryInv, BundledOne, AfterQemu, Binaries
  <2> QED
    BY <1>4, <2>1, WheelAssumption
<1>7. Mac => stage \notin AfterImg
  BY <1>1 DEF AfterImg, AfterSlirp, Finished
<1> QED
  BY <1>2, <1>3, <1>5, <1>6, <1>7, BundlingKeeps DEF WheelInv

\* The top frame, when it has nothing left.
LEMMA EmptyTop ==
  ASSUME WheelInv, stack # <<>>, Top.left = {}, NEW f, f = Top.file
  PROVE  /\ f \in Files /\ f \in Bundled /\ Top.listed = Listed(f)
         /\ \A l \in Listed(f) : ShouldBundle(l) => l \in Bundled
         /\ Len(stack) = 1 => f = stage
         /\ Len(stack) > 1 => f \in Libs
<1>1. PICK n \in Nat : n = Len(stack) /\ n >= 1 /\ stack[n] \in FrameRecords
  BY DEF WheelInv, WheelTypes
<1>2. FrameAt(n) /\ Bundling
  BY <1>1 DEF WheelInv, StackInv
<1>3. stage \in Bundled
  BY <1>2 DEF WheelInv, BinaryInv, AfterQemu, Binaries, Bundling
<1>4. f \in Files
  BY <1>1 DEF Top, FrameRecords
<1> QED
  BY <1>1, <1>2, <1>3, <1>4 DEF FrameAt, Top

\* Its references point into the bundle from now on.
LEMMA RewriteKeeps ==
  ASSUME WheelInv, Rewrite
  PROVE  WheelInv'
<1>1. PICK f \in Files : f = Top.file
  BY EmptyTop DEF Rewrite, WheelInv, WheelTypes
<1>2. /\ Bundling /\ Mac /\ Len(stack) > 1 /\ Top.left = {} /\ stack # <<>> /\ Pop
      /\ UNCHANGED <<machine, stage, tools, sources, tag, attempt>>
      /\ bundle' = [bundle EXCEPT ![f].local = {l \in Top.listed : ShouldBundle(l)},
                                  ![f].sealed = FALSE]
  BY <1>1 DEF Rewrite, WheelInv, WheelTypes
<1>3. /\ f \in Bundled /\ Top.listed = Listed(f) /\ machine \in Machines
      /\ \A l \in Listed(f) : ShouldBundle(l) => l \in Bundled
  BY <1>1, <1>2, EmptyTop DEF WheelInv, WheelTypes
<1>4. Listed(f) = Needs(f) /\ Needs(f) \subseteq Libs
  BY <1>2, <1>3, ReachIsClosed DEF Listed, Mac, Linux
<1> DEFINE local == {l \in Needs(f) : ShouldBundle(l)}
           file == [bundle[f] EXCEPT !.local = local, !.sealed = FALSE]
<1>5. bundle \in [Bundled -> FileRecords] /\ bundle[f] \in FileRecords
  BY <1>3 DEF WheelInv, WheelTypes
<1>6. file \in FileRecords /\ file.local = local
  BY <1>4, <1>5 DEF FileRecords
<1>7. bundle' = [bundle EXCEPT ![f] = file]
  BY <1>2, <1>3, <1>4
<1> HIDE DEF file
<1>8. /\ Bundled' = Bundled /\ bundle' \in [Bundled -> FileRecords]
      /\ \A g \in Bundled \ {f} : bundle'[g] = bundle[g]
      /\ bundle'[f] = file
  BY <1>3, <1>5, <1>6, <1>7 DEF Bundled
<1>9. Complete(f)'
  <2>1. /\ Mac' /\ ~Linux' /\ Needs(f)' = Needs(f)
        /\ \A l : ShouldBundle(l)' = ShouldBundle(l)
    BY <1>2, SameMachine DEF Mac, Linux
  <2> QED
    BY <1>3, <1>4, <1>6, <1>8, <2>1 DEF Complete
<1> QED
  BY <1>1, <1>2, <1>8, <1>9, PoppingKeeps

\* Its search path is set.
LEMMA SetPathKeeps ==
  ASSUME WheelInv, SetPath
  PROVE  WheelInv'
<1>1. PICK f \in Files : f = Top.file
  BY EmptyTop DEF SetPath, WheelInv, WheelTypes
<1>2. /\ Bundling /\ Linux /\ Len(stack) > 1 /\ Top.left = {} /\ stack # <<>> /\ Pop
      /\ UNCHANGED <<machine, stage, tools, sources, tag, attempt>>
      /\ bundle' = [bundle EXCEPT ![f].rpath = TRUE]
  BY <1>1 DEF SetPath, WheelInv, WheelTypes
<1>3. f \in Bundled /\ bundle \in [Bundled -> FileRecords] /\ bundle[f] \in FileRecords
  BY <1>1, <1>2, EmptyTop DEF WheelInv, WheelTypes
<1> DEFINE file == [bundle[f] EXCEPT !.rpath = TRUE]
<1>4. file \in FileRecords /\ file.rpath
  BY <1>3 DEF FileRecords
<1>5. bundle' = [bundle EXCEPT ![f] = file]
  BY <1>2
<1> HIDE DEF file
<1>6. /\ Bundled' = Bundled /\ bundle' \in [Bundled -> FileRecords]
      /\ \A g \in Bundled \ {f} : bundle'[g] = bundle[g]
      /\ bundle'[f] = file
  BY <1>3, <1>4, <1>5 DEF Bundled
<1>7. Complete(f)'
  <2>1. Linux' /\ ~Mac'
    BY <1>2 DEF Mac, Linux
  <2> QED
    BY <1>4, <1>6, <2>1 DEF Complete
<1> QED
  BY <1>1, <1>2, <1>6, <1>7, PoppingKeeps

\* A library is not there.
LEMMA NotFoundKeeps ==
  ASSUME WheelInv, NotFound
  PROVE  WheelInv'
<1>1. /\ stage' = "failed" /\ stack' = <<>> /\ machine.missing # {}
      /\ UNCHANGED <<machine, tools, bundle, sources, tag, attempt>>
  BY DEF NotFound
<1>2. MovesOn /\ VerifiedInv'
  BY <1>1 DEF MovesOn, VerifiedInv
<1>3. GoodMachinesBuild'
  BY <1>1 DEF GoodMachinesBuild
<1> QED
  BY <1>1, <1>2, <1>3, MovingOnKeeps DEF WheelInv, WheelTypes, StageNames

-----------------------------------------------------------------------------
(* The end of a binary, and what is done to bin/ outside the recursion.     *)

\* After the binary whose libraries are bundled comes the next one, or the end.
LEMMA NextBinary ==
  ASSUME Bundling, Advance
  PROVE  /\ stage \in Binaries /\ stage' \in {"img", "slirp"}
         /\ stage = "qemu" <=> stage' = "img"
         /\ \A f \in Binaries : BundledOne(f)' <=> BundledOne(f) \/ f = stage
         /\ stage' \in AfterQemu /\ stage' \notin AfterSlirp
         /\ stage' \in AfterImg <=> stage = "img"
         /\ ~Bundling' \/ stage' = "img"
<1>1. \/ stage = "qemu" /\ stage' = "img"
      \/ stage = "img" /\ stage' = "slirp"
  BY StageOrder DEF Bundling, Binaries, Advance
<1> QED
  BY <1>1 DEF BundledOne, Bundling, Binaries, AfterQemu, AfterImg, AfterSlirp, Finished

\* The end of a binary, for all systems: what has to be seen of bin/.
LEMMA BinaryEnds ==
  ASSUME WheelInv, Bundling, Advance, stack' = <<>>,
         UNCHANGED <<machine, tools, sources, tag, attempt>>,
         Bundled \subseteq Bundled', Bundled' \subseteq Files, bundle' \in [Bundled' -> FileRecords],
         LibsInv',
         \A f \in Binaries : BundledOne(f) => Complete(f)',
         NEW b \in Binaries, b = stage, Complete(b)',
         Linux => \A l \in Reach(b) : ShouldBundle(l) => l \in Bundled',
         machine.os = "windows" => \A l \in Libs : ShouldBundle(l) => l \in Bundled',
         SignedInv'
  PROVE  WheelInv'
<1>1. /\ stage' \in {"img", "slirp"}
      /\ \A f \in Binaries : BundledOne(f)' <=> BundledOne(f) \/ f = b
  BY NextBinary
<1>2. /\ Linux' = Linux /\ \A f : Reach(f)' = Reach(f)
      /\ \A l : ShouldBundle(l)' = ShouldBundle(l)
  BY SameMachine
<1>3. WheelTypes'
  BY <1>1 DEF WheelInv, WheelTypes, StageNames
<1>4. StackInv'
  BY DEF StackInv
<1>5. BinaryInv'
  <2>1. Binaries \subseteq Bundled
    BY DEF WheelInv, BinaryInv, Bundling, Binaries, AfterQemu
  <2>2. ASSUME NEW f \in Binaries, BundledOne(f)'
        PROVE  /\ Complete(f)'
               /\ Linux => \A l \in Reach(f) : ShouldBundle(l) => l \in Bundled'
               /\ machine.os = "windows" => \A l \in Libs : ShouldBundle(l) => l \in Bundled'
    <3>1. CASE BundledOne(f)
      BY <3>1 DEF WheelInv, BinaryInv
    <3>2. CASE f = b
      BY <3>2
    <3> QED
      BY <1>1, <2>2, <3>1, <3>2
  <2> QED
    BY <1>2, <2>1, <2>2 DEF BinaryInv
<1>6. VerifiedInv' /\ GoodMachinesBuild'
  BY <1>1 DEF VerifiedInv, GoodMachinesBuild
<1> QED
  BY <1>3, <1>4, <1>5, <1>6 DEF WheelInv

\* With one frame left every library is complete.
LEMMA LastFrame ==
  ASSUME WheelInv, Bundling, attempt = 1, Len(stack) <= 1
  PROVE  \A l \in Bundled \cap Libs : Complete(l)
<1>1. stage \notin {"failed", "interrupted"}
  BY DEF Bundling, Binaries
<1>2. Len(stack) \in Nat
  BY DEF WheelInv, WheelTypes
<1>3. \A l : ~\E i \in 2..Len(stack) : stack[i].file = l
  BY <1>2
<1> QED
  BY <1>1, <1>3 DEF WheelInv, LibsInv

\* Everything is signed, QEMU with its entitlement.
LEMMA SignKeeps ==
  ASSUME WheelInv, Sign
  PROVE  WheelInv'
<1>1. /\ Bundling /\ Mac /\ ~Linux /\ machine.os # "windows" /\ Len(stack) = 1 /\ stack # <<>>
      /\ Top.left = {} /\ Advance /\ stack' = <<>> /\ stage \in Binaries
      /\ UNCHANGED <<machine, tools, sources, tag, attempt>>
  <2>1. stack # <<>>
    <3>1. Len(stack) = 1
      BY DEF Sign
    <3> QED
      BY <3>1
  <2>2. machine.os = "darwin"
    BY DEF Sign, Mac
  <2> QED
    BY <2>1, <2>2 DEF Sign, Mac, Linux, Bundling
<1>2. PICK b \in Binaries : b = stage
  BY <1>1
<1>3. /\ Top.file = b /\ b \in Bundled /\ Top.listed = Needs(b) /\ Needs(b) \subseteq Libs
      /\ \A l \in Needs(b) : ShouldBundle(l) => l \in Bundled
  <2>1. PICK f : f = Top.file
    OBVIOUS
  <2>2. /\ f = b /\ f \in Files /\ f \in Bundled /\ Top.listed = Listed(f)
        /\ \A l \in Listed(f) : ShouldBundle(l) => l \in Bundled
    BY <1>1, <1>2, <2>1, EmptyTop
  <2>3. Needs(b) \subseteq Libs
    BY <2>2, ReachIsClosed DEF WheelInv, WheelTypes
  <2> QED
    BY <1>1, <2>1, <2>2, <2>3 DEF Listed
<1> DEFINE local == {l \in Needs(b) : ShouldBundle(l)}
<1>4. /\ Bundled' = Bundled
      /\ bundle' = [f \in Bundled |->
                    IF f = b
                    THEN [bundle[f] EXCEPT !.local = local, !.sealed = TRUE, !.entitled = (b = "qemu")]
                    ELSE IF f \in Libs THEN [bundle[f] EXCEPT !.sealed = TRUE]
                    ELSE bundle[f]]
  BY <1>2, <1>3 DEF Sign, Bundled
<1>5. bundle \in [Bundled -> FileRecords] /\ Bundled \subseteq Files /\ b \notin Libs
  BY WheelAssumption DEF WheelInv, WheelTypes
<1>6. ASSUME NEW f \in Bundled
      PROVE  /\ bundle'[f] \in FileRecords
             /\ f = b => /\ bundle'[f].local = local /\ bundle'[f].sealed
                         /\ bundle'[f].entitled = (b = "qemu")
             /\ f \in Libs => bundle'[f].local = bundle[f].local /\ bundle'[f].sealed
             /\ f # b /\ f \notin Libs => bundle'[f] = bundle[f]
  <2>1. bundle[f] \in FileRecords /\ local \subseteq Libs
    BY <1>3, <1>5
  <2>2. CASE f = b
    <3>1. bundle'[f] = [bundle[f] EXCEPT !.local = local, !.sealed = TRUE, !.entitled = (b = "qemu")]
      BY <1>4, <2>2
    <3> HIDE DEF local
    <3> QED
      BY <1>5, <2>1, <2>2, <3>1 DEF FileRecords
  <2>3. CASE f # b /\ f \in Libs
    <3>1. bundle'[f] = [bundle[f] EXCEPT !.sealed = TRUE]
      BY <1>4, <2>3
    <3> QED
      BY <2>1, <2>3, <3>1 DEF FileRecords
  <2>4. CASE f # b /\ f \notin Libs
    BY <1>4, <2>1, <2>4
  <2> QED
    BY <2>2, <2>3, <2>4
<1>7. bundle' \in [Bundled' -> FileRecords]
  BY <1>4, <1>6
<1>8. /\ Mac' /\ ~Linux'
      /\ \A f : Needs(f)' = Needs(f) /\ \A l : ShouldBundle(l)' = ShouldBundle(l)
  BY <1>1, SameMachine DEF Mac, Linux
<1>9. \A l \in Bundled \cap Libs : Complete(l) => Complete(l)'
  BY <1>1, <1>4, <1>6, <1>8 DEF Complete
<1>10. \A f \in Binaries : BundledOne(f) => Complete(f)' /\ f # b
  <2>1. \A f \in Binaries : BundledOne(f) => f # b /\ f \in Bundled /\ Complete(f)
    BY <1>1, <1>2 DEF WheelInv, BinaryInv, BundledOne, AfterQemu, AfterImg, AfterSlirp, Finished,
       Binaries
  <2>2. \A f \in Binaries : f \notin Libs
    BY WheelAssumption
  <2> QED
    BY <1>1, <1>4, <1>6, <1>8, <2>1, <2>2 DEF Complete
<1>11. Complete(b)'
  <2>1. \A l \in Needs(b) : ShouldBundle(l) => l \in Bundled' /\ l \in bundle'[b].local
    BY <1>3, <1>4, <1>6
  <2> QED
    BY <1>8, <2>1 DEF Complete
<1>12. LibsInv'
  <2>1. attempt' = 1 => \A l \in Bundled \cap Libs : Complete(l)'
    BY <1>1, <1>9, LastFrame
  <2> QED
    BY <1>4, <1>8, <2>1 DEF WheelInv, LibsInv
<1>13. SignedInv'
  <2>1. /\ \A f \in Binaries : BundledOne(f)' <=> BundledOne(f) \/ f = b
        /\ stage' \notin AfterSlirp
        /\ stage = "qemu" \/ (stage = "img" /\ BundledOne("qemu") /\ stage \in AfterQemu)
    BY <1>1, <1>2, NextBinary DEF BundledOne, AfterQemu, Binaries
  <2>2. /\ \A f \in Binaries : BundledOne(f) => bundle[f].sealed /\ f \in Bundled /\ f \notin Libs
        /\ stage \in AfterQemu => bundle["qemu"].entitled
    BY <1>1, WheelAssumption DEF WheelInv, SignedInv, BinaryInv, BundledOne, AfterQemu, Binaries
  <2>3. \A f \in Binaries : BundledOne(f)' => bundle'[f].sealed
    BY <1>3, <1>6, <1>10, <2>1, <2>2
  <2>4. bundle'["qemu"].entitled
    BY <1>2, <1>3, <1>6, <1>10, <2>1, <2>2 DEF Binaries
  <2>5. \A l \in Bundled' \cap Libs : bundle'[l].sealed
    BY <1>4, <1>6
  <2> QED
    BY <2>1, <2>3, <2>4, <2>5 DEF SignedInv
<1> QED
  BY <1>1, <1>2, <1>4, <1>5, <1>7, <1>10, <1>11, <1>12, <1>13, BinaryEnds

\* The search path of the binary is set.
LEMMA EndLinuxKeeps ==
  ASSUME WheelInv, EndLinux
  PROVE  WheelInv'
<1>1. /\ Bundling /\ Linux /\ ~Mac /\ machine.os # "windows" /\ stack # <<>> /\ Len(stack) = 1
      /\ Top.left = {} /\ Advance /\ stack' = <<>> /\ stage \in Binaries
      /\ UNCHANGED <<machine, tools, sources, tag, attempt>>
  <2>1. stack # <<>>
    <3>1. Len(stack) = 1
      BY DEF EndLinux
    <3> QED
      BY <3>1
  <2>2. machine.os = "linux"
    BY DEF EndLinux, Linux
  <2> QED
    BY <2>1, <2>2 DEF EndLinux, Mac, Linux, Bundling
<1>2. PICK b \in Binaries : b = stage
  BY <1>1
<1>3. /\ b \in Bundled /\ \A l \in Reach(b) : ShouldBundle(l) => l \in Bundled
  <2>1. PICK f : f = Top.file
    OBVIOUS
  <2> QED
    BY <1>1, <1>2, <2>1, EmptyTop DEF Listed
<1>4. bundle \in [Bundled -> FileRecords] /\ Bundled \subseteq Files /\ b \notin Libs
  BY WheelAssumption DEF WheelInv, WheelTypes
<1> DEFINE file == [bundle[b] EXCEPT !.rpath = TRUE]
<1>5. file \in FileRecords /\ file.rpath
  BY <1>3, <1>4 DEF FileRecords
<1>6. bundle' = [bundle EXCEPT ![b] = file]
  BY <1>2 DEF EndLinux
<1> HIDE DEF file
<1>7. /\ Bundled' = Bundled /\ bundle' \in [Bundled -> FileRecords] /\ bundle'[b] = file
      /\ \A f \in Bundled \ {b} : bundle'[f] = bundle[f]
  BY <1>3, <1>4, <1>5, <1>6 DEF Bundled
<1>8. /\ ~Mac' /\ Linux'
      /\ \A l : ShouldBundle(l)' = ShouldBundle(l)
  BY <1>1, SameMachine DEF Mac, Linux
<1>9. \A f \in Bundled : Complete(f) => Complete(f)'
  BY <1>1, <1>5, <1>7, <1>8 DEF Complete
<1>10. \A f \in Binaries : BundledOne(f) => Complete(f)'
  <2>1. \A f \in Binaries : BundledOne(f) => f \in Bundled /\ Complete(f)
    BY <1>1 DEF WheelInv, BinaryInv, BundledOne, AfterQemu, Binaries
  <2> QED
    BY <1>9, <2>1
<1>11. Complete(b)'
  BY <1>5, <1>7, <1>8 DEF Complete
<1>12. LibsInv'
  <2>1. attempt' = 1 => \A l \in Bundled \cap Libs : Complete(l)'
    BY <1>1, <1>9, LastFrame
  <2> QED
    BY <1>7, <1>8, <2>1 DEF WheelInv, LibsInv
<1>13. SignedInv'
  BY <1>8 DEF SignedInv
<1> QED
  BY <1>1, <1>2, <1>3, <1>4, <1>7, <1>10, <1>11, <1>12, <1>13, BinaryEnds

\* Every DLL is copied.
LEMMA BundleDllsKeeps ==
  ASSUME WheelInv, BundleDlls
  PROVE  WheelInv'
<1>1. /\ Bundling /\ ~Linux /\ ~Mac /\ machine.os = "windows" /\ stack = <<>> /\ stack' = <<>>
      /\ Advance /\ stage \in Binaries
      /\ UNCHANGED <<machine, tools, sources, tag, attempt>>
  <2>1. machine.os = "windows" /\ stack = <<>>
    BY DEF BundleDlls, WheelInv, StackInv
  <2> QED
    BY <2>1 DEF BundleDlls, Mac, Linux, Bundling
<1>2. PICK b \in Binaries : b = stage
  BY <1>1
<1> DEFINE dlls == {l \in Libs : ShouldBundle(l)}
<1>3. /\ Bundled' = Bundled \cup dlls
      /\ bundle' = [f \in Bundled \cup dlls |-> IF f \in Bundled THEN bundle[f] ELSE Original]
  BY DEF BundleDlls, Bundled
<1>4. Original \in FileRecords
  BY DEF Original, FileRecords
<1>5. /\ Bundled' \subseteq Files /\ bundle' \in [Bundled' -> FileRecords]
  BY <1>3, <1>4 DEF WheelInv, WheelTypes, Files
<1>6. /\ ~Mac' /\ ~Linux'
      /\ \A l : ShouldBundle(l)' = ShouldBundle(l)
  BY <1>1, SameMachine DEF Mac, Linux
<1>7. \A f : Complete(f)'
  BY <1>6 DEF Complete
<1>8. LibsInv'
  BY <1>3, <1>6, <1>7 DEF WheelInv, LibsInv
<1>9. SignedInv'
  BY <1>6 DEF SignedInv
<1>10. \A l \in Libs : ShouldBundle(l) => l \in Bundled'
  BY <1>3
<1> QED
  BY <1>1, <1>2, <1>3, <1>5, <1>7, <1>8, <1>9, <1>10, BinaryEnds

\* The binaries are copied over those of an earlier build.
LEMMA CopyBinariesKeeps ==
  ASSUME WheelInv, CopyBinaries
  PROVE  WheelInv'
<1>1. /\ stage = "copy" /\ stage' = "qemu" /\ stack = <<>> /\ stack' = <<>>
      /\ UNCHANGED <<machine, tools, sources, tag, attempt>>
      /\ bundle' = [f \in Bundled \cup Binaries |-> IF f \in Binaries THEN Original ELSE bundle[f]]
  BY NoStack, StageOrder DEF CopyBinaries, Advance, Bundling, Binaries
<1>2. /\ Bundled' = Bundled \cup Binaries
      /\ \A f \in Bundled \ Binaries : bundle'[f] = bundle[f]
  BY <1>1 DEF Bundled
<1>3. WheelTypes'
  <2>1. Original \in FileRecords /\ Binaries \subseteq Files
    BY DEF Original, FileRecords, Files
  <2>2. bundle' \in [Bundled' -> FileRecords]
    BY <1>1, <1>2, <2>1 DEF WheelInv, WheelTypes
  <2> QED
    BY <1>1, <1>2, <2>1, <2>2 DEF WheelInv, WheelTypes, StageNames
<1>4. StackInv'
  BY <1>1 DEF StackInv
<1>5. LibsInv'
  <2>1. \A l \in Bundled' \cap Libs : l \in Bundled /\ l \notin Binaries
    BY <1>2, WheelAssumption
  <2>2. \A l \in Bundled' \cap Libs : Complete(l) => Complete(l)'
    BY <1>1, <1>2, <2>1, StaysComplete
  <2>3. \A l : ShouldBundle(l)' = ShouldBundle(l)
    BY <1>1, SameMachine
  <2>4. \A l : ~\E i \in 2..Len(stack) : stack[i].file = l
    BY <1>1
  <2> QED
    BY <1>1, <2>1, <2>2, <2>3, <2>4 DEF WheelInv, LibsInv
<1>6. stage' \notin AfterQemu /\ stage' \notin AfterImg /\ stage' \notin AfterSlirp
  BY <1>1 DEF AfterQemu, AfterImg, AfterSlirp, Finished
<1>7. \A f : ~BundledOne(f)'
  BY <1>6 DEF BundledOne
<1>8. BinaryInv' /\ SignedInv'
  BY <1>1, <1>2, <1>6, <1>7 DEF BinaryInv, SignedInv
<1>9. VerifiedInv' /\ GoodMachinesBuild'
  BY <1>1 DEF VerifiedInv, GoodMachinesBuild
<1> QED
  BY <1>3, <1>4, <1>5, <1>8, <1>9 DEF WheelInv

\* The binaries are as they were when only other files are written.
LEMMA BinariesStay ==
  ASSUME WheelInv, UNCHANGED machine, Bundled \subseteq Bundled',
         stage \in AfterImg, stage' \in AfterImg,
         \A f \in Binaries : bundle'[f] = bundle[f]
  PROVE  BinaryInv'
<1>1. \A f \in Binaries : BundledOne(f)
  BY DEF BundledOne, AfterQemu, Binaries
<1>2. \A f \in Binaries : Complete(f)'
  BY <1>1, StaysComplete DEF WheelInv, BinaryInv
<1>3. /\ Linux' = Linux /\ \A f : Reach(f)' = Reach(f)
      /\ \A l : ShouldBundle(l)' = ShouldBundle(l)
  BY SameMachine
<1>4. Binaries \subseteq Bundled
  BY DEF WheelInv, BinaryInv, AfterQemu
<1> QED
  BY <1>1, <1>2, <1>3, <1>4 DEF WheelInv, BinaryInv

\* On macOS the patched libslirp takes the place of the bundled one.
LEMMA PatchSlirpKeeps ==
  ASSUME WheelInv, PatchSlirp
  PROVE  WheelInv'
<1>1. /\ stage = "slirp" /\ stage' = "data" /\ stack = <<>> /\ stack' = <<>>
      /\ UNCHANGED <<machine, sources, tag, attempt>> /\ tools' \subseteq Tools
      /\ Mac => ~SlirpRefused /\ bundle' = With(Slirp, Patched)
      /\ ~Mac => bundle' = bundle
  BY NoStack, StageOrder DEF PatchSlirp, Advance, Bundling, Binaries, BuildTools, WheelInv,
     WheelTypes, Tools
<1>2. /\ machine \in Machines /\ Slirp \in Libs /\ Slirp \in Files /\ Slirp \notin Binaries
      /\ Bundled \subseteq Files /\ bundle \in [Bundled -> FileRecords] /\ Needs(Slirp) \subseteq Libs
  BY WheelAssumption, ReachIsClosed DEF WheelInv, WheelTypes, Files
<1>3. Mac => Slirp \in Bundled /\ Slirp \in Needs("qemu")
  BY <1>1 DEF SlirpRefused
<1>4. /\ Patched \in FileRecords /\ Patched.patched /\ Patched.sealed
      /\ Patched.local = Needs(Slirp) \cap Bundled
  BY <1>2 DEF Patched, FileRecords
<1>5. /\ Bundled' = Bundled /\ \A f \in Bundled \ {Slirp} : bundle'[f] = bundle[f]
      /\ Mac => bundle'[Slirp] = Patched
      /\ bundle' \in [Bundled' -> FileRecords]
  <2>1. CASE Mac
    <3>1. bundle' = [g \in Bundled \cup {Slirp} |-> IF g = Slirp THEN Patched ELSE bundle[g]]
      BY <1>1, <2>1 DEF With, Bundled
    <3> HIDE DEF Patched
    <3>2. bundle' = [g \in Bundled |-> IF g = Slirp THEN Patched ELSE bundle[g]]
      <4>1. Bundled \cup {Slirp} = Bundled
        BY <1>3, <2>1
      <4> QED
        BY <3>1, <4>1
    <3>3. Bundled' = Bundled
      BY <3>2 DEF Bundled
    <3> QED
      BY <1>2, <1>3, <1>4, <2>1, <3>2, <3>3
  <2>2. CASE ~Mac
    BY <1>1, <1>2, <2>2 DEF Bundled
  <2> QED
    BY <2>1, <2>2
<1>6. WheelTypes'
  BY <1>1, <1>5 DEF WheelInv, WheelTypes, StageNames
<1>7. StackInv'
  BY <1>1 DEF StackInv
<1>8. /\ Mac' = Mac /\ Linux' = Linux /\ (Mac => ~Linux)
      /\ \A f : Needs(f)' = Needs(f)
      /\ \A l : ShouldBundle(l)' = ShouldBundle(l)
  BY <1>1, SameMachine DEF Mac, Linux
<1>9. LibsInv'
  <2>1. attempt = 1 => \A l \in Bundled \cap Libs : Complete(l)
    <3>1. \A l : ~\E i \in 2..Len(stack) : stack[i].file = l
      BY <1>1
    <3> QED
      BY <1>1, <3>1 DEF WheelInv, LibsInv
  <2>2. \A l \in Bundled \ {Slirp} : Complete(l) => Complete(l)'
    BY <1>1, <1>5, StaysComplete
  <2>3. Mac => (Complete(Slirp) => Complete(Slirp)')
    BY <1>4, <1>5, <1>8 DEF Complete
  <2>4. ~Mac => (Complete(Slirp) => Complete(Slirp)')
    BY <1>1, <1>5, StaysComplete
  <2> QED
    BY <1>1, <1>5, <1>8, <2>1, <2>2, <2>3, <2>4 DEF WheelInv, LibsInv
<1>10. \A f \in Binaries : f \in Bundled /\ bundle'[f] = bundle[f]
  <2>1. \A f \in Binaries : f \in Bundled
    BY <1>1 DEF WheelInv, BinaryInv, AfterQemu, AfterImg
  <2> QED
    BY <1>2, <1>5, <2>1
<1>11. stage \in AfterImg /\ stage' \in AfterImg /\ stage \in AfterQemu
  BY <1>1 DEF AfterQemu, AfterImg, AfterSlirp
<1>12. BinaryInv'
  BY <1>1, <1>5, <1>10, <1>11, BinariesStay
<1>13. SignedInv'
  <2> SUFFICES ASSUME Mac' PROVE SignedInv'
    BY DEF SignedInv
  <2>1. \A f \in Binaries : bundle[f].sealed
    BY <1>8, <1>11 DEF WheelInv, SignedInv, BundledOne, Binaries
  <2>2. bundle["qemu"].entitled /\ \A l \in Bundled \cap Libs : bundle[l].sealed
    BY <1>8, <1>11 DEF WheelInv, SignedInv
  <2>3. /\ \A f \in Binaries : bundle'[f].sealed
        /\ bundle'["qemu"].entitled
    BY <1>10, <2>1, <2>2 DEF Binaries
  <2>4. \A l \in Bundled' \cap Libs : bundle'[l].sealed
    BY <1>4, <1>5, <1>8, <2>2
  <2>5. Slirp \in Bundled' /\ Slirp \in Needs("qemu")' /\ bundle'[Slirp].patched
    BY <1>3, <1>4, <1>5, <1>8
  <2> QED
    BY <2>3, <2>4, <2>5 DEF SignedInv
<1>14. VerifiedInv' /\ GoodMachinesBuild'
  BY <1>1 DEF VerifiedInv, GoodMachinesBuild
<1> QED
  BY <1>6, <1>7, <1>9, <1>12, <1>13, <1>14 DEF WheelInv

\* On Linux the accelerators come in beside the rest.
LEMMA ModulesKeeps ==
  ASSUME WheelInv, Modules
  PROVE  WheelInv'
<1>1. /\ stage = "modules" /\ stage' = "licences" /\ stack = <<>> /\ stack' = <<>>
      /\ UNCHANGED <<machine, tools, sources, tag, attempt>>
      /\ bundle' = bundle \/ (Linux /\ bundle' = With("accel", Original))
  BY NoStack, StageOrder DEF Modules, Advance, Bundling, Binaries
<1>2. /\ "accel" \in Files /\ "accel" \notin Libs /\ "accel" \notin Binaries
      /\ Bundled \subseteq Files /\ bundle \in [Bundled -> FileRecords]
      /\ Original \in FileRecords
  BY WheelAssumption DEF WheelInv, WheelTypes, Files, Binaries, Original, FileRecords
<1>3. /\ Bundled \subseteq Bundled' /\ Bundled' \subseteq Bundled \cup {"accel"}
      /\ \A f \in Bundled \ {"accel"} : bundle'[f] = bundle[f]
      /\ bundle' \in [Bundled' -> FileRecords]
  <2>1. CASE bundle' = bundle
    BY <1>2, <2>1 DEF Bundled
  <2>2. CASE bundle' = With("accel", Original)
    <3>1. bundle' = [g \in Bundled \cup {"accel"} |-> IF g = "accel" THEN Original ELSE bundle[g]]
      BY <2>2 DEF With, Bundled
    <3>2. Bundled' = Bundled \cup {"accel"}
      BY <3>1 DEF Bundled
    <3> QED
      BY <1>2, <3>1, <3>2
  <2> QED
    BY <1>1, <2>1, <2>2
<1>4. WheelTypes'
  BY <1>1, <1>2, <1>3 DEF WheelInv, WheelTypes, StageNames
<1>5. StackInv'
  BY <1>1 DEF StackInv
<1>6. /\ Mac' = Mac /\ Linux' = Linux /\ \A f : Needs(f)' = Needs(f)
      /\ \A l : ShouldBundle(l)' = ShouldBundle(l)
  BY <1>1, SameMachine
<1>7. Bundled' \cap Libs = Bundled \cap Libs /\ \A l \in Bundled \cap Libs : bundle'[l] = bundle[l]
  BY <1>2, <1>3
<1>8. LibsInv'
  <2>1. \A l \in Bundled \cap Libs : Complete(l) => Complete(l)'
    BY <1>1, <1>3, <1>7, StaysComplete
  <2>2. \A l : ~\E i \in 2..Len(stack) : stack[i].file = l
    BY <1>1
  <2> QED
    BY <1>1, <1>6, <1>7, <2>1, <2>2 DEF WheelInv, LibsInv
<1>9. \A f \in Binaries : f \in Bundled /\ bundle'[f] = bundle[f]
  <2>1. \A f \in Binaries : f \in Bundled
    BY <1>1 DEF WheelInv, BinaryInv, AfterQemu, AfterImg, AfterSlirp
  <2> QED
    BY <1>2, <1>3, <2>1
<1>10. /\ stage \in AfterImg /\ stage' \in AfterImg /\ stage \in AfterQemu /\ stage \in AfterSlirp
  BY <1>1 DEF AfterQemu, AfterImg, AfterSlirp
<1>11. BinaryInv'
  BY <1>1, <1>3, <1>9, <1>10, BinariesStay
<1>12. SignedInv'
  <2> SUFFICES ASSUME Mac' PROVE SignedInv'
    BY DEF SignedInv
  <2>1. \A f \in Binaries : bundle[f].sealed
    BY <1>6, <1>10 DEF WheelInv, SignedInv, BundledOne, Binaries
  <2>2. /\ bundle["qemu"].entitled /\ \A l \in Bundled \cap Libs : bundle[l].sealed
        /\ Slirp \in Bundled /\ Slirp \in Needs("qemu") /\ bundle[Slirp].patched
    BY <1>6, <1>10 DEF WheelInv, SignedInv
  <2>3. Slirp \in Libs
    BY WheelAssumption
  <2>4. /\ \A f \in Binaries : bundle'[f].sealed
        /\ bundle'["qemu"].entitled
    BY <1>9, <2>1, <2>2 DEF Binaries
  <2>5. \A l \in Bundled' \cap Libs : bundle'[l].sealed
    BY <1>7, <2>2
  <2>6. Slirp \in Bundled' /\ Slirp \in Needs("qemu")' /\ bundle'[Slirp].patched
    BY <1>3, <1>6, <1>7, <2>2, <2>3
  <2> QED
    BY <2>4, <2>5, <2>6 DEF SignedInv
<1>13. VerifiedInv' /\ GoodMachinesBuild'
  BY <1>1 DEF VerifiedInv, GoodMachinesBuild
<1> QED
  BY <1>4, <1>5, <1>8, <1>11, <1>12, <1>13 DEF WheelInv

-----------------------------------------------------------------------------
(* The build as a whole.                                                    *)

\* A build starts with nothing in bin/.
LEMMA WheelInit ==
  ASSUME BuildInit
  PROVE  WheelInv
<1>1. /\ machine \in Machines /\ stage = "install" /\ tools = machine.tools
      /\ stack = <<>> /\ bundle = <<>> /\ sources = {} /\ tag = 0 /\ attempt = 1
  BY DEF BuildInit
<1>2. DOMAIN bundle = {} /\ Bundled = {} /\ bundle \in [Bundled -> FileRecords]
  BY <1>1 DEF Bundled
<1>3. stack \in Seq(FrameRecords) /\ \A i \in 1..Len(stack) : FALSE
  BY <1>1
<1>4. WheelTypes
  BY <1>1, <1>2, <1>3, MachineFacts DEF WheelTypes, StageNames
<1>5. StackInv /\ LibsInv
  BY <1>1, <1>2, <1>3 DEF StackInv, LibsInv
<1>6. BinaryInv /\ SignedInv
  BY <1>1, <1>2 DEF BinaryInv, SignedInv, BundledOne, AfterQemu, AfterImg, AfterSlirp, Finished
<1>7. VerifiedInv /\ GoodMachinesBuild
  BY <1>1 DEF VerifiedInv, GoodMachinesBuild
<1> QED
  BY <1>4, <1>5, <1>6, <1>7 DEF WheelInv

\* Every step of the build keeps the invariant.
LEMMA WheelStep ==
  ASSUME WheelInv, BuildNext
  PROVE  WheelInv'
<1>1. CASE Ensure \/ EnsureFails
  BY <1>1, EnsureKeeps
<1>2. CASE CopyBinaries
  BY <1>2, CopyBinariesKeeps
<1>3. CASE StartBundling
  BY <1>3, StartBundlingKeeps
<1>4. CASE Rewrite
  BY <1>4, RewriteKeeps
<1>5. CASE SetPath
  BY <1>5, SetPathKeeps
<1>6. CASE NotFound
  BY <1>6, NotFoundKeeps
<1>7. CASE Sign
  BY <1>7, SignKeeps
<1>8. CASE EndLinux
  BY <1>8, EndLinuxKeeps
<1>9. CASE BundleDlls
  BY <1>9, BundleDllsKeeps
<1>10. CASE \E l \in Libs : PassOver(l) \/ CopyLib(l)
  BY <1>10, PassOverKeeps, CopyLibKeeps
<1>11. CASE PatchSlirp \/ PatchFails
  BY <1>11, PatchSlirpKeeps, PatchFailsKeeps
<1>12. CASE DataFiles \/ Licences \/ Sources
  BY <1>12, DataKeeps
<1>13. CASE Modules
  BY <1>13, ModulesKeeps
<1>14. CASE Verify \/ Tag
  BY <1>14, VerifyKeeps, TagKeeps
<1>15. CASE Interrupt \/ Again
  BY <1>15, InterruptionKeeps
<1> QED
  BY <1>1, <1>2, <1>3, <1>4, <1>5, <1>6, <1>7, <1>8, <1>9, <1>10, <1>11, <1>12, <1>13, <1>14,
     <1>15 DEF BuildNext

\* A finished wheel is complete and signed: what its binaries load is in it and
\* found there, on macOS when it was built from an empty bin/.
LEMMA FinishedWheel ==
  ASSUME WheelInv, stage = "done"
  PROVE  /\ (Mac => attempt = 1) => \A f \in Shipped : \A l \in Needs(f) : Resolves(f, l)
         /\ Linux => tag \in Nat /\ \A f \in Bundled : machine.glibc[f] <= tag
         /\ Mac => /\ bundle["qemu"].entitled /\ \A f \in Shipped : bundle[f].sealed
                   /\ Slirp \in bundle["qemu"].local /\ bundle[Slirp].patched
<1>1. /\ stack = <<>> /\ VerifyPasses("qemu") /\ VerifyPasses("img") /\ machine \in Machines
      /\ stage \in AfterQemu /\ stage \in AfterImg /\ stage \in AfterSlirp
      /\ BundledOne("qemu") /\ BundledOne("img")
      /\ Linux => tag \in Nat /\ \A f \in Bundled : machine.glibc[f] <= tag
  BY NoStack DEF WheelInv, WheelTypes, VerifiedInv, AfterQemu, AfterImg, AfterSlirp, Finished,
     Bundling, Binaries, BundledOne
<1>2. ASSUME NEW b \in Binaries
      PROVE  /\ Needs(b) \subseteq Libs /\ Reach(b) \subseteq Libs /\ Needs(b) \subseteq Reach(b)
             /\ \A l \in Reach(b) : Needs(l) \subseteq Reach(b)
             /\ VerifyPasses(b) /\ Complete(b) /\ b \notin Libs
  BY <1>1, ReachIsClosed, WheelAssumption DEF WheelInv, BinaryInv, Files, Binaries
<1>3. ASSUME NEW f \in Shipped
      PROVE  \E b \in Binaries : f \in Bundled /\ (f = b \/ f \in Reach(b))
  BY <1>3 DEF Shipped, Binaries
<1>4. ASSUME Mac => attempt = 1, NEW f \in Shipped, NEW l \in Needs(f)
      PROVE  Resolves(f, l)
  <2>1. PICK b \in Binaries : f \in Bundled /\ (f = b \/ f \in Reach(b))
    BY <1>3
  <2>2. /\ RunsHere(b) /\ Isolated(b) /\ f \in Loaded(b) /\ l \in Reach(b) /\ l \in Libs
    BY <1>2, <2>1 DEF VerifyPasses, Loaded
  <2>3. CASE Mac
    <3>1. CASE f = b
      BY <2>2, <2>3, <3>1 DEF Isolated, IsolatedMacos, Mac, Linux
    <3>2. CASE f # b
      <4>1. f \in Bundled \cap Libs
        BY <1>2, <2>1, <3>2
      <4>2. Complete(f)
        <5>1. \A k : ~\E i \in 2..Len(stack) : stack[i].file = k
          BY <1>1
        <5> QED
          BY <1>4, <2>3, <4>1, <5>1 DEF WheelInv, LibsInv
      <4>3. l \notin machine.missing
        <5>1. l \in machine.missing => l \in Bundled \cap Libs
          BY <2>2 DEF RunsHere
        <5> QED
          BY <5>1 DEF WheelInv, LibsInv, ShouldBundle
      <4> QED
        BY <2>3, <4>2, <4>3 DEF Complete, Resolves, ShouldBundle, SystemLibs
    <3> QED
      BY <3>1, <3>2
  <2>4. CASE Linux
    <3>1. IsolatedLinux(b)
      BY <2>2, <2>4 DEF Isolated, Mac, Linux
    <3> QED
      BY <2>2, <3>1 DEF IsolatedLinux
  <2>5. CASE ~Mac /\ ~Linux
    <3>1. IsolatedWindows(b)
      BY <2>2, <2>5 DEF Isolated
    <3>2. l \in Bundled \cup machine.system
      BY <2>2, <3>1 DEF IsolatedWindows
    <3> QED
      BY <2>5, <3>2 DEF Resolves
  <2> QED
    BY <2>3, <2>4, <2>5
<1>5. ASSUME Mac
      PROVE  /\ bundle["qemu"].entitled /\ \A f \in Shipped : bundle[f].sealed
             /\ Slirp \in bundle["qemu"].local /\ bundle[Slirp].patched
  <2>1. /\ bundle["qemu"].entitled /\ bundle["qemu"].sealed /\ bundle["img"].sealed
        /\ \A l \in Bundled \cap Libs : bundle[l].sealed
        /\ Slirp \in Bundled /\ Slirp \in Needs("qemu") /\ bundle[Slirp].patched
    BY <1>1, <1>5 DEF WheelInv, SignedInv, Binaries
  <2>2. \A f \in Shipped : bundle[f].sealed
    <3>1. \A f \in Shipped : f \in Binaries \/ f \in Bundled \cap Libs
      BY <1>2, <1>3
    <3> QED
      BY <2>1, <3>1 DEF Binaries
  <2>3. Slirp \in bundle["qemu"].local
    <3>1. ShouldBundle(Slirp)
      BY <2>1, WheelAssumption DEF WheelInv, LibsInv
    <3>2. Complete("qemu")
      BY <1>2 DEF Binaries
    <3> QED
      BY <1>5, <2>1, <3>1, <3>2 DEF Complete
  <2> QED
    BY <2>1, <2>2, <2>3
<1> QED
  BY <1>1, <1>4, <1>5

\* What the build made stays as it is when it rests.
LEMMA WheelRests ==
  ASSUME WheelInv, UNCHANGED buildVars
  PROVE  WheelInv'
<1>1. /\ UNCHANGED <<machine, stage, tools, stack, bundle, sources, tag, attempt>>
      /\ Bundled' = Bundled /\ Bundling' = Bundling
  BY DEF buildVars, Bundled, Bundling
<1>2. /\ Mac' = Mac /\ Linux' = Linux
      /\ \A f : Needs(f)' = Needs(f) /\ Reach(f)' = Reach(f) /\ Listed(f)' = Listed(f)
      /\ \A l : ShouldBundle(l)' = ShouldBundle(l)
  BY <1>1, SameMachine
<1>3. \A f : Complete(f)' = Complete(f) /\ BundledOne(f)' = BundledOne(f)
  BY <1>1, <1>2 DEF Complete, BundledOne
<1>4. WheelTypes'
  BY <1>1 DEF WheelInv, WheelTypes
<1>5. StackInv'
  <2>1. ASSUME NEW i \in 1..Len(stack) PROVE FrameAt(i)'
    <3>1. FrameAt(i)
      BY DEF WheelInv, StackInv
    <3>2. Listed(stack[i].file)' = Listed(stack[i].file)
      BY <1>1 DEF Listed, Linux, Reach, Needs
    <3> QED
      BY <1>1, <1>2, <3>1, <3>2 DEF FrameAt
  <2> QED
    BY <1>1, <2>1 DEF WheelInv, StackInv
<1>6. LibsInv' /\ BinaryInv'
  BY <1>1, <1>2, <1>3 DEF WheelInv, LibsInv, BinaryInv
<1>7. SignedInv'
  BY <1>1, <1>2, <1>3 DEF WheelInv, SignedInv
<1>8. VerifiedInv'
  BY <1>1, <1>2, SameVerdict DEF WheelInv, VerifiedInv
<1>9. GoodMachinesBuild'
  BY <1>1, <1>2 DEF WheelInv, GoodMachinesBuild
<1> QED
  BY <1>4, <1>5, <1>6, <1>7, <1>8, <1>9 DEF WheelInv

-----------------------------------------------------------------------------
(* The list of sources.  On macOS it is made from what QEMU depends on, not *)
(* from what is in bin/, which has to be within that.                       *)

NamedInv ==
    /\ Mac => /\ Bundled \cap Libs \subseteq Reach("qemu") \cup Reach("img")
              /\ \A i \in 1..Len(stack) : stack[i].listed \subseteq Reach(stage)
    /\ stage \in Finished => \/ \A l \in Libs \cap Bundled : l \in sources \cup machine.unknown
                             \/ Mac /\ sources = {}

\* Steps outside the recursion that add no library to bin/.
LEMMA NamedRests ==
  ASSUME WheelInv, NamedInv, UNCHANGED machine, Mac => Bundled' \cap Libs \subseteq Bundled,
         stack' = <<>>,
         stage' \in Finished => stage \in Finished /\ UNCHANGED <<bundle, sources>>
  PROVE  NamedInv'
<1>1. Mac' = Mac /\ \A f : Reach(f)' = Reach(f)
  BY SameMachine
<1>2. \A i \in 1..Len(stack') : FALSE
  OBVIOUS
<1>3. Mac => Bundled' \cap Libs \subseteq Reach("qemu") \cup Reach("img")
  BY DEF NamedInv
<1>4. stage' \in Finished =>
        \/ \A l \in Libs \cap Bundled' : l \in sources' \cup machine'.unknown
        \/ Mac' /\ sources' = {}
  BY <1>1 DEF NamedInv, Bundled
<1>5. /\ Reach("qemu")' = Reach("qemu") /\ Reach("img")' = Reach("img")
  BY <1>1
<1> QED
  BY <1>1, <1>2, <1>3, <1>4, <1>5 DEF NamedInv

\* Steps of the recursion: what is listed is within reach of the binary.
LEMMA NamedFrames ==
  ASSUME WheelInv, NamedInv, UNCHANGED <<machine, stage, sources>>, stage \in {"qemu", "img"},
         Mac => /\ Bundled' \cap Libs \subseteq Bundled \cup Reach(stage)
                /\ \A i \in 1..Len(stack') : stack'[i].listed \subseteq Reach(stage)
  PROVE  NamedInv'
<1>1. Mac' = Mac /\ \A f : Reach(f)' = Reach(f)
  BY SameMachine
<1>2. Mac => Bundled' \cap Libs \subseteq Reach("qemu") \cup Reach("img")
  BY DEF NamedInv
<1>3. stage' \notin Finished
  BY DEF Finished
<1>4. Reach(stage)' = Reach(stage) /\ Reach("qemu")' = Reach("qemu") /\ Reach("img")' = Reach("img")
  BY DEF Reach, Needs
<1> QED
  BY <1>1, <1>2, <1>3, <1>4 DEF NamedInv

\* A library of the top frame, on macOS.
LEMMA TopReaches ==
  ASSUME WheelInv, NamedInv, Mac, stack # <<>>, NEW l \in Top.left
  PROVE  /\ stage \in {"qemu", "img"} /\ l \in Libs /\ l \in Reach(stage)
         /\ Listed(l) \subseteq Reach(stage)
<1>1. PICK n \in Nat : n = Len(stack) /\ n >= 1 /\ stack[n] \in FrameRecords
  BY DEF WheelInv, WheelTypes
<1>2. FrameAt(n) /\ stage \in {"qemu", "img"} /\ stage \in Files /\ machine \in Machines
  BY <1>1 DEF WheelInv, WheelTypes, StackInv, Bundling, Binaries, Files
<1>3. l \in Reach(stage)
  BY <1>1, <1>2 DEF FrameAt, Top, NamedInv
<1> QED
  BY <1>2, <1>3, ReachIsClosed DEF Listed, Mac, Linux

\* The list names what is within reach, as far as a package owns it.
LEMMA NamedStep ==
  ASSUME WheelInv, NamedInv, BuildNext
  PROVE  NamedInv'
<1>0. machine \in Machines /\ Slirp \in Libs /\ Libs \cap (Binaries \cup {"accel"}) = {}
  BY MachineFacts DEF WheelInv, WheelTypes
<1>1. CASE Ensure \/ EnsureFails \/ PatchFails \/ DataFiles \/ Licences
  <2>1. /\ UNCHANGED <<machine, bundle, sources, stack>> /\ stack = <<>>
        /\ stage' \notin Finished
    BY <1>1, NoStack, StageOrder DEF Ensure, EnsureFails, PatchFails, DataFiles, Licences, Advance,
       Bundling, Binaries, Finished
  <2> QED
    BY <2>1, NamedRests DEF Bundled
<1>2. CASE CopyBinaries
  <2>1. /\ UNCHANGED <<machine, sources, stack>> /\ stack = <<>> /\ stage' = "qemu"
        /\ Bundled' = Bundled \cup Binaries
    BY <1>2, NoStack, StageOrder DEF CopyBinaries, Advance, Bundling, Binaries, Bundled
  <2> QED
    BY <1>0, <2>1, NamedRests DEF Finished
<1>3. CASE StartBundling
  <2>1. /\ UNCHANGED <<machine, stage, bundle, sources>> /\ stage \in {"qemu", "img"}
        /\ stack' = <<Frame(stage)>> /\ stage \in Files
    BY <1>3 DEF StartBundling, Bundling, Binaries, Files
  <2>2. Mac => Frame(stage).listed \subseteq Reach(stage)
    BY <1>0, <2>1, ReachIsClosed DEF Frame, Listed, Mac, Linux
  <2>3. Len(stack') = 1 /\ stack'[1] = Frame(stage)
    BY <2>1
  <2>4. Mac => \A i \in 1..Len(stack') : stack'[i].listed \subseteq Reach(stage)
    BY <2>2, <2>3
  <2> QED
    BY <2>1, <2>4, NamedFrames DEF Bundled
<1>4. ASSUME NEW l \in Libs, PassOver(l) PROVE NamedInv'
  <2>1. /\ UNCHANGED <<machine, stage, bundle, sources>> /\ stage \in {"qemu", "img"}
        /\ stack # <<>> /\ stack' = Looked(l)
    BY <1>4 DEF PassOver, Bundling, Binaries
  <2>2. Len(stack') = Len(stack) /\ \A i \in 1..Len(stack) : stack'[i].listed = stack[i].listed
    BY <2>1, LookedStack DEF WheelInv
  <2>3. Mac => \A i \in 1..Len(stack') : stack'[i].listed \subseteq Reach(stage)
    BY <2>2 DEF NamedInv
  <2> QED
    BY <2>1, <2>3, NamedFrames DEF Bundled
<1>5. ASSUME NEW l \in Libs, CopyLib(l) PROVE NamedInv'
  <2> DEFINE s == Looked(l)
  <2>1. /\ UNCHANGED <<machine, stage, sources>> /\ stage \in {"qemu", "img"}
        /\ stack # <<>> /\ stack' = Append(s, Frame(l)) /\ l \in Top.left
        /\ Bundled' = Bundled \cup {l}
    BY <1>5 DEF CopyLib, Bundling, Binaries, With, Bundled
  <2>2. /\ s \in Seq(FrameRecords) /\ Len(s) = Len(stack)
        /\ \A i \in 1..Len(stack) : s[i].listed = stack[i].listed
    BY <2>1, LookedStack DEF WheelInv
  <2>3. l \in Files
    BY DEF Files
  <2> HIDE DEF s
  <2>4. /\ \A i \in 1..Len(stack') : i \in 1..Len(stack) \/ stack'[i] = Frame(l)
        /\ \A i \in 1..Len(stack) : stack'[i] = s[i]
    BY <2>1, <2>2
  <2>5. Mac => Frame(l).listed \subseteq Reach(stage) /\ l \in Reach(stage)
    BY <2>1, TopReaches DEF Frame
  <2>6. Mac => \A i \in 1..Len(stack') : stack'[i].listed \subseteq Reach(stage)
    BY <2>2, <2>4, <2>5 DEF NamedInv
  <2> QED
    BY <2>1, <2>5, <2>6, NamedFrames
<1>6. CASE Rewrite \/ SetPath
  <2>1. /\ UNCHANGED <<machine, stage, sources>> /\ stage \in {"qemu", "img"}
        /\ stack # <<>> /\ Pop /\ Bundled' = Bundled
    BY <1>6 DEF Rewrite, SetPath, Bundling, Binaries, Bundled
  <2>2. /\ Len(stack') = Len(stack) - 1 /\ Len(stack) \in Nat
        /\ \A i \in 1..Len(stack') : stack'[i] = stack[i]
    BY <2>1, PoppedStack DEF WheelInv
  <2>3. Mac => \A i \in 1..Len(stack') : stack'[i].listed \subseteq Reach(stage)
    BY <2>2 DEF NamedInv
  <2> QED
    BY <2>1, <2>3, NamedFrames
<1>7. CASE NotFound \/ Sign \/ EndLinux \/ BundleDlls
  <2>1. /\ UNCHANGED <<machine, sources>> /\ stack' = <<>> /\ stage' \notin Finished
        /\ Mac => Bundled' = Bundled
    <3>1. CASE NotFound
      BY <3>1 DEF NotFound, Bundled, Finished
    <3>2. stage \in {"qemu", "img"}
      BY <1>7 DEF NotFound, Sign, EndLinux, BundleDlls, Bundling, Binaries
    <3>3. StageAfter(stage) \notin Finished
      BY <3>2, StageOrder DEF Finished
    <3>4. CASE Sign
      BY <3>3, <3>4 DEF Sign, Bundled, Advance
    <3>5. CASE EndLinux
      BY <3>3, <3>5 DEF EndLinux, Bundled, Advance
    <3>6. CASE BundleDlls
      BY <3>3, <3>6 DEF BundleDlls, Advance, Mac, WheelInv, StackInv
    <3> QED
      BY <1>7, <3>1, <3>4, <3>5, <3>6
  <2> QED
    BY <2>1, NamedRests
<1>8. CASE PatchSlirp
  <2>1. /\ UNCHANGED <<machine, sources, stack>> /\ stack = <<>> /\ stage' = "data"
        /\ Mac => ~SlirpRefused /\ bundle' = With(Slirp, Patched)
        /\ ~Mac => bundle' = bundle
    BY <1>8, NoStack, StageOrder DEF PatchSlirp, Advance, Bundling, Binaries
  <2>2. Mac => Bundled' = Bundled
    BY <2>1 DEF SlirpRefused, With, Bundled
  <2> QED
    BY <2>1, <2>2, NamedRests DEF Finished
<1>9. CASE Modules
  <2>1. /\ UNCHANGED <<machine, sources, stack>> /\ stack = <<>> /\ stage' = "licences"
        /\ Bundled' \subseteq Bundled \cup {"accel"}
    BY <1>9, NoStack, StageOrder DEF Modules, Advance, Bundling, Binaries, With, Bundled
  <2> QED
    BY <1>0, <2>1, NamedRests DEF Finished
<1>10. CASE Sources
  <2>1. /\ UNCHANGED <<machine, bundle, stack>> /\ stack = <<>> /\ stage' = "verify_qemu"
        /\ Bundled' = Bundled /\ Mac' = Mac
        /\ \/ Mac /\ sources' \in {BrewDeps, {}}
           \/ Linux /\ sources' = SourcesLinux
           \/ ~Mac /\ ~Linux /\ sources' = SourcesWindows
    BY <1>10, NoStack, StageOrder DEF Sources, Advance, Bundling, Binaries, Bundled, Mac
  <2>2. ASSUME NEW l \in Libs \cap Bundled, l \notin machine.unknown, ~(Mac /\ sources' = {})
        PROVE  l \in sources'
    <3>1. CASE Mac
      <4>1. l \in Reach("qemu") \cup Reach("img")
        BY <2>2, <3>1 DEF NamedInv
      <4>2. l \notin machine.missing
        BY <2>2 DEF WheelInv, LibsInv, ShouldBundle
      <4>3. l \in BrewDeps
        BY <2>2, <4>1, <4>2 DEF BrewDeps, Binaries
      <4>4. ~Linux
        BY <3>1 DEF Mac, Linux
      <4> QED
        BY <2>1, <2>2, <3>1, <4>3, <4>4
    <3>2. CASE ~Mac
      BY <2>1, <2>2, <3>2 DEF SourcesLinux, SourcesWindows, Collected, Owned, UpstreamMap
    <3> QED
      BY <3>1, <3>2
  <2>3. \A f : Reach(f)' = Reach(f)
    BY <2>1, SameMachine
  <2>4. Mac => Bundled \cap Libs \subseteq Reach("qemu")' \cup Reach("img")'
    BY <2>3 DEF NamedInv
  <2>5. \A i \in 1..Len(stack') : FALSE
    BY <2>1
  <2>6. \/ \A l \in Libs \cap Bundled' : l \in sources' \cup machine'.unknown
        \/ Mac' /\ sources' = {}
    BY <2>1, <2>2
  <2>7. Mac' => /\ Bundled' \cap Libs \subseteq Reach("qemu")' \cup Reach("img")'
                /\ \A i \in 1..Len(stack') : stack'[i].listed \subseteq Reach(stage)'
    BY <2>1, <2>4, <2>5
  <2> QED
    BY <2>6, <2>7 DEF NamedInv
<1>11. CASE Verify \/ Tag
  <2>1. /\ UNCHANGED <<machine, bundle, sources, stack>> /\ stack = <<>> /\ stage \in Finished
    BY <1>11, NoStack DEF Verify, Tag, Bundling, Binaries, Finished
  <2> QED
    BY <2>1, NamedRests DEF Bundled
<1>12. CASE Interrupt \/ Again
  <2>1. UNCHANGED <<machine, bundle, sources>> /\ stack' = <<>> /\ stage' \notin Finished
    BY <1>12, NoStack DEF Interrupt, Again, Bundling, Binaries, Finished
  <2> QED
    BY <2>1, NamedRests DEF Bundled
<1> QED
  BY <1>1, <1>2, <1>3, <1>4, <1>5, <1>6, <1>7, <1>8, <1>9, <1>10, <1>11, <1>12 DEF BuildNext

\* Both invariants hold throughout every build.
THEOREM BuildInvariant == BuildSpec => [](WheelInv /\ NamedInv)
<1>1. BuildInit => WheelInv /\ NamedInv
  <2> SUFFICES ASSUME BuildInit PROVE WheelInv /\ NamedInv
    OBVIOUS
  <2>1. stage = "install" /\ stack = <<>> /\ bundle = <<>> /\ DOMAIN bundle = {}
    BY DEF BuildInit
  <2>2. \A i \in 1..Len(stack) : FALSE
    BY <2>1
  <2> QED
    BY <2>1, <2>2, WheelInit DEF NamedInv, Bundled, Finished
<1>2. (WheelInv /\ NamedInv) /\ [BuildNext]_buildVars => (WheelInv /\ NamedInv)'
  <2> SUFFICES ASSUME WheelInv, NamedInv, [BuildNext]_buildVars PROVE (WheelInv /\ NamedInv)'
    OBVIOUS
  <2>1. CASE BuildNext
    BY <2>1, WheelStep, NamedStep
  <2>2. CASE UNCHANGED buildVars
    <3>1. /\ UNCHANGED <<machine, stage, stack, bundle, sources>> /\ Bundled' = Bundled
      BY <2>2 DEF buildVars, Bundled
    <3>2. Mac' = Mac /\ Reach("qemu")' = Reach("qemu") /\ Reach("img")' = Reach("img")
          /\ Reach(stage)' = Reach(stage)
      BY <3>1 DEF Mac, Reach, Needs
    <3>3. NamedInv'
      BY <3>1, <3>2 DEF NamedInv
    <3> QED
      BY <2>2, <3>3, WheelRests
  <2> QED
    BY <2>1, <2>2
<1> QED
  BY <1>1, <1>2, PTL DEF BuildSpec

\* A finished wheel holds what it loads, as signed, with the patched libslirp of
\* QEMU on macOS; its tag and its list of sources cover every file in it.
THEOREM FinishedWheelTheorem ==
  BuildSpec => [](SelfContained /\ SignaturesHold /\ PatchedSlirpIsUsed /\ LabelsCoverTheWheel)
<1>1. WheelInv /\ NamedInv
      => SelfContained /\ SignaturesHold /\ PatchedSlirpIsUsed /\ LabelsCoverTheWheel
  <2> SUFFICES ASSUME WheelInv, NamedInv
               PROVE  SelfContained /\ SignaturesHold /\ PatchedSlirpIsUsed /\ LabelsCoverTheWheel
    OBVIOUS
  <2>1. SelfContained /\ SignaturesHold /\ PatchedSlirpIsUsed
    BY FinishedWheel DEF SelfContained, SignaturesHold, PatchedSlirpIsUsed
  <2>2. LabelsCoverTheWheel
    BY FinishedWheel DEF LabelsCoverTheWheel, NamedInv, Finished
  <2> QED
    BY <2>1, <2>2
<1> QED
  BY <1>1, BuildInvariant, PTL

-----------------------------------------------------------------------------
(* Sandboxes start: what is so of every sandbox at every phase.             *)

Early == {"new", "refused", "created", "image", "accel", "runtime", "ports"}
Live == {"spawned", "agent", "running", "stranded"}
HasAccel == {"accel", "runtime", "ports"} \cup Live
HasImage == {"image"} \cup HasAccel

BoxRecords ==
    [pc : Early \cup Live \cup {"failed", "stopped"}, tries : Nat,
     guest : {None, "amd64", "arm64"}, disk : Arches \cup {None},
     accel : Accelerators \cup {None}, wait : Nat, runtime : {None, "bundled", "system"},
     agentPort : Nat, qmpPort : Nat, vncPort : Nat, socketPort : Nat, smbPort : Nat,
     dnsPort : Nat, agent : Sandboxes \cup {None}, qmp : Sandboxes \cup {None}, save : Saves]

HostTypes ==
    /\ host \in Hosts \cup {NoHost} /\ saved \in Saves \cup {NoSave}
    /\ installed \in BOOLEAN
    /\ box \in [Sandboxes -> BoxRecords]
    /\ qemu \in [Sandboxes -> {"none", "starting", "up", "guest", "exited"}]
    /\ host = NoHost => listening = <<>>

\* pip took the wheel of a build that is over.
InstallInv == installed => host # NoHost /\ stage = "done" /\ PipAccepts

\* QEMU runs from the moment it was spawned to the end of the sandbox at most;
\* the agent that was connected is this sandbox's, whose guest had come up, and
\* so is QMP unless QEMU is gone.
PhaseInv(b) ==
    /\ box[b].pc \in Early => qemu[b] = "none"
    /\ box[b].pc \in {"failed", "stopped"} => qemu[b] \in {"none", "exited"}
    /\ box[b].pc \in {"agent", "running", "stranded"} => qemu[b] \in {"guest", "exited"}
    /\ box[b].pc \in {"agent", "running"} => box[b].agent = b
    /\ box[b].pc = "running" /\ qemu[b] # "exited" => box[b].qmp = b

\* Who listens at a port, in the roles that matter here.
Served == {"qmp", "smb", "dns"}
Holds(b, role, p) == ~Free(p) /\ listening[p] = <<b, role>>

\* QEMU and the servers of this process hold the ports they were given.
PortInv(b) ==
    /\ qemu[b] \in {"up", "guest"} => Holds(b, "qmp", box[b].qmpPort)
    /\ box[b].pc \in Live =>
        /\ WantsSmb(b) /\ TcpSmb => box[b].smbPort \in host.ports /\ Holds(b, "smb", box[b].smbPort)
        /\ DnsProxyWanted(b) => Holds(b, "dns", box[b].dnsPort)

\* What was found about the image and the accelerator goes together.
SettingsInv(b) ==
    /\ box[b].pc \notin {"new", "refused"} => ~Refused(Config(b))
    /\ box[b].pc \in HasImage =>
        \/ box[b].disk = ArchConfig(b) \/ Unlabelled(b)
        \/ Config(b).image = "save" /\ box[b].save.recorded # box[b].save.disk
    /\ box[b].pc \in HasAccel =>
        /\ box[b].accel # "tcg" => ArchConfig(b) = host.arch
        /\ box[b].accel = "tcg" => box[b].wait # BOOT_DEFAULT
    /\ box[b].runtime = "bundled" => installed

BoxInv(b) == PhaseInv(b) /\ PortInv(b) /\ SettingsInv(b)

LaunchInv ==
    /\ WheelInv /\ HostTypes /\ InstallInv
    /\ \A b \in Sandboxes : BoxInv(b)

\* A host with sandboxes is one of Hosts.
LEMMA HostFacts ==
  ASSUME HostTypes, NEW b \in Sandboxes
  PROVE  /\ host \in Hosts /\ host # NoHost
         /\ host.os \in {"linux", "darwin", "windows"} /\ host.arch \in Arches
         /\ host.ports \subseteq Nat \ ({NoPort, SmbPort} \cup VncPorts) /\ host.ports \subseteq Nat
         /\ host.hv \in {"ready", "absent", "denied"}
         /\ Config(b).accel \in Accelerators \cup {"auto", None} /\ Config(b).wait \in Nat
         /\ box[b] \in BoxRecords
<1>1. host # NoHost
  BY DEF Sandboxes, NoHost
<1>2. host \in Hosts
  BY <1>1 DEF HostTypes
<1> QED
  BY <1>1, <1>2, LaunchAssumption DEF HostTypes, Config, Sandboxes

\* A package that has a file without a label is never reinstalled.
LEMMA LabelStays ==
  ASSUME NEW b, Config(b)' = Config(b), Unlabelled(b), "any" \in images => images' = images
  PROVE  Unlabelled(b)'
<1>1. /\ Config(b).image # "save" /\ Config(b).arch # None
      /\ Artifact(Config(b).arch) = "any"
  BY DEF Unlabelled
<1>2. Config(b).arch \notin images \/ Config(b).arch = "any"
  BY <1>1 DEF Artifact
<1>3. "any" \in images
  BY <1>1, <1>2 DEF Artifact, None
<1>4. images' = images
  BY <1>3
<1>5. Artifact(Config(b).arch)' = "any"
  BY <1>1, <1>2, <1>3, <1>4 DEF Artifact
<1> QED
  BY <1>1, <1>5 DEF Unlabelled

\* What a sandbox has is its own: a step that leaves its box, its QEMU and its
\* listeners alone leaves it alone.
LEMMA OthersKeep ==
  ASSUME NEW b, BoxInv(b), UNCHANGED <<host, box[b], qemu[b]>>,
         "any" \in images => images' = images, installed => installed',
         \A p : \A role \in Served : Holds(b, role, p) => Holds(b, role, p)'
  PROVE  BoxInv(b)'
<1>1. PhaseInv(b)'
  BY DEF BoxInv, PhaseInv
<1>2. PortInv(b)'
  <2>1. /\ WantsSmb(b)' = WantsSmb(b) /\ TcpSmb' = TcpSmb /\ DnsProxyWanted(b)' = DnsProxyWanted(b)
    BY DEF WantsSmb, TcpSmb, DnsProxyWanted, Config, _detect_os
  <2>2. ASSUME NEW role \in Served, NEW p, NEW q, q = p, Holds(b, role, p) PROVE Holds(b, role, q)'
    BY <2>2
  <2> QED
    BY <2>1 DEF BoxInv, PortInv, Holds, Free, Served
<1>3. SettingsInv(b)'
  <2>1. Config(b)' = Config(b) /\ ArchConfig(b)' = ArchConfig(b)
    BY DEF Config, ArchConfig, Platform, get_platform_config_for_arch, _detect_architecture,
       from_str, X86_64Config, ARM64Config
  <2>2. Refused(Config(b))' = Refused(Config(b))
    BY <2>1
  <2>3. Unlabelled(b) => Unlabelled(b)'
    BY <2>1, LabelStays
  <2> QED
    BY <2>1, <2>2, <2>3 DEF BoxInv, SettingsInv
<1> QED
  BY <1>1, <1>2, <1>3 DEF BoxInv

\* A sandbox moves: what has to be seen of it and of its host's ports.
LEMMA OneMoves ==
  ASSUME LaunchInv, NEW b \in Sandboxes, NEW r \in BoxRecords, box' = [box EXCEPT ![b] = r],
         NEW q \in {"none", "starting", "up", "guest", "exited"}, qemu' = [qemu EXCEPT ![b] = q],
         UNCHANGED <<buildVars, host, installed, saved>>, "any" \in images => images' = images,
         \A o \in Sandboxes \ {b}, role \in Served : \A p : Holds(o, role, p) => Holds(o, role, p)',
         BoxInv(b)'
  PROVE  LaunchInv'
<1>1. /\ WheelInv /\ HostTypes /\ InstallInv /\ host # NoHost
      /\ box \in [Sandboxes -> BoxRecords]
      /\ qemu \in [Sandboxes -> {"none", "starting", "up", "guest", "exited"}]
  BY HostFacts DEF LaunchInv, HostTypes
<1>2. Sandboxes' = Sandboxes /\ BoxRecords' = BoxRecords
  BY DEF Sandboxes, BoxRecords
<1>3. WheelInv'
  BY <1>1, WheelRests
<1>4. HostTypes'
  <2>1. box' \in [Sandboxes -> BoxRecords]
    BY <1>1
  <2>2. qemu' \in [Sandboxes -> {"none", "starting", "up", "guest", "exited"}]
    BY <1>1
  <2> QED
    BY <1>1, <1>2, <2>1, <2>2 DEF HostTypes
<1>5. InstallInv'
  BY <1>1 DEF buildVars, InstallInv, PipAccepts, Linux
<1>6. \A o \in Sandboxes \ {b} : BoxInv(o)'
  <2> SUFFICES ASSUME NEW o \in Sandboxes \ {b} PROVE BoxInv(o)'
    OBVIOUS
  <2>1. box'[o] = box[o] /\ qemu'[o] = qemu[o] /\ BoxInv(o)
    BY <1>1 DEF LaunchInv
  <2> QED
    BY <2>1, OthersKeep
<1> QED
  BY <1>2, <1>3, <1>4, <1>5, <1>6 DEF LaunchInv

\* Before QEMU is spawned only what was found so far matters.
LEMMA EarlyMoves ==
  ASSUME LaunchInv, NEW b \in Sandboxes, box[b].pc \in Early,
         NEW r \in BoxRecords, box' = [box EXCEPT ![b] = r], r.pc \in Early \cup {"failed"},
         UNCHANGED <<buildVars, host, installed, saved, listening, qemu>>,
         "any" \in images => images' = images,
         SettingsInv(b)'
  PROVE  LaunchInv'
<1>1. /\ box \in [Sandboxes -> BoxRecords] /\ qemu[b] = "none"
      /\ qemu \in [Sandboxes -> {"none", "starting", "up", "guest", "exited"}]
  BY DEF LaunchInv, HostTypes, BoxInv, PhaseInv
<1>2. box'[b] = r /\ qemu'[b] = "none" /\ qemu' = [qemu EXCEPT ![b] = "none"]
  BY <1>1
<1>3. PhaseInv(b)'
  BY <1>2 DEF PhaseInv, Early
<1>4. PortInv(b)'
  BY <1>2 DEF PortInv, Early, Live
<1>5. \A o, role, p : Holds(o, role, p) => Holds(o, role, p)'
  BY DEF Holds, Free
<1> QED
  BY <1>2, <1>3, <1>4, <1>5, OneMoves DEF BoxInv

-----------------------------------------------------------------------------
(* Before QEMU: the image, the accelerator, the runtime, the ports.         *)

\* What a sandbox was made with, on a host that stays the same.
LEMMA SameSettings ==
  ASSUME NEW b, UNCHANGED host
  PROVE  /\ Config(b)' = Config(b) /\ Refused(Config(b))' = Refused(Config(b))
         /\ box'[b].guest = box[b].guest => ArchConfig(b)' = ArchConfig(b)
         /\ images' = images => (Unlabelled(b) => Unlabelled(b)')
<1>1. /\ Config(b)' = Config(b) /\ Refused(Config(b))' = Refused(Config(b))
      /\ box'[b].guest = box[b].guest => ArchConfig(b)' = ArchConfig(b)
  BY DEF Config, ArchConfig, Platform, get_platform_config_for_arch, _detect_architecture,
     from_str, X86_64Config, ARM64Config
<1> QED
  BY <1>1, LabelStays

\* The platform config goes by the guest's label, or by the host.
LEMMA ArchFacts ==
  ASSUME NEW b, host.arch \in Arches
  PROVE  /\ box[b].guest = None => ArchConfig(b) = host.arch
         /\ box[b].guest = "amd64" => ArchConfig(b) = "x86_64"
         /\ box[b].guest = "arm64" => ArchConfig(b) = "arm64"
BY DEF ArchConfig, Platform, get_platform_config_for_arch, _detect_architecture, from_str,
   X86_64Config, ARM64Config, Arches, None

\* A forward that is refused ends it before it begins.
LEMMA CreateKeeps ==
  ASSUME LaunchInv, NEW b \in Sandboxes, Create(b)
  PROVE  LaunchInv'
<1>1. /\ box[b].pc = "new" /\ UNCHANGED <<buildVars, hostVars, listening, qemu>>
      /\ host' = host /\ images' = images /\ installed' = installed /\ saved' = saved
  BY DEF Create, hostVars
<1>2. box \in [Sandboxes -> BoxRecords] /\ box[b] \in BoxRecords
  BY DEF LaunchInv, HostTypes
<1> DEFINE r == [box[b] EXCEPT !.pc = IF Refused(Config(b)) THEN "refused" ELSE "created"]
<1>3. box' = [box EXCEPT ![b] = r]
  BY DEF Create, Goes
<1>4. /\ r \in BoxRecords /\ r.pc \in Early /\ r.runtime = box[b].runtime
      /\ r.pc = "created" => ~Refused(Config(b))
  BY <1>2 DEF BoxRecords, Early
<1>5. box'[b] = r /\ r.pc \in {"refused", "created"}
  BY <1>2, <1>3 DEF BoxRecords
<1> HIDE DEF r
<1>6. SettingsInv(b)'
  BY <1>1, <1>4, <1>5, SameSettings DEF SettingsInv, HasImage, HasAccel, Live, LaunchInv, BoxInv
<1> QED
  BY <1>1, <1>3, <1>4, <1>6, EarlyMoves DEF Early

\* pip brings an image file: what was resolved stays resolved.
LEMMA AutoInstallKeeps ==
  ASSUME LaunchInv, NEW b \in Sandboxes, AutoInstall(b)
  PROVE  LaunchInv'
<1>1. /\ box[b].pc = "created" /\ UNCHANGED <<buildVars, host, installed, saved, listening, qemu>>
      /\ "any" \in images => images' = images
  <2>1. Artifact(Asked(b)) = None
    BY DEF AutoInstall
  <2>2. "any" \notin images
    BY <2>1 DEF Artifact, None, image_arch
  <2> QED
    BY <2>2 DEF AutoInstall
<1>2. box \in [Sandboxes -> BoxRecords] /\ box[b] \in BoxRecords
  BY DEF LaunchInv, HostTypes
<1> DEFINE r == [box[b] EXCEPT !.tries = @ + 1]
<1>3. box' = [box EXCEPT ![b] = r]
  BY DEF AutoInstall
<1>4. r \in BoxRecords /\ r.pc = "created" /\ r.runtime = box[b].runtime
  BY <1>1, <1>2 DEF BoxRecords
<1>5. box'[b] = r
  BY <1>2, <1>3
<1> HIDE DEF r
<1>6. SettingsInv(b)'
  BY <1>1, <1>4, <1>5, SameSettings DEF SettingsInv, HasImage, HasAccel, Live, LaunchInv, BoxInv
<1> QED
  BY <1>1, <1>3, <1>4, <1>6, EarlyMoves DEF Early

\* There is no image.
LEMMA NoImageKeeps ==
  ASSUME LaunchInv, NEW b \in Sandboxes, NoImage(b)
  PROVE  LaunchInv'
<1>1. /\ box[b].pc = "created" /\ UNCHANGED <<buildVars, hostVars, listening, qemu>>
      /\ host' = host /\ images' = images /\ installed' = installed /\ saved' = saved
  BY DEF NoImage, hostVars
<1>2. box \in [Sandboxes -> BoxRecords] /\ box[b] \in BoxRecords
  BY DEF LaunchInv, HostTypes
<1> DEFINE r == [box[b] EXCEPT !.pc = "failed"]
<1>3. box' = [box EXCEPT ![b] = r]
  BY DEF NoImage, Goes
<1>4. r \in BoxRecords /\ r.pc = "failed" /\ r.runtime = box[b].runtime
  BY <1>2 DEF BoxRecords
<1>5. box'[b] = r
  BY <1>2, <1>3
<1> HIDE DEF r
<1>6. SettingsInv(b)'
  BY <1>1, <1>4, <1>5, SameSettings DEF SettingsInv, HasImage, HasAccel, Live, LaunchInv, BoxInv
<1> QED
  BY <1>1, <1>3, <1>4, <1>6, EarlyMoves DEF Early

\* A runtime is bundled when the wheel is there.
LEMMA LoadRuntimeKeeps ==
  ASSUME LaunchInv, NEW b \in Sandboxes, LoadRuntime(b)
  PROVE  LaunchInv'
<1>1. /\ box[b].pc = "accel" /\ UNCHANGED <<buildVars, hostVars, listening, qemu>>
      /\ host' = host /\ images' = images /\ installed' = installed /\ saved' = saved
  BY DEF LoadRuntime, hostVars
<1>2. box \in [Sandboxes -> BoxRecords] /\ box[b] \in BoxRecords
  BY DEF LaunchInv, HostTypes
<1> DEFINE phase == IF Runtime(b) = None THEN "failed" ELSE "runtime"
           r == [box[b] EXCEPT !.pc = phase, !.runtime = Runtime(b)]
<1>3. box' = [box EXCEPT ![b] = r]
  BY DEF LoadRuntime
<1>4. /\ phase \in {"failed", "runtime"} /\ Runtime(b) \in {None, "bundled", "system"}
      /\ Runtime(b) = "bundled" => installed
  BY DEF Runtime, BundledRuntime, SystemRuntime, None
<1> HIDE DEF phase
<1>5. /\ r \in BoxRecords /\ r.pc \in {"failed", "runtime"} /\ r.runtime = Runtime(b)
      /\ r.guest = box[b].guest /\ r.disk = box[b].disk /\ r.accel = box[b].accel
      /\ r.wait = box[b].wait /\ r.save = box[b].save
  BY <1>2, <1>4 DEF BoxRecords, Early
<1>6. box'[b] = r
  BY <1>2, <1>3
<1> HIDE DEF r
<1>7. SettingsInv(b)'
  BY <1>1, <1>4, <1>5, <1>6, SameSettings DEF SettingsInv, HasImage, HasAccel, Live, LaunchInv, BoxInv
<1> QED
  BY <1>1, <1>3, <1>5, <1>7, EarlyMoves DEF Early

\* Ports are found; nothing holds them.
LEMMA FindPortsKeeps ==
  ASSUME LaunchInv, NEW b \in Sandboxes, FindPorts(b)
  PROVE  LaunchInv'
<1>1. /\ box[b].pc = "runtime" /\ UNCHANGED <<buildVars, hostVars, listening, qemu>>
      /\ host' = host /\ images' = images /\ installed' = installed /\ saved' = saved
  BY DEF FindPorts, hostVars
<1>2. box \in [Sandboxes -> BoxRecords] /\ box[b] \in BoxRecords
  BY DEF LaunchInv, HostTypes
<1>3. FreePorts \subseteq Nat /\ find_free_vnc_port \subseteq Nat /\ NoPort \in Nat
  BY HostFacts DEF LaunchInv, FreePorts, find_free_vnc_port, VncPorts, NoPort
<1>4. PICK agentAt \in Nat, qmpAt \in Nat, socketAt \in Nat, vncAt \in Nat :
        box' = [box EXCEPT ![b].pc = "ports", ![b].agentPort = agentAt, ![b].qmpPort = qmpAt,
                           ![b].socketPort = socketAt, ![b].vncPort = vncAt]
  <2>1. /\ (IF host.os = "windows" THEN FreePorts ELSE {NoPort}) \subseteq Nat
        /\ (IF Config(b).display THEN find_free_vnc_port ELSE {NoPort}) \subseteq Nat
    BY <1>3
  <2>2. PICK agentAt \in FreePorts, qmpAt \in FreePorts,
             socketAt \in IF host.os = "windows" THEN FreePorts ELSE {NoPort},
             vncAt \in IF Config(b).display THEN find_free_vnc_port ELSE {NoPort} :
           box' = [box EXCEPT ![b].pc = "ports", ![b].agentPort = agentAt, ![b].qmpPort = qmpAt,
                              ![b].socketPort = socketAt, ![b].vncPort = vncAt]
    BY DEF FindPorts
  <2>3. agentAt \in Nat /\ qmpAt \in Nat
    BY <1>3
  <2>4. socketAt \in Nat /\ vncAt \in Nat
    BY <2>1
  <2> QED
    BY <2>2, <2>3, <2>4
<1> DEFINE r == [box[b] EXCEPT !.pc = "ports", !.agentPort = agentAt, !.qmpPort = qmpAt,
                               !.socketPort = socketAt, !.vncPort = vncAt]
<1>5. box' = [box EXCEPT ![b] = r]
  BY <1>4
<1>6. /\ r \in BoxRecords /\ r.pc = "ports" /\ r.runtime = box[b].runtime
      /\ r.guest = box[b].guest /\ r.disk = box[b].disk /\ r.accel = box[b].accel
      /\ r.wait = box[b].wait /\ r.save = box[b].save
  BY <1>2 DEF BoxRecords, Early
<1>7. box'[b] = r
  BY <1>2, <1>5
<1> HIDE DEF r
<1>8. SettingsInv(b)'
  BY <1>1, <1>6, <1>7, SameSettings DEF SettingsInv, HasImage, HasAccel, Live, LaunchInv, BoxInv
<1> QED
  BY <1>1, <1>5, <1>6, <1>8, EarlyMoves DEF Early

\* The image that is found is the platform's: by its label, or the host's own,
\* or what a save holds that records it.
LEMMA ResolvedImage ==
  ASSUME HostTypes, NEW b \in Sandboxes, Config(b).image = "save" => saved # NoSave,
         Artifact(Asked(b)) # None,
         NEW guest, guest = GuestArch(b),
         NEW disk, disk = IF Config(b).image = "save" THEN saved.disk
                          ELSE DiskOf(Artifact(Asked(b))),
         NEW arch, /\ guest = None => arch = host.arch
                   /\ guest = "amd64" => arch = "x86_64"
                   /\ guest = "arm64" => arch = "arm64"
  PROVE  /\ guest \in {None, "amd64", "arm64"} /\ disk \in Arches \cup {None}
         /\ \/ disk = arch \/ Unlabelled(b)
            \/ Config(b).image = "save" /\ saved.recorded # saved.disk
<1>1. host.arch \in {"x86_64", "arm64"} /\ None = "none"
  BY HostFacts DEF Arches, None
<1>2. /\ image_arch("x86_64") = "amd64" /\ image_arch("arm64") = "arm64"
      /\ \A a : from_str(a) \in {"x86_64", "arm64"}
      /\ from_str("amd64") = "x86_64" /\ from_str("arm64") = "arm64"
      /\ from_str("x86_64") = "x86_64"
  BY DEF image_arch, from_str
<1>3. CASE Config(b).image = "save"
  <2>1. saved \in Saves /\ saved.recorded \in Arches \cup {None} /\ saved.disk \in Arches \cup {None}
    BY <1>3 DEF HostTypes, Saves
  <2>2. disk = saved.disk /\ guest = Asked(b)
    BY <1>3 DEF GuestArch
  <2>3. Asked(b) = IF SaveIsForeign THEN image_arch(from_str(saved.recorded)) ELSE None
    BY <1>3 DEF Asked
  <2>4. SaveIsForeign <=> saved.recorded # None /\ saved.recorded # host.arch
    BY DEF SaveIsForeign, _detect_architecture
  <2>5. saved.recorded # None \/ saved.recorded # saved.disk
    BY <1>3, <2>1 DEF NoSave, Saves
  <2>6. CASE SaveIsForeign
    BY <1>1, <1>2, <1>3, <2>1, <2>2, <2>3, <2>4, <2>6 DEF Arches
  <2>7. CASE ~SaveIsForeign
    BY <1>1, <1>2, <1>3, <2>1, <2>2, <2>3, <2>4, <2>5, <2>7 DEF Arches
  <2> QED
    BY <2>6, <2>7
<1>4. CASE Config(b).image # "save"
  <2>1. Asked(b) = Config(b).arch
    BY <1>4 DEF Asked
  <2> DEFINE a == Config(b).arch
  <2>2. disk = DiskOf(Artifact(a))
    BY <1>4, <2>1
  <2>3. CASE a = None
    <3>1. guest = None
      BY <1>4, <2>1, <2>3 DEF GuestArch
    <3>2. Artifact(a) \in {image_arch(host.arch), "any"}
      BY <1>1, <1>2, <2>1, <2>3 DEF Artifact, _detect_architecture
    <3> QED
      BY <1>1, <1>2, <2>2, <3>1, <3>2 DEF DiskOf, Arches
  <2>4. CASE a # None
    <3>1. guest = IF image_arch(from_str(a)) # host.arch THEN image_arch(from_str(a)) ELSE None
      BY <1>4, <2>1, <2>4 DEF GuestArch, _detect_architecture
    <3>2. Artifact(a) \in {a, "any"} /\ (Artifact(a) = "any" => Unlabelled(b))
      BY <1>4, <2>1, <2>4 DEF Artifact, Unlabelled
    <3>3. disk = (IF Artifact(a) = "any" THEN host.arch ELSE from_str(a))
      BY <2>2, <3>2 DEF DiskOf
    <3> HIDE DEF a
    <3>4. guest \in {None, "amd64", "arm64"} /\ disk \in Arches
      BY <1>1, <1>2, <3>1, <3>3 DEF Arches
    <3>5. Artifact(a) # "any" => disk = arch
      BY <1>1, <1>2, <3>1, <3>3
    <3> QED
      BY <3>2, <3>4, <3>5
  <2> QED
    BY <2>3, <2>4
<1> QED
  BY <1>3, <1>4

\* An image is resolved.
LEMMA ResolveKeeps ==
  ASSUME LaunchInv, NEW b \in Sandboxes, Resolve(b)
  PROVE  LaunchInv'
<1>1. /\ box[b].pc = "created" /\ UNCHANGED <<buildVars, hostVars, listening, qemu>>
      /\ host' = host /\ images' = images /\ installed' = installed /\ saved' = saved
      /\ Config(b).image = "save" => saved # NoSave
      /\ Artifact(Asked(b)) # None
  BY DEF Resolve, hostVars
<1>2. box \in [Sandboxes -> BoxRecords] /\ box[b] \in BoxRecords
  BY DEF LaunchInv, HostTypes
<1> DEFINE guest == GuestArch(b)
           disk == IF Config(b).image = "save" THEN saved.disk ELSE DiskOf(Artifact(Asked(b)))
           save == IF Config(b).image = "save" THEN saved ELSE NoSave
           r == [box[b] EXCEPT !.pc = "image", !.guest = guest, !.save = save, !.disk = disk]
<1>3. box' = [box EXCEPT ![b] = r]
  BY DEF Resolve
<1>4. save \in Saves /\ (Config(b).image = "save" => save = saved)
  BY <1>1 DEF LaunchInv, HostTypes, NoSave, Saves
<1> HIDE DEF save
<1>5. PICK arch : /\ guest = None => arch = host.arch
                  /\ guest = "amd64" => arch = "x86_64"
                  /\ guest = "arm64" => arch = "arm64"
  BY DEF None
<1>6. /\ guest \in {None, "amd64", "arm64"} /\ disk \in Arches \cup {None}
      /\ \/ disk = arch \/ Unlabelled(b)
         \/ Config(b).image = "save" /\ saved.recorded # saved.disk
  BY <1>1, <1>5, ResolvedImage DEF LaunchInv
<1> HIDE DEF guest, disk
<1>7. /\ r \in BoxRecords /\ r.pc = "image" /\ r.runtime = box[b].runtime
      /\ r.guest = guest /\ r.disk = disk /\ r.save = save
  BY <1>2, <1>4, <1>6 DEF BoxRecords, Early
<1>8. box'[b] = r
  BY <1>2, <1>3
<1> HIDE DEF r
<1>9. ArchConfig(b)' = arch
  <2>1. /\ box'[b].guest = None => ArchConfig(b)' = host'.arch
        /\ box'[b].guest = "amd64" => ArchConfig(b)' = "x86_64"
        /\ box'[b].guest = "arm64" => ArchConfig(b)' = "arm64"
    <3>1. host.arch \in Arches
      BY HostFacts DEF LaunchInv
    <3> QED
      BY <1>1, <3>1 DEF ArchConfig, Platform, get_platform_config_for_arch,
         _detect_architecture, from_str, X86_64Config, ARM64Config, Arches, None
  <2> QED
    BY <1>1, <1>5, <1>6, <1>7, <1>8, <2>1
<1>10. SettingsInv(b)'
  BY <1>1, <1>4, <1>6, <1>7, <1>8, <1>9, SameSettings
     DEF SettingsInv, HasImage, HasAccel, Live, LaunchInv, BoxInv
<1> QED
  BY <1>1, <1>3, <1>7, <1>10, EarlyMoves DEF Early

\* An accelerator is chosen: emulation where the guest is labelled, and the time
\* that takes.
LEMMA DetectAcceleratorKeeps ==
  ASSUME LaunchInv, NEW b \in Sandboxes, DetectAccelerator(b)
  PROVE  LaunchInv'
<1>1. /\ box[b].pc = "image" /\ UNCHANGED <<buildVars, hostVars, listening, qemu>>
      /\ host' = host /\ images' = images /\ installed' = installed /\ saved' = saved
  BY DEF DetectAccelerator, hostVars
<1>2. box \in [Sandboxes -> BoxRecords] /\ box[b] \in BoxRecords
  BY DEF LaunchInv, HostTypes
<1> DEFINE accel == IF box[b].guest # None THEN "tcg" ELSE Chosen(b)
           wait == IF box[b].guest # None THEN BOOT_TCG ELSE BootTimeout(b)
           r == [box[b] EXCEPT !.pc = "accel", !.accel = accel, !.wait = wait]
<1>3. box' = [box EXCEPT ![b] = r]
  BY DEF DetectAccelerator
<1>4. Chosen(b) \in Accelerators
  BY HostFacts DEF LaunchInv, Chosen, Accelerators, Detected, Kvm, Hvf, Whpx, _detect_os, None
<1>5. BootTimeout(b) \in Nat /\ (Chosen(b) = "tcg" => BootTimeout(b) # BOOT_DEFAULT)
  BY HostFacts DEF LaunchInv, BootTimeout, BOOT_DEFAULT, BOOT_TCG, BOOT_WHPX
<1>6. /\ accel \in Accelerators /\ wait \in Nat
      /\ accel # "tcg" => box[b].guest = None
      /\ accel = "tcg" => wait # BOOT_DEFAULT
  BY <1>4, <1>5 DEF Accelerators, BOOT_TCG, BOOT_DEFAULT
<1> HIDE DEF accel, wait
<1>7. /\ r \in BoxRecords /\ r.pc = "accel" /\ r.runtime = box[b].runtime
      /\ r.guest = box[b].guest /\ r.disk = box[b].disk /\ r.save = box[b].save
      /\ r.accel = accel /\ r.wait = wait
  BY <1>2, <1>6 DEF BoxRecords, HasAccel, Early
<1>8. box'[b] = r
  BY <1>2, <1>3
<1> HIDE DEF r
<1>9. accel # "tcg" => ArchConfig(b) = host.arch
  BY <1>6, ArchFacts, HostFacts DEF LaunchInv
<1>10. SettingsInv(b)'
  BY <1>1, <1>6, <1>7, <1>8, <1>9, SameSettings
     DEF SettingsInv, HasImage, HasAccel, Live, LaunchInv, BoxInv
<1> QED
  BY <1>1, <1>3, <1>7, <1>10, EarlyMoves DEF Early

-----------------------------------------------------------------------------
(* The servers of the sandbox and its QEMU.                                 *)

\* What is given up is what its owners had.
LEMMA FreedKeeps ==
  ASSUME NEW owners, listening' = FreedOf(owners),
         NEW o, NEW role, NEW p, Holds(o, role, p), <<o, role>> \notin owners
  PROVE  Holds(o, role, p)'
<1>1. p \in DOMAIN listening /\ listening[p] = <<o, role>>
  BY DEF Holds, Free
<1>2. p \in DOMAIN listening' /\ listening'[p] = <<o, role>>
  BY <1>1 DEF FreedOf
<1> QED
  BY <1>2 DEF Holds, Free

\* Servers start at free ports, and keep them; so do all that were there.
LEMMA StartServersKeeps ==
  ASSUME LaunchInv, NEW b \in Sandboxes, StartServers(b)
  PROVE  LaunchInv'
<1>1. /\ box[b].pc = "ports" /\ UNCHANGED <<buildVars, hostVars>>
      /\ host' = host /\ images' = images /\ installed' = installed /\ saved' = saved
      /\ qemu' = [qemu EXCEPT ![b] = "starting"]
  BY DEF StartServers, hostVars
<1>2. /\ box \in [Sandboxes -> BoxRecords] /\ box[b] \in BoxRecords
      /\ qemu \in [Sandboxes -> {"none", "starting", "up", "guest", "exited"}]
      /\ FreePorts \subseteq Nat \ {NoPort} /\ NoPort \in Nat
  BY HostFacts DEF LaunchInv, HostTypes, FreePorts, NoPort
<1>3. PICK smbAt \in IF WantsSmb(b) /\ TcpSmb THEN FreePorts ELSE {NoPort},
           dnsAt \in IF DnsProxyWanted(b) THEN FreePorts ELSE {NoPort} :
        /\ box' = [box EXCEPT ![b].pc = "spawned", ![b].smbPort = smbAt, ![b].dnsPort = dnsAt]
        /\ listening' = [p \in (DOMAIN listening) \cup ({smbAt, dnsAt} \ {NoPort}) |->
                           IF ~Free(p) THEN listening[p]
                           ELSE <<b, IF p = smbAt THEN "smb" ELSE "dns">>]
  BY DEF StartServers
<1>4. /\ smbAt \in Nat /\ dnsAt \in Nat
      /\ WantsSmb(b) /\ TcpSmb => smbAt \in FreePorts
      /\ ~(WantsSmb(b) /\ TcpSmb) => smbAt = NoPort
      /\ DnsProxyWanted(b) => dnsAt \in FreePorts
  BY <1>2
<1> DEFINE r == [box[b] EXCEPT !.pc = "spawned", !.smbPort = smbAt, !.dnsPort = dnsAt]
<1>5. box' = [box EXCEPT ![b] = r]
  BY <1>3
<1>6. /\ r \in BoxRecords /\ r.pc = "spawned" /\ r.runtime = box[b].runtime
      /\ r.guest = box[b].guest /\ r.disk = box[b].disk /\ r.accel = box[b].accel
      /\ r.wait = box[b].wait /\ r.save = box[b].save /\ r.smbPort = smbAt /\ r.dnsPort = dnsAt
  BY <1>2, <1>4 DEF BoxRecords, Live
<1>7. box'[b] = r /\ qemu'[b] = "starting"
  BY <1>1, <1>2, <1>5
<1> HIDE DEF r
<1>8. ASSUME NEW o, NEW role, NEW p, Holds(o, role, p) PROVE Holds(o, role, p)'
  <2>1. p \in DOMAIN listening /\ listening[p] = <<o, role>> /\ ~Free(p)
    BY <1>8 DEF Holds, Free
  <2>2. p \in DOMAIN listening' /\ listening'[p] = <<o, role>>
    BY <1>3, <2>1
  <2> QED
    BY <2>2 DEF Holds, Free
<1>9. WantsSmb(b) /\ TcpSmb => smbAt \in host.ports /\ Holds(b, "smb", smbAt)'
  <2> SUFFICES ASSUME WantsSmb(b) /\ TcpSmb PROVE smbAt \in host.ports /\ Holds(b, "smb", smbAt)'
    OBVIOUS
  <2>1. smbAt \in host.ports /\ smbAt # NoPort /\ Free(smbAt)
    BY <1>2, <1>4 DEF FreePorts
  <2>2. smbAt \in DOMAIN listening' /\ listening'[smbAt] = <<b, "smb">>
    BY <1>3, <2>1
  <2> QED
    BY <2>1, <2>2 DEF Holds, Free
<1>10. DnsProxyWanted(b) => Holds(b, "dns", dnsAt)'
  <2> SUFFICES ASSUME DnsProxyWanted(b) PROVE Holds(b, "dns", dnsAt)'
    OBVIOUS
  <2>1. ~TcpSmb
    BY DEF DnsProxyWanted, TcpSmb
  <2>2. smbAt = NoPort /\ dnsAt # NoPort /\ Free(dnsAt)
    BY <1>2, <1>4, <2>1 DEF FreePorts
  <2>3. dnsAt \in DOMAIN listening' /\ listening'[dnsAt] = <<b, "dns">>
    BY <1>3, <2>2
  <2> QED
    BY <2>3 DEF Holds, Free
<1>11. PhaseInv(b)'
  BY <1>6, <1>7 DEF PhaseInv, Early
<1>12. PortInv(b)'
  <2>1. /\ WantsSmb(b)' = WantsSmb(b) /\ TcpSmb' = TcpSmb /\ DnsProxyWanted(b)' = DnsProxyWanted(b)
    BY <1>1 DEF WantsSmb, TcpSmb, DnsProxyWanted, Config, _detect_os
  <2>2. ASSUME NEW role, NEW p, NEW q, q = p, Holds(b, role, p)' PROVE Holds(b, role, q)'
    BY <2>2
  <2>3. box'[b].smbPort = smbAt /\ box'[b].dnsPort = dnsAt /\ qemu'[b] \notin {"up", "guest"}
    BY <1>6, <1>7
  <2>4. Holds(b, "smb", box[b].smbPort)' <=> Holds(b, "smb", smbAt)'
    BY <2>3 DEF Holds, Free
  <2>5. Holds(b, "dns", box[b].dnsPort)' <=> Holds(b, "dns", dnsAt)'
    BY <2>3 DEF Holds, Free
  <2> QED
    BY <1>1, <1>9, <1>10, <2>1, <2>3, <2>4, <2>5 DEF PortInv
<1>13. SettingsInv(b)'
  BY <1>1, <1>6, <1>7, SameSettings DEF SettingsInv, HasImage, HasAccel, Live, LaunchInv, BoxInv
<1>14. UNCHANGED <<buildVars, host, installed, saved>> /\ images' = images
  BY <1>1
<1>15. \A o \in Sandboxes \ {b}, role \in Served : \A p : Holds(o, role, p) => Holds(o, role, p)'
  BY <1>8
<1>16. BoxInv(b)'
  BY <1>11, <1>12, <1>13 DEF BoxInv
<1> HIDE DEF BoxInv, LaunchInv
<1> QED
  BY <1>1, <1>5, <1>6, <1>14, <1>15, <1>16, OneMoves

\* QEMU itself moves, after it was spawned: it comes up and holds its port, its
\* guest comes up, or it ends.
LEMMA QemuMoves ==
  ASSUME LaunchInv, NEW b \in Sandboxes, UNCHANGED <<buildVars, hostVars, box>>,
         NEW q \in {"up", "guest", "exited"}, qemu' = [qemu EXCEPT ![b] = q],
         qemu[b] \in {"starting", "up", "guest"},
         q # "exited" => qemu[b] \in {"starting", "up"} /\ Holds(b, "qmp", box[b].qmpPort)',
         \A o \in Sandboxes, role \in Served : \A p :
            (Holds(o, role, p) /\ <<o, role>> # <<b, "qmp">>) => Holds(o, role, p)'
  PROVE  LaunchInv'
<1>1. /\ box \in [Sandboxes -> BoxRecords] /\ box[b] \in BoxRecords
      /\ qemu \in [Sandboxes -> {"none", "starting", "up", "guest", "exited"}]
      /\ BoxInv(b)
      /\ host' = host /\ images' = images /\ installed' = installed /\ saved' = saved
  BY DEF LaunchInv, HostTypes, hostVars
<1>2. box' = [box EXCEPT ![b] = box[b]] /\ qemu'[b] = q /\ box' = box
  BY <1>1
<1>3. box[b].pc \in Live
  BY <1>1 DEF BoxInv, PhaseInv, BoxRecords, Early, Live
<1>4. PhaseInv(b)'
  <2>1. box[b].pc \notin Early /\ box[b].pc \notin {"failed", "stopped"}
    BY <1>3 DEF Live, Early
  <2>2. q # "exited" => box[b].pc = "spawned"
    BY <1>1, <1>3 DEF BoxInv, PhaseInv, Live
  <2> QED
    BY <1>1, <1>2, <2>1, <2>2 DEF BoxInv, PhaseInv
<1>5. PortInv(b)'
  <2>1. /\ WantsSmb(b)' = WantsSmb(b) /\ TcpSmb' = TcpSmb /\ DnsProxyWanted(b)' = DnsProxyWanted(b)
    BY <1>1 DEF WantsSmb, TcpSmb, DnsProxyWanted, Config, _detect_os
  <2>2. /\ Holds(b, "smb", box[b].smbPort) => Holds(b, "smb", box[b].smbPort)'
        /\ Holds(b, "dns", box[b].dnsPort) => Holds(b, "dns", box[b].dnsPort)'
    <3>1. \A role \in {"smb", "dns"} : \A p : Holds(b, role, p) => Holds(b, role, p)'
      BY DEF Served
    <3>2. ASSUME NEW role \in {"smb", "dns"}, NEW p, NEW k, k = p, Holds(b, role, p)
          PROVE  Holds(b, role, k)'
      BY <3>1, <3>2
    <3> QED
      BY <1>2, <3>2 DEF Holds, Free
  <2> QED
    BY <1>1, <1>2, <2>1, <2>2 DEF BoxInv, PortInv
<1>6. SettingsInv(b)'
  BY <1>1, <1>2, SameSettings DEF SettingsInv, BoxInv
<1>7. UNCHANGED <<buildVars, host, installed, saved>> /\ images' = images
  BY <1>1
<1>8. \A o \in Sandboxes \ {b}, role \in Served : \A p : Holds(o, role, p) => Holds(o, role, p)'
  OBVIOUS
<1>9. BoxInv(b)'
  BY <1>4, <1>5, <1>6 DEF BoxInv
<1>10. q \in {"none", "starting", "up", "guest", "exited"}
  OBVIOUS
<1> HIDE DEF BoxInv, LaunchInv
<1> QED
  BY <1>1, <1>2, <1>7, <1>8, <1>9, <1>10, OneMoves

\* QEMU comes up where all its ports are free, and then holds its QMP port.
LEMMA QemuComesUpKeeps ==
  ASSUME LaunchInv, NEW b \in Sandboxes, QemuComesUp(b)
  PROVE  LaunchInv'
<1>1. /\ qemu[b] = "starting" /\ QemuAccepts(b) /\ UNCHANGED <<buildVars, hostVars, box>>
      /\ qemu' = [qemu EXCEPT ![b] = "up"]
      /\ listening' = [p \in (DOMAIN listening) \cup PortsOf(b) |->
                         IF p \in DOMAIN listening THEN listening[p]
                         ELSE <<b, (CHOOSE l \in Listens(b) : l[1] = p)[2]>>]
  BY DEF QemuComesUp
<1>2. ASSUME NEW o, NEW role, NEW p, Holds(o, role, p) PROVE Holds(o, role, p)'
  <2>1. p \in DOMAIN listening' /\ listening'[p] = <<o, role>>
    BY <1>1, <1>2 DEF Holds, Free
  <2> QED
    BY <2>1 DEF Holds, Free
<1>3. Holds(b, "qmp", box[b].qmpPort)'
  <2> DEFINE at == box[b].qmpPort
             line == <<at, "qmp", 0>>
             found == CHOOSE l \in Listens(b) : l[1] = at
  <2>1. line \in Listens(b) /\ line[1] = at
    BY DEF Listens
  <2>2. found \in Listens(b) /\ found[1] = at
    BY <2>1
  <2>3. \A k, l \in Listens(b) : k[1] = l[1] => k = l
    BY <1>1 DEF QemuAccepts
  <2> HIDE DEF found
  <2>4. found = line
    BY <2>1, <2>2, <2>3
  <2>5. found[2] = "qmp"
    BY <2>4
  <2>6. at \in PortsOf(b)
    BY <2>1 DEF PortsOf
  <2>7. at \notin DOMAIN listening
    BY <1>1, <2>6 DEF QemuAccepts, Free
  <2>8. listening'[at] = <<b, found[2]>> /\ at \in DOMAIN listening'
    BY <1>1, <2>6, <2>7 DEF found
  <2>9. box' = box
    BY <1>1
  <2> QED
    BY <2>5, <2>8, <2>9 DEF Holds, Free
<1> QED
  BY <1>1, <1>2, <1>3, QemuMoves

\* QEMU takes no part of a command line it cannot take all of.
LEMMA QemuGivesUpKeeps ==
  ASSUME LaunchInv, NEW b \in Sandboxes, QemuGivesUp(b)
  PROVE  LaunchInv'
<1>1. /\ qemu[b] = "starting" /\ UNCHANGED <<buildVars, hostVars, listening, box>>
      /\ qemu' = [qemu EXCEPT ![b] = "exited"]
  BY DEF QemuGivesUp
<1>2. ASSUME NEW o, NEW role, NEW p, Holds(o, role, p) PROVE Holds(o, role, p)'
  BY <1>1, <1>2 DEF Holds, Free
<1> QED
  BY <1>1, <1>2, QemuMoves

\* The guest comes up.
LEMMA GuestIsUpKeeps ==
  ASSUME LaunchInv, NEW b \in Sandboxes, GuestIsUp(b)
  PROVE  LaunchInv'
<1>1. /\ qemu[b] = "up" /\ UNCHANGED <<buildVars, hostVars, listening, box>>
      /\ qemu' = [qemu EXCEPT ![b] = "guest"]
  BY DEF GuestIsUp
<1>2. ASSUME NEW o, NEW role, NEW p, Holds(o, role, p) PROVE Holds(o, role, p)'
  BY <1>1, <1>2 DEF Holds, Free
<1>3. Holds(b, "qmp", box[b].qmpPort)'
  <2>1. Holds(b, "qmp", box[b].qmpPort)
    BY <1>1 DEF LaunchInv, BoxInv, PortInv
  <2> QED
    BY <1>1, <2>1 DEF Holds, Free
<1> QED
  BY <1>1, <1>2, <1>3, QemuMoves

\* QEMU ends and gives up its ports; the servers of this process stay.
LEMMA QemuExitsKeeps ==
  ASSUME LaunchInv, NEW b \in Sandboxes, QemuExits(b)
  PROVE  LaunchInv'
<1> DEFINE owners == {<<b, role>> : role \in QemuRoles}
<1>1. /\ qemu[b] \in {"up", "guest"} /\ UNCHANGED <<buildVars, hostVars, box>>
      /\ qemu' = [qemu EXCEPT ![b] = "exited"] /\ listening' = FreedOf(owners)
  BY DEF QemuExits, WithoutQemu
<1>2. ASSUME NEW o \in Sandboxes, NEW role \in Served, NEW p, Holds(o, role, p),
             <<o, role>> # <<b, "qmp">>
      PROVE  Holds(o, role, p)'
  <2>1. <<o, role>> \notin owners
    BY <1>2 DEF QemuRoles, Served
  <2> HIDE DEF owners
  <2> QED
    BY <1>1, <1>2, <2>1, FreedKeeps
<1> HIDE DEF owners
<1> QED
  BY <1>1, <1>2, QemuMoves

\* A sandbox whose QEMU was spawned moves on, and its ports and settings are what
\* they were.
LEMMA LiveMoves ==
  ASSUME LaunchInv, NEW b \in Sandboxes, box[b].pc \in Live,
         UNCHANGED <<buildVars, hostVars, listening, qemu>>,
         NEW r \in BoxRecords, box' = [box EXCEPT ![b] = r],
         r.pc \in {"agent", "running", "stranded"}, qemu[b] \in {"guest", "exited"},
         r.pc \in {"agent", "running"} => r.agent = b,
         r.pc = "running" /\ qemu[b] # "exited" => r.qmp = b,
         r.qmpPort = box[b].qmpPort, r.smbPort = box[b].smbPort, r.dnsPort = box[b].dnsPort,
         r.runtime = box[b].runtime, r.guest = box[b].guest, r.disk = box[b].disk,
         r.accel = box[b].accel, r.wait = box[b].wait, r.save = box[b].save
  PROVE  LaunchInv'
<1>1. /\ host' = host /\ images' = images /\ installed' = installed /\ saved' = saved
      /\ box \in [Sandboxes -> BoxRecords] /\ BoxInv(b)
      /\ qemu \in [Sandboxes -> {"none", "starting", "up", "guest", "exited"}]
  BY DEF LaunchInv, HostTypes, hostVars
<1>2. box'[b] = r /\ qemu'[b] = qemu[b] /\ qemu' = [qemu EXCEPT ![b] = qemu[b]]
  BY <1>1
<1>3. PhaseInv(b)'
  BY <1>2 DEF PhaseInv, Early
<1>4. PortInv(b)'
  <2>1. /\ WantsSmb(b)' = WantsSmb(b) /\ TcpSmb' = TcpSmb /\ DnsProxyWanted(b)' = DnsProxyWanted(b)
    BY <1>1 DEF WantsSmb, TcpSmb, DnsProxyWanted, Config, _detect_os
  <2>2. ASSUME NEW role, NEW p, NEW k, k = p, Holds(b, role, p) PROVE Holds(b, role, k)'
    BY <2>2 DEF Holds, Free
  <2> QED
    BY <1>1, <1>2, <2>1, <2>2 DEF BoxInv, PortInv, Holds, Free
<1>5. SettingsInv(b)'
  BY <1>1, <1>2, SameSettings DEF SettingsInv, HasImage, HasAccel, Live, BoxInv
<1>6. BoxInv(b)'
  BY <1>3, <1>4, <1>5 DEF BoxInv
<1>7. \A o \in Sandboxes \ {b}, role \in Served : \A p : Holds(o, role, p) => Holds(o, role, p)'
  BY DEF Holds, Free
<1>8. /\ UNCHANGED <<buildVars, host, installed, saved>> /\ images' = images
      /\ qemu[b] \in {"none", "starting", "up", "guest", "exited"}
  BY <1>1
<1> HIDE DEF BoxInv, LaunchInv
<1> QED
  BY <1>2, <1>6, <1>7, <1>8, OneMoves

-----------------------------------------------------------------------------
(* The agent, QMP, and the end.                                             *)

\* Only the guest of this sandbox knows its token.
LEMMA ConnectAgentKeeps ==
  ASSUME LaunchInv, NEW b \in Sandboxes, ConnectAgent(b)
  PROVE  LaunchInv'
<1>1. /\ box[b].pc = "spawned" /\ UNCHANGED <<buildVars, hostVars, listening, qemu>>
      /\ host' = host /\ images' = images /\ installed' = installed /\ saved' = saved
      /\ qemu[b] = "guest"
      /\ box' = [box EXCEPT ![b].pc = "agent", ![b].agent = b]
      /\ box \in [Sandboxes -> BoxRecords] /\ box[b] \in BoxRecords
  BY DEF ConnectAgent, KnowsToken, hostVars, LaunchInv, HostTypes
<1> DEFINE r == [box[b] EXCEPT !.pc = "agent", !.agent = b]
<1>2. r \in BoxRecords /\ box' = [box EXCEPT ![b] = r] /\ r.pc = "agent" /\ r.agent = b
  BY <1>1 DEF BoxRecords, Live
<1>3. /\ r.qmpPort = box[b].qmpPort /\ r.smbPort = box[b].smbPort /\ r.dnsPort = box[b].dnsPort
      /\ r.runtime = box[b].runtime /\ r.guest = box[b].guest /\ r.disk = box[b].disk
      /\ r.accel = box[b].accel /\ r.wait = box[b].wait /\ r.save = box[b].save
  BY <1>1 DEF BoxRecords
<1> HIDE DEF r
<1> QED
  BY <1>1, <1>2, <1>3, LiveMoves DEF Live

\* Whoever is at the port is this sandbox's QEMU, for as long as that lives.
LEMMA ConnectQmpKeeps ==
  ASSUME LaunchInv, NEW b \in Sandboxes, ConnectQmp(b)
  PROVE  LaunchInv'
<1>1. /\ box[b].pc = "agent" /\ UNCHANGED <<buildVars, hostVars, listening, qemu>>
      /\ host' = host /\ images' = images /\ installed' = installed /\ saved' = saved
      /\ box \in [Sandboxes -> BoxRecords] /\ box[b] \in BoxRecords
  BY DEF ConnectQmp, hostVars, LaunchInv, HostTypes
<1>2. PICK peer \in AtPort(box[b].qmpPort, "qmp") :
        box' = [box EXCEPT ![b].pc = "running", ![b].qmp = peer]
  BY DEF ConnectQmp
<1>3. /\ qemu[b] \in {"guest", "exited"} /\ box[b].agent = b /\ BoxInv(b)
      /\ peer \in Sandboxes /\ listening[box[b].qmpPort] = <<peer, "qmp">>
  BY <1>1 DEF LaunchInv, BoxInv, PhaseInv, AtPort
<1>4. qemu[b] # "exited" => peer = b
  BY <1>3 DEF BoxInv, PortInv, Holds
<1> DEFINE r == [box[b] EXCEPT !.pc = "running", !.qmp = peer]
<1>5. /\ r \in BoxRecords /\ box' = [box EXCEPT ![b] = r]
      /\ r.pc = "running" /\ r.agent = box[b].agent /\ r.qmp = peer
  BY <1>1, <1>2, <1>3 DEF BoxRecords, Live
<1>6. /\ r.qmpPort = box[b].qmpPort /\ r.smbPort = box[b].smbPort /\ r.dnsPort = box[b].dnsPort
      /\ r.runtime = box[b].runtime /\ r.guest = box[b].guest /\ r.disk = box[b].disk
      /\ r.accel = box[b].accel /\ r.wait = box[b].wait /\ r.save = box[b].save
  BY <1>1 DEF BoxRecords
<1> HIDE DEF r
<1> QED
  BY <1>1, <1>3, <1>4, <1>5, <1>6, LiveMoves DEF Live

\* QMP cannot be had: start() raises.
LEMMA QmpFailsKeeps ==
  ASSUME LaunchInv, NEW b \in Sandboxes, QmpFails(b)
  PROVE  LaunchInv'
<1>1. /\ box[b].pc = "agent" /\ UNCHANGED <<buildVars, hostVars, listening, qemu>>
      /\ host' = host /\ images' = images /\ installed' = installed /\ saved' = saved
      /\ box' = [box EXCEPT ![b].pc = "stranded"]
  BY DEF QmpFails, hostVars, Goes
<1>2. qemu[b] \in {"guest", "exited"} /\ box \in [Sandboxes -> BoxRecords] /\ box[b] \in BoxRecords
  BY <1>1 DEF LaunchInv, BoxInv, PhaseInv, HostTypes
<1> DEFINE r == [box[b] EXCEPT !.pc = "stranded"]
<1>3. r \in BoxRecords /\ box' = [box EXCEPT ![b] = r] /\ r.pc = "stranded"
  BY <1>1, <1>2 DEF BoxRecords, Live
<1>4. /\ r.qmpPort = box[b].qmpPort /\ r.smbPort = box[b].smbPort /\ r.dnsPort = box[b].dnsPort
      /\ r.runtime = box[b].runtime /\ r.guest = box[b].guest /\ r.disk = box[b].disk
      /\ r.accel = box[b].accel /\ r.wait = box[b].wait /\ r.save = box[b].save
  BY <1>2 DEF BoxRecords
<1> HIDE DEF r
<1> QED
  BY <1>1, <1>2, <1>3, <1>4, LiveMoves DEF Live

\* What is left when a sandbox is cleaned up: neither QEMU nor ports.
LEMMA CleanedKeeps ==
  ASSUME LaunchInv, NEW b \in Sandboxes, NEW ends \in {"failed", "stopped"}, Cleaned(b, ends),
         box[b].pc \in Live, UNCHANGED <<buildVars, hostVars>>
  PROVE  LaunchInv'
<1>1. /\ host' = host /\ images' = images /\ installed' = installed /\ saved' = saved
      /\ box \in [Sandboxes -> BoxRecords] /\ box[b] \in BoxRecords /\ BoxInv(b)
      /\ qemu \in [Sandboxes -> {"none", "starting", "up", "guest", "exited"}]
  BY DEF LaunchInv, HostTypes, hostVars
<1> DEFINE r == [box[b] EXCEPT !.pc = ends, !.agent = None, !.qmp = None,
                          !.agentPort = NoPort, !.socketPort = NoPort,
                          !.smbPort = NoPort, !.dnsPort = NoPort]
           q == IF qemu[b] = "none" THEN "none" ELSE "exited"
           owners == {b} \X (QemuRoles \cup {"smb", "dns"})
<1>2. box' = [box EXCEPT ![b] = r]
  BY <1>1 DEF Cleaned
<1>3. qemu' = [qemu EXCEPT ![b] = q] /\ q \in {"none", "exited"} /\ listening' = FreedOf(owners)
  BY <1>1 DEF Cleaned
<1>4. r \in BoxRecords /\ r.pc = ends /\ r.runtime = box[b].runtime
  BY <1>1 DEF BoxRecords, NoPort
<1> HIDE DEF r, q
<1>5. ASSUME NEW o \in Sandboxes \ {b}, NEW role, NEW p, Holds(o, role, p) PROVE Holds(o, role, p)'
  <2>1. <<o, role>> \notin owners
    OBVIOUS
  <2> HIDE DEF owners
  <2> QED
    BY <1>3, <1>5, <2>1, FreedKeeps
<1> HIDE DEF owners
<1>6. box'[b] = r /\ qemu'[b] = q
  BY <1>1, <1>2, <1>3
<1>7. PhaseInv(b)' /\ PortInv(b)'
  BY <1>3, <1>4, <1>6 DEF PhaseInv, PortInv, Early, Live
<1>8. SettingsInv(b)'
  BY <1>1, <1>4, <1>6, SameSettings DEF SettingsInv, HasImage, HasAccel, Live, BoxInv
<1>9. BoxInv(b)'
  BY <1>7, <1>8 DEF BoxInv
<1>10. /\ UNCHANGED <<buildVars, host, installed, saved>> /\ images' = images
       /\ q \in {"none", "starting", "up", "guest", "exited"}
  BY <1>1, <1>3
<1>11. \A o \in Sandboxes \ {b}, role \in Served : \A p : Holds(o, role, p) => Holds(o, role, p)'
  BY <1>5
<1> HIDE DEF BoxInv, LaunchInv
<1> QED
  BY <1>2, <1>3, <1>4, <1>9, <1>10, <1>11, OneMoves

\* The guest does not answer.
LEMMA GuestIsSilentKeeps ==
  ASSUME LaunchInv, NEW b \in Sandboxes, GuestIsSilent(b)
  PROVE  LaunchInv'
BY CleanedKeeps DEF GuestIsSilent, Live

\* The sandbox stops.
LEMMA StopSandboxKeeps ==
  ASSUME LaunchInv, NEW b \in Sandboxes, StopSandbox(b)
  PROVE  LaunchInv'
BY CleanedKeeps DEF StopSandbox, Live

-----------------------------------------------------------------------------
(* What happens around the sandboxes.                                       *)

\* No sandbox moves, and none loses a port.
LEMMA NoneMoves ==
  ASSUME LaunchInv, UNCHANGED <<buildVars, host, box, qemu>>,
         "any" \in images => images' = images, installed => installed',
         saved' \in Saves \cup {NoSave}, host = NoHost => listening' = listening,
         installed' \in BOOLEAN, InstallInv',
         \A o \in Sandboxes, role \in Served : \A p : Holds(o, role, p) => Holds(o, role, p)'
  PROVE  LaunchInv'
<1>1. WheelInv'
  BY WheelRests DEF LaunchInv
<1>2. Sandboxes' = Sandboxes /\ BoxRecords' = BoxRecords
  BY DEF Sandboxes, BoxRecords
<1>3. HostTypes'
  BY <1>2 DEF LaunchInv, HostTypes
<1>4. \A o \in Sandboxes : BoxInv(o)'
  <2> SUFFICES ASSUME NEW o \in Sandboxes PROVE BoxInv(o)'
    OBVIOUS
  <2>1. BoxInv(o)
    BY DEF LaunchInv
  <2> QED
    BY <2>1, OthersKeep
<1> QED
  BY <1>1, <1>2, <1>3, <1>4 DEF LaunchInv

\* pip takes the wheel; the package manager brings QEMU; a sandbox is saved; other
\* programs come and go.
LEMMA HostMoves ==
  ASSUME LaunchInv,
         \/ PipInstall \/ EnsureRuntime \/ \E b \in Sandboxes : SaveSandbox(b)
         \/ \E p : OtherTakes(p) \/ OtherLeaves(p)
  PROVE  LaunchInv'
<1>1. /\ installed \in BOOLEAN /\ saved \in Saves \cup {NoSave}
      /\ InstallInv
      /\ host = NoHost => listening = <<>>
      /\ box \in [Sandboxes -> BoxRecords]
  BY DEF LaunchInv, HostTypes
<1>2. CASE PipInstall
  <2>1. UNCHANGED <<buildVars, host, box, qemu, listening, images, saved>> /\ installed' = TRUE
    BY <1>2 DEF PipInstall
  <2>2. InstallInv'
    <3>1. stage' = stage /\ machine' = machine /\ tag' = tag /\ host' = host
      BY <2>1 DEF buildVars
    <3>2. PipAccepts' = PipAccepts
      BY <3>1 DEF PipAccepts, Linux
    <3> QED
      BY <1>2, <3>1, <3>2 DEF InstallInv, PipInstall, NoHost
  <2>3. \A o, role, p : Holds(o, role, p) => Holds(o, role, p)'
    BY <2>1 DEF Holds, Free
  <2> QED
    BY <1>1, <2>1, <2>2, <2>3, NoneMoves
<1>3. ASSUME UNCHANGED <<buildVars, host, installed>> PROVE InstallInv'
  <2>1. stage' = stage /\ machine' = machine /\ tag' = tag /\ host' = host
    BY <1>3 DEF buildVars
  <2>2. PipAccepts' = PipAccepts
    BY <2>1 DEF PipAccepts, Linux
  <2> QED
    BY <1>1, <1>3, <2>1, <2>2 DEF InstallInv, NoHost
<1>4. CASE EnsureRuntime
  <2>1. UNCHANGED <<buildVars, host, box, qemu, listening, images, saved, installed>>
    BY <1>4 DEF EnsureRuntime
  <2>2. \A o, role, p : Holds(o, role, p) => Holds(o, role, p)'
    BY <2>1 DEF Holds, Free
  <2> QED
    BY <1>1, <1>3, <2>1, <2>2, NoneMoves
<1>5. CASE \E b \in Sandboxes : SaveSandbox(b)
  <2>1. PICK b \in Sandboxes : SaveSandbox(b)
    BY <1>5
  <2>2. /\ UNCHANGED <<buildVars, host, box, qemu, listening, images, installed>>
        /\ saved' = [recorded |-> host.arch, disk |-> box[b].disk]
    BY <2>1 DEF SaveSandbox, _detect_architecture
  <2>3. saved' \in Saves
    <3>1. host.arch \in Arches /\ box[b].disk \in Arches \cup {None}
      BY <1>1, HostFacts DEF LaunchInv, BoxRecords
    <3> QED
      BY <2>2, <3>1 DEF Saves
  <2>4. \A o, role, p : Holds(o, role, p) => Holds(o, role, p)'
    BY <2>2 DEF Holds, Free
  <2> QED
    BY <1>1, <1>3, <2>2, <2>3, <2>4, NoneMoves
<1>6. ASSUME NEW p, OtherTakes(p) PROVE LaunchInv'
  <2>1. /\ UNCHANGED <<buildVars, host, box, qemu, images, saved, installed>>
        /\ host # NoHost /\ Free(p)
        /\ listening' = [q \in (DOMAIN listening) \cup {p} |->
                           IF q = p THEN <<None, "other">> ELSE listening[q]]
    BY <1>6 DEF OtherTakes, hostVars
  <2>2. ASSUME NEW o, NEW role, NEW k, Holds(o, role, k) PROVE Holds(o, role, k)'
    <3>1. k \in DOMAIN listening /\ listening[k] = <<o, role>> /\ k # p
      BY <2>1, <2>2 DEF Holds, Free
    <3>2. k \in DOMAIN listening' /\ listening'[k] = <<o, role>>
      BY <2>1, <3>1
    <3> QED
      BY <3>2 DEF Holds, Free
  <2> QED
    BY <1>1, <1>3, <2>1, <2>2, NoneMoves
<1>7. ASSUME NEW p, OtherLeaves(p) PROVE LaunchInv'
  <2>1. /\ UNCHANGED <<buildVars, host, box, qemu, images, saved, installed>>
        /\ host # NoHost /\ listening' = FreedOf({<<None, "other">>})
    <3>1. listening # <<>>
      BY <1>7 DEF OtherLeaves, Free
    <3> QED
      BY <1>1, <1>7, <3>1 DEF OtherLeaves, hostVars
  <2>2. ASSUME NEW o, NEW role \in Served, NEW k, Holds(o, role, k) PROVE Holds(o, role, k)'
    <3>1. <<o, role>> \notin {<<None, "other">>}
      BY DEF Served
    <3> QED
      BY <2>1, <2>2, <3>1, FreedKeeps
  <2> QED
    BY <1>1, <1>3, <2>1, <2>2, NoneMoves
<1> QED
  BY <1>2, <1>4, <1>5, <1>6, <1>7

\* The wheel comes to a host, where no sandbox has begun.
LEMMA ArriveKeeps ==
  ASSUME LaunchInv, Arrive
  PROVE  LaunchInv'
<1>1. /\ host = NoHost /\ UNCHANGED <<buildVars, installed, listening>> /\ host' \in Hosts
      /\ images' = host'.images /\ saved' = host'.save
      /\ box' = [b \in Sandboxes' |-> NewBox] /\ qemu' = [b \in Sandboxes' |-> "none"]
  BY DEF Arrive, Sandboxes
<1>2. installed = FALSE /\ listening = <<>> /\ saved' \in Saves
  BY <1>1, LaunchAssumption DEF LaunchInv, HostTypes, InstallInv
<1>3. WheelInv'
  BY <1>1, WheelRests DEF LaunchInv
<1>4. NewBox \in BoxRecords'
  BY DEF NewBox, BoxRecords, Early, NoPort, NoSave, Saves, None
<1>5. HostTypes'
  <2>1. box' \in [Sandboxes' -> BoxRecords'] /\ qemu' \in [Sandboxes' -> {"none"}]
    BY <1>1, <1>4
  <2> QED
    BY <1>1, <1>2, <2>1 DEF HostTypes
<1>6. InstallInv'
  BY <1>1, <1>2 DEF InstallInv
<1>7. ASSUME NEW b \in Sandboxes' PROVE BoxInv(b)'
  <2>1. box'[b] = NewBox /\ qemu'[b] = "none"
    BY <1>1
  <2>2. /\ box'[b].pc = "new" /\ box'[b].runtime = None
    BY <2>1 DEF NewBox
  <2> QED
    BY <2>1, <2>2 DEF BoxInv, PhaseInv, PortInv, SettingsInv, Live, HasImage, HasAccel, None
<1> QED
  BY <1>3, <1>5, <1>6, <1>7 DEF LaunchInv

\* While the wheel is built there is no host, and nothing on it.
LEMMA BuildKeeps ==
  ASSUME LaunchInv, host = NoHost, BuildNext, UNCHANGED launchVars
  PROVE  LaunchInv'
<1>1. /\ UNCHANGED <<host, installed, system, images, saved, listening, box, qemu>>
      /\ Sandboxes' = Sandboxes /\ BoxRecords' = BoxRecords
  BY DEF launchVars, hostVars, Sandboxes, BoxRecords
<1>2. Sandboxes = {} /\ installed = FALSE
  BY DEF Sandboxes, NoHost, LaunchInv, InstallInv, HostTypes
<1>3. WheelInv'
  BY WheelStep DEF LaunchInv
<1>4. HostTypes'
  BY <1>1 DEF LaunchInv, HostTypes
<1>5. InstallInv'
  BY <1>1, <1>2 DEF InstallInv
<1> QED
  BY <1>1, <1>2, <1>3, <1>4, <1>5 DEF LaunchInv

\* A step of a sandbox.
LEMMA StartsKeeps ==
  ASSUME LaunchInv, NEW b \in Sandboxes, Starts(b)
  PROVE  LaunchInv'
<1>1. CASE Create(b) \/ Resolve(b) \/ AutoInstall(b) \/ NoImage(b)
  BY <1>1, CreateKeeps, ResolveKeeps, AutoInstallKeeps, NoImageKeeps
<1>2. CASE DetectAccelerator(b) \/ LoadRuntime(b) \/ FindPorts(b) \/ StartServers(b)
  BY <1>2, DetectAcceleratorKeeps, LoadRuntimeKeeps, FindPortsKeeps, StartServersKeeps
<1>3. CASE QemuComesUp(b) \/ QemuGivesUp(b) \/ GuestIsUp(b) \/ QemuExits(b)
  BY <1>3, QemuComesUpKeeps, QemuGivesUpKeeps, GuestIsUpKeeps, QemuExitsKeeps
<1>4. CASE ConnectAgent(b) \/ GuestIsSilent(b) \/ ConnectQmp(b) \/ QmpFails(b) \/ StopSandbox(b)
  BY <1>4, ConnectAgentKeeps, GuestIsSilentKeeps, ConnectQmpKeeps, QmpFailsKeeps, StopSandboxKeeps
<1>5. CASE SaveSandbox(b)
  BY <1>5, HostMoves
<1> QED
  BY <1>1, <1>2, <1>3, <1>4, <1>5 DEF Starts

\* Before the build nothing is there.
LEMMA StartInit ==
  ASSUME LaunchInit
  PROVE  LaunchInv
<1>1. /\ BuildInit /\ host = NoHost /\ installed = FALSE /\ saved = NoSave
      /\ listening = <<>> /\ box = <<>> /\ qemu = <<>> /\ Sandboxes = {}
  BY DEF LaunchInit, Sandboxes, NoHost
<1>2. WheelInv
  BY <1>1, WheelInit
<1>3. HostTypes
  <2>1. box \in [Sandboxes -> BoxRecords] /\ DOMAIN qemu = {}
    BY <1>1
  <2>2. qemu \in [Sandboxes -> {"none", "starting", "up", "guest", "exited"}]
    BY <1>1
  <2> QED
    BY <1>1, <2>1, <2>2 DEF HostTypes
<1> QED
  BY <1>1, <1>2, <1>3 DEF LaunchInv, InstallInv

\* A stutter changes nothing.
LEMMA NothingMoves ==
  ASSUME LaunchInv, UNCHANGED allVars
  PROVE  LaunchInv'
<1>1. /\ UNCHANGED <<buildVars, host, installed, system, images, saved, listening, box, qemu>>
      /\ UNCHANGED <<stage, machine, tag>>
  BY DEF allVars, launchVars, hostVars, buildVars
<1>2. PipAccepts' = PipAccepts
  BY <1>1 DEF PipAccepts, Linux
<1>3. InstallInv'
  BY <1>1, <1>2 DEF LaunchInv, InstallInv, NoHost
<1>4. \A o, role, p : Holds(o, role, p) => Holds(o, role, p)'
  BY <1>1 DEF Holds, Free
<1>5. saved' \in Saves \cup {NoSave} /\ installed' \in BOOLEAN
  BY <1>1 DEF LaunchInv, HostTypes
<1> QED
  BY <1>1, <1>3, <1>4, <1>5, NoneMoves

\* Every step keeps the invariant.
LEMMA StartStep ==
  ASSUME LaunchInv, [LaunchNext]_allVars
  PROVE  LaunchInv'
<1>1. CASE host = NoHost /\ BuildNext /\ UNCHANGED launchVars
  BY <1>1, BuildKeeps
<1>2. CASE Arrive
  BY <1>2, ArriveKeeps
<1>3. CASE \E b \in Sandboxes : Starts(b)
  BY <1>3, StartsKeeps
<1>4. CASE PipInstall \/ EnsureRuntime \/ \E p \in Ports : OtherTakes(p) \/ OtherLeaves(p)
  BY <1>4, HostMoves
<1>5. CASE UNCHANGED allVars
  BY <1>5, NothingMoves
<1> QED
  BY <1>1, <1>2, <1>3, <1>4, <1>5 DEF LaunchNext

-----------------------------------------------------------------------------
(* What follows from it.                                                    *)

\* The wheel that pip took runs, and a machine that has all that is needed has
\* built one.
LEMMA WheelsRun ==
  ASSUME LaunchInv
  PROVE  WheelsBuildAndRun
<1>1. GoodMachinesBuild
  BY DEF LaunchInv, WheelInv
<1>2. ASSUME installed
      PROVE  /\ (Mac => attempt = 1) => \A f \in Shipped : \A l \in Needs(f) : Resolves(f, l)
             /\ Linux => \A f \in Bundled : machine.glibc[f] <= host.glibc
             /\ Mac => bundle["qemu"].entitled /\ \A f \in Shipped : bundle[f].sealed
  <2>1. host # NoHost /\ host \in Hosts /\ stage = "done" /\ PipAccepts /\ WheelInv
    BY <1>2 DEF LaunchInv, InstallInv, HostTypes
  <2>2. /\ (Mac => attempt = 1) => \A f \in Shipped : \A l \in Needs(f) : Resolves(f, l)
        /\ Linux => tag \in Nat /\ \A f \in Bundled : machine.glibc[f] <= tag
        /\ Mac => bundle["qemu"].entitled /\ \A f \in Shipped : bundle[f].sealed
    BY <2>1, FinishedWheel
  <2>3. ASSUME Linux, NEW f \in Bundled PROVE machine.glibc[f] <= host.glibc
    <3>1. tag \in Nat /\ machine.glibc[f] <= tag /\ tag <= host.glibc
      BY <2>1, <2>2, <2>3 DEF PipAccepts
    <3>2. machine.glibc[f] \in Nat /\ host.glibc \in Nat
      BY <2>1, MachineFacts, LaunchAssumption DEF WheelInv, WheelTypes
    <3> QED
      BY <3>1, <3>2
  <2> QED
    BY <2>2, <2>3
<1> QED
  BY <1>1, <1>2 DEF WheelsBuildAndRun

\* The peers of a running sandbox are its own.
LEMMA PeersAreOwn ==
  ASSUME LaunchInv
  PROVE  OwnPeers
BY DEF LaunchInv, BoxInv, PhaseInv, OwnPeers, Running

\* A sandbox that was launched has an accelerator that fits its guest.
LEMMA AccelFits ==
  ASSUME LaunchInv
  PROVE  EmulationFits
<1> SUFFICES ASSUME NEW b \in Launched
             PROVE  /\ box[b].accel # "tcg" => ArchConfig(b) = host.arch
                    /\ box[b].accel = "tcg" => box[b].wait # BOOT_DEFAULT
                    /\ \/ box[b].disk = ArchConfig(b)
                       \/ Config(b).image = "save" /\ box[b].save.recorded # box[b].save.disk
                       \/ Unlabelled(b)
  BY DEF EmulationFits
<1>1. b \in Sandboxes /\ qemu[b] \in {"starting", "up", "guest"} /\ BoxInv(b) /\ box[b] \in BoxRecords
  BY DEF Launched, LaunchInv, HostTypes
<1>2. box[b].pc \in Live
  BY <1>1 DEF BoxInv, PhaseInv, BoxRecords, Early, Live
<1>3. box[b].pc \in HasAccel /\ box[b].pc \in HasImage
  BY <1>2 DEF HasAccel, HasImage
<1> QED
  BY <1>1, <1>3 DEF BoxInv, SettingsInv

\* The address at which a share is mounted leads to the sandbox's own server, and
\* nowhere else.
LEMMA MountsReach ==
  ASSUME LaunchInv
  PROVE  MountsReachOwnServer
<1> SUFFICES ASSUME NEW b \in Sandboxes, box[b].pc \in {"running", "spawned"}, WantsSmb(b)
             PROVE  Reached(b, MountAddress(b)) = {SmbServer(b)}
  BY DEF MountsReachOwnServer, Running
<1>1. /\ BoxInv(b) /\ box[b].pc \in Live /\ ~Refused(Config(b))
      /\ WantsSmb(b) /\ TcpSmb => box[b].smbPort \in host.ports /\ Holds(b, "smb", box[b].smbPort)
  BY DEF LaunchInv, BoxInv, SettingsInv, PortInv, Live
<1>2. \A i \in GuestForwards(Config(b)) :
         At(Config(b), i) # Tunnel /\ At(Config(b), i)[1] # Gateway
  <2>1. \A i \in GuestForwards(Config(b)) : i \in DOMAIN Config(b).forwards
    BY DEF GuestForwards
  <2>2. ~ForwardsRefused(Config(b)) /\ \A i \in DOMAIN Config(b).forwards : ~ForwardRefused(Config(b), i)
    BY <1>1 DEF Refused
  <2>3. \A i \in GuestForwards(Config(b)) : At(Config(b), i) # Tunnel
    BY <2>2 DEF ForwardsRefused
  <2>4. \A i \in GuestForwards(Config(b)) : At(Config(b), i)[1] # Gateway
    BY <2>1, <2>2 DEF ForwardRefused, Reserved
  <2> QED
    BY <2>3, <2>4
<1>3. SmbTunnel(b) \subseteq {[at |-> Tunnel, to |-> SmbServer(b)]}
  BY DEF SmbTunnel
<1>4. \A g \in UserTunnels(b) : g.at # Tunnel /\ g.at[1] # Gateway
  BY <1>2 DEF UserTunnels
<1>5. Tunnel[1] # Gateway
  BY DEF Tunnel, Gateway
<1>6. CASE UsesGuestfwd \/ Config(b).mode = "MOUNTS_ONLY"
  <2>1. MountAddress(b) = Tunnel /\ SmbTunnel(b) = {[at |-> Tunnel, to |-> SmbServer(b)]}
    BY <1>6 DEF MountAddress, SmbTunnel
  <2>2. {t \in Guestfwd(b) : t.at = Tunnel} = {[at |-> Tunnel, to |-> SmbServer(b)]}
    BY <1>4, <2>1 DEF Guestfwd
  <2>3. {g.to : g \in {t \in Guestfwd(b) : t.at = Tunnel}} = {SmbServer(b)}
    <3> DEFINE leads == {t \in Guestfwd(b) : t.at = Tunnel}
               rec == [at |-> Tunnel, to |-> SmbServer(b)]
    <3>1. leads = {rec} /\ rec.to = SmbServer(b)
      BY <2>2
    <3> HIDE DEF leads, rec
    <3>2. {g.to : g \in leads} = {SmbServer(b)}
      BY <3>1
    <3> QED
      BY <3>2 DEF leads
  <2>4. Reached(b, Tunnel) = {g.to : g \in {t \in Guestfwd(b) : t.at = Tunnel}}
    BY <1>5 DEF Reached
  <2> QED
    BY <2>1, <2>3, <2>4
<1>7. CASE ~UsesGuestfwd /\ Config(b).mode # "MOUNTS_ONLY"
  <2> DEFINE at == MountAddress(b)
  <2>1. at[1] = Gateway /\ at[2] = (IF TcpSmb THEN box[b].smbPort ELSE SmbPort)
    BY <1>7 DEF MountAddress
  <2>2. {t \in Guestfwd(b) : t.at = at} = {}
    <3>1. SmbTunnel(b) = {}
      BY <1>7 DEF SmbTunnel
    <3> QED
      BY <1>4, <2>1, <3>1 DEF Guestfwd
  <2>3. ~Restricted(b)
    BY <1>7 DEF Restricted, WantsSmb
  <2>4. host.os = "windows"
    BY <1>7 DEF UsesGuestfwd
  <2>5. CASE TcpSmb
    <3>1. at[2] # SmbPort /\ ~Free(at[2]) /\ listening[at[2]] = <<b, "smb">>
      <4>1. box[b].smbPort # SmbPort
        BY <1>1, <2>5, HostFacts DEF LaunchInv
      <4> QED
        BY <1>1, <2>1, <2>5, <4>1 DEF Holds
    <3>2. SmbServer(b) = <<b, "smb">>
      BY <2>5 DEF SmbServer
    <3> HIDE DEF at
    <3> QED
      BY <2>1, <2>2, <2>3, <3>1, <3>2 DEF Reached, at
  <2>6. CASE ~TcpSmb
    <3>1. SmbServer(b) = <<None, "smb">> /\ at[2] = SmbPort
      BY <2>1, <2>4, <2>6 DEF SmbServer
    <3> HIDE DEF at
    <3> QED
      BY <2>1, <2>2, <2>3, <3>1 DEF Reached, at
  <2> QED
    BY <2>5, <2>6
<1> QED
  BY <1>6, <1>7

\* Queries come to the sandbox's own proxy, by the patched libslirp.
LEMMA DnsReaches ==
  ASSUME LaunchInv
  PROVE  DnsReachesTheHost
<1> SUFFICES ASSUME NEW b \in Sandboxes, box[b].pc = "running", qemu[b] # "exited",
                    host.os = "darwin", Config(b).mode = "FULL", Config(b).dns # "off",
                    box[b].runtime = "bundled"
             PROVE  /\ ~Free(box[b].dnsPort) /\ listening[box[b].dnsPort] = <<b, "dns">>
                    /\ Slirp \in bundle["qemu"].local /\ bundle[Slirp].patched
  BY DEF DnsReachesTheHost, Running, Launched
<1>1. DnsProxyWanted(b)
  BY DEF DnsProxyWanted
<1>2. Holds(b, "dns", box[b].dnsPort)
  BY <1>1 DEF LaunchInv, BoxInv, PortInv, Live
<1>3. stage = "done" /\ Mac /\ WheelInv
  <2>1. installed
    BY DEF LaunchInv, BoxInv, SettingsInv
  <2> QED
    BY <2>1 DEF LaunchInv, InstallInv, PipAccepts, Mac
<1>4. Slirp \in bundle["qemu"].local /\ bundle[Slirp].patched
  BY <1>3, FinishedWheel
<1> QED
  BY <1>2, <1>4 DEF Holds

\* The invariant holds throughout a build and all that is started with it.
THEOREM LaunchInvariant == LaunchSpec => []LaunchInv
<1>1. LaunchInit => LaunchInv
  BY StartInit
<1>2. LaunchInv /\ [LaunchNext]_allVars => LaunchInv'
  BY StartStep
<1> QED
  BY <1>1, <1>2, PTL DEF LaunchSpec

\* A wheel that pip accepts runs on the host that accepted it, and a machine that
\* has all that is needed builds one.
THEOREM WheelsTheorem == LaunchSpec => []WheelsBuildAndRun
BY LaunchInvariant, WheelsRun, PTL

\* A running sandbox talks to its own guest and its own QEMU, whatever other
\* sandboxes and programs do with the ports it looked up.
THEOREM PeersTheorem == LaunchSpec => []OwnPeers
BY LaunchInvariant, PeersAreOwn, PTL

\* A guest reaches its own sandbox's SMB server at the address its mounts use,
\* and on macOS its DNS proxy.
THEOREM GuestTheorem == LaunchSpec => []GuestReachesItsHost
<1>1. LaunchInv => GuestReachesItsHost
  BY MountsReach, DnsReaches DEF GuestReachesItsHost
<1> QED
  BY <1>1, LaunchInvariant, PTL

\* A guest of another architecture is emulated, one that is emulated gets the
\* time for it, and the machine is that of the image, but for the two cases that
\* EmulationFits names.
THEOREM EmulationTheorem == LaunchSpec => []EmulationFits
BY LaunchInvariant, AccelFits, PTL

-----------------------------------------------------------------------------
(* The lifecycle of one Sandbox object: the inductive invariant. *)

Starting == {"agent", "qmp"}
Cleaning == {"closeAgent", "closeQmp"}

\* Only _is_running separates a start() from the other calls: as long as it is
\* waiting for the agent or QMP they are all refused, so what it has acquired
\* stays.
StartInv ==
    \A t \in Tasks : pc[t] \in Starting =>
        /\ ~running /\ smb /\ temp \in temps
        /\ pc[t] = "qmp" => agent
        /\ \A u \in Tasks \ {t} : Idle(u)

\* _is_running is set last and cleared first.
RunInv ==
    running => proc # "none" /\ agent /\ qmp /\ smb /\ temp \in temps

\* What a cleanup has released stays released until it is over.
CleanInv ==
    \A t \in Tasks :
        /\ pc[t] \in Cleaning => ~running /\ ~smb
        /\ pc[t] = "closeQmp" => ~agent

\* Directories are those that were forgotten and the one in _temp_dir.
DirInv ==
    /\ temp \in 0..starts /\ temp \notin abandoned \cup unremoved
    /\ temps = abandoned \cup unremoved \cup ({temp} \ {0})

\* When the sandbox is down somebody is responsible for what is left.
Clean == proc = "none" /\ temp = 0 /\ ~smb /\ ~agent /\ ~qmp
LeakInv ==
    ~running /\ ~stranded =>
        Clean \/ \E t \in Tasks : pc[t] \in Starting \cup Cleaning

ResourceInv == StartInv /\ RunInv /\ CleanInv /\ DirInv /\ LeakInv

\* One call at a time waits for QMP, and deleting says how far a save() is.
QmpInv ==
    /\ \A t, u \in Tasks : pc[t] \in OverQmp /\ pc[u] \in OverQmp => t = u
    /\ \A t \in Tasks : pc[t] = "quiesce" => deleting[t] \in {0, 1}
    /\ \A t \in Tasks : pc[t] = "delete" => deleting[t] >= 1

\* A save() that has deleted all tags, or found none, and is going to pivot.
Undeleting(t) ==
    \/ pc[t] = "quiesce" /\ deleting[t] = 0
    \/ pc[t] \in {"flush", "pivot"}

\* A snapshot is listed, or it was not to be deleted: QEMU said so, unheard.  A
\* save() meets none but those and the ones made after its check, or has left
\* those it has yet to delete.
Excused == unread \cup overtook
SnapsInv ==
    ~crossed =>
        /\ snaps \subseteq Range(tags) \cup unread
        /\ \A t \in Tasks : Undeleting(t) => snaps \subseteq Excused
        /\ \A t \in Tasks : pc[t] = "delete" =>
              \A g \in snaps \ unread :
                  \E i \in DOMAIN tags : i >= deleting[t] /\ tags[i] = g

\* The first session starts without tags.
SessionInv == (qmp => sessions > 0) /\ (tags # <<>> => sessions > 0)

\* In it a listed tag has its snapshot, unless savevm failed unheard, a save()
\* has just deleted it, or one that it overtook has or will have frozen it.
Gone(g) ==
    \E t \in Tasks : pc[t] = "delete" /\ \E i \in DOMAIN tags :
        i < deleting[t] /\ tags[i] = g
ListedInv ==
    ~crossed /\ sessions = 1 /\ IsRunning =>
        /\ \A g \in Range(tags) : g \in snaps \cup Excused \/ Gone(g)
        /\ \A t \in Tasks : pc[t] = "loadvm" => arg[t] \in snaps \cup Excused
        /\ \A t \in Tasks : Undeleting(t) =>
              \A g \in Range(tags) : g \in Excused \/ Gone(g)

SnapshotInv == QmpInv /\ SnapsInv /\ SessionInv /\ ListedInv
IInv == TypeOK /\ ResourceInv /\ SnapshotInv

-----------------------------------------------------------------------------
(* Types *)

\* A list without repetitions is empty, or grows by a tag it did not have.
LEMMA EmptyTags == <<>> \in Seq(Tags) /\ IsInjective(<<>>) /\ Range(<<>>) = {}
  BY DEF IsInjective, Range

LEMMA AppendTags ==
  ASSUME NEW s \in Seq(Tags), IsInjective(s), NEW g \in Tags, g \notin Range(s)
  PROVE  /\ Append(s, g) \in Seq(Tags) /\ IsInjective(Append(s, g))
         /\ Range(Append(s, g)) = Range(s) \cup {g}
<1>1. /\ Append(s, g) \in Seq(Tags)
      /\ DOMAIN Append(s, g) = 1..(Len(s) + 1) /\ Append(s, g)[Len(s) + 1] = g
      /\ \A i \in 1..Len(s) : Append(s, g)[i] = s[i]
  OBVIOUS
<1>2. Len(s) \in Nat /\ DOMAIN s = 1..Len(s)
  OBVIOUS
<1>3. ASSUME NEW i \in DOMAIN Append(s, g), NEW j \in DOMAIN Append(s, g),
             Append(s, g)[i] = Append(s, g)[j]
      PROVE  i = j
  <2>1. CASE i = Len(s) + 1 /\ j # Len(s) + 1
    BY <1>1, <1>2, <1>3, <2>1 DEF Range
  <2>2. CASE i # Len(s) + 1 /\ j = Len(s) + 1
    BY <1>1, <1>2, <1>3, <2>2 DEF Range
  <2>3. CASE i # Len(s) + 1 /\ j # Len(s) + 1
    <3>1. i \in DOMAIN s /\ j \in DOMAIN s /\ s[i] = s[j]
      BY <1>1, <1>2, <1>3, <2>3
    <3> QED BY <3>1 DEF IsInjective
  <2> QED BY <2>1, <2>2, <2>3
<1>4. IsInjective(Append(s, g))
  BY <1>3 DEF IsInjective
<1>5. Range(Append(s, g)) = Range(s) \cup {g}
  <2>1. ASSUME NEW h \in Range(Append(s, g)) PROVE h \in Range(s) \cup {g}
    <3>1. PICK i \in 1..(Len(s) + 1) : Append(s, g)[i] = h
      BY <1>1 DEF Range
    <3>2. CASE i = Len(s) + 1
      BY <1>1, <3>1, <3>2
    <3>3. CASE i \in 1..Len(s)
      BY <1>1, <1>2, <3>1, <3>3 DEF Range
    <3> QED BY <1>2, <3>2, <3>3
  <2>2. ASSUME NEW h \in Range(s) \cup {g} PROVE h \in Range(Append(s, g))
    <3>1. CASE h = g
      BY <1>1, <1>2, <3>1 DEF Range
    <3>2. CASE h \in Range(s)
      <4>1. PICK i \in 1..Len(s) : s[i] = h
        BY <1>2, <3>2 DEF Range
      <4>2. i \in DOMAIN Append(s, g) /\ Append(s, g)[i] = h
        BY <1>1, <1>2, <4>1
      <4> QED BY <4>2 DEF Range
    <3> QED BY <3>1, <3>2
  <2> QED BY <2>1, <2>2
<1> QED BY <1>1, <1>4, <1>5

\* Every step keeps the types.
LEMMA TypeStep == ASSUME TypeOK, DirInv, QmpInv, [Next]_vars PROVE TypeOK'
<1> USE DEF objectVars, callVars, qemuVars, countVars, dirVars, tagHistory, Fault, Idle
<1>1. ASSUME NEW t \in Tasks, AgentConnects(t) PROVE TypeOK'
    BY <1>1 DEF TypeOK, Steps, OverQmp, AgentConnects, Goto
<1>2. ASSUME NEW t \in Tasks, AgentFails(t) PROVE TypeOK'
    BY <1>2 DEF TypeOK, Steps, OverQmp, AgentFails, BeginCleanup, Goto
<1>3. ASSUME NEW t \in Tasks, QmpConnects(t) PROVE TypeOK'
    BY <1>3 DEF TypeOK, Steps, OverQmp, QmpConnects, Goto
<1>4. ASSUME NEW t \in Tasks, QmpRefuses(t) PROVE TypeOK'
    BY <1>4 DEF TypeOK, Steps, OverQmp, QmpRefuses, Goto
<1>5. ASSUME NEW t \in Tasks, Mounted(t) PROVE TypeOK'
    BY <1>5 DEF TypeOK, Steps, OverQmp, Mounted, Goto
<1>6. ASSUME NEW t \in Tasks, MountFails(t) PROVE TypeOK'
    BY <1>6 DEF TypeOK, Steps, OverQmp, MountFails, BeginCleanup, Goto
<1>7. ASSUME NEW t \in Tasks, AgentClosed(t) PROVE TypeOK'
    BY <1>7 DEF TypeOK, Steps, OverQmp, AgentClosed, Goto
<1>8. ASSUME NEW t \in Tasks, EndCleanup(t) PROVE TypeOK'
  <2>1. temps' \subseteq 1..starts' /\ abandoned' \cup unremoved' \subseteq temps'
    <3>1. temps \subseteq 1..starts /\ abandoned \cup unremoved \subseteq temps
          /\ temp \notin abandoned \cup unremoved
          /\ temps = abandoned \cup unremoved \cup ({temp} \ {0})
      BY DEF TypeOK, DirInv
    <3> QED BY <1>8, <3>1 DEF EndCleanup
  <2>2. {temp', starts', sessions', faults'} \subseteq Nat
    BY <1>8 DEF TypeOK, EndCleanup
  <2> QED BY <1>8, <2>1, <2>2 DEF TypeOK, Steps, OverQmp, EndCleanup, Goto
<1>9. ASSUME NEW t \in Tasks, Quiesced(t) PROVE TypeOK'
    BY <1>9 DEF TypeOK, Steps, OverQmp, Quiesced, Goto
<1>10. ASSUME NEW t \in Tasks, Deleted(t) PROVE TypeOK'
  <2>1. tags[deleting[t]] \in Tags
    BY <1>10 DEF TypeOK, QmpInv, Deleted, Replied
  <2>2. unread' \subseteq Tags /\ overtook' \subseteq Tags /\ snaps' \subseteq Tags
        /\ faults' \in Nat
    BY <1>10, <2>1 DEF TypeOK, Deleted
  <2> QED BY <1>10, <2>2 DEF TypeOK, Steps, OverQmp, Deleted, Replied
<1>11. ASSUME NEW t \in Tasks, DeletedAll(t) PROVE TypeOK'
    BY <1>11, EmptyTags DEF TypeOK, Steps, OverQmp, DeletedAll, Goto
<1>12. ASSUME NEW t \in Tasks, Flushed(t) PROVE TypeOK'
    BY <1>12 DEF TypeOK, Steps, OverQmp, Flushed, Replied, Goto
<1>13. ASSUME NEW t \in Tasks, Pivoted(t) PROVE TypeOK'
    BY <1>13, LifecycleAssumption DEF TypeOK, Steps, OverQmp, Pivoted, Replied, Leave,
       BeginCleanup, Goto
<1>14. ASSUME NEW t \in Tasks, SaveFails(t) PROVE TypeOK'
    BY <1>14, LifecycleAssumption DEF TypeOK, Steps, OverQmp, SaveFails, Leave, BeginCleanup, Goto
<1>15. ASSUME NEW t \in Tasks, Checkpointed(t) PROVE TypeOK'
  <2>1. arg[t] \in Tags /\ tags' \in Seq(Tags) /\ IsInjective(tags')
    BY <1>15, AppendTags DEF TypeOK, Checkpointed
  <2>2. unread' \subseteq Tags /\ overtook' \subseteq Tags /\ snaps' \subseteq Tags
        /\ faults' \in Nat
    BY <1>15, <2>1 DEF TypeOK, Checkpointed
  <2> QED BY <1>15, <2>1, <2>2, LifecycleAssumption
          DEF TypeOK, Steps, OverQmp, Checkpointed, Replied, Leave, BeginCleanup, Goto
<1>16. ASSUME NEW t \in Tasks, Reverted(t) PROVE TypeOK'
    BY <1>16, LifecycleAssumption DEF TypeOK, Steps, OverQmp, Reverted, Replied, Leave,
       BeginCleanup, Goto
<1>17. ASSUME NEW t \in Tasks, ReplyLost(t) PROVE TypeOK'
    BY <1>17, LifecycleAssumption DEF TypeOK, Steps, OverQmp, ReplyLost, Leave, BeginCleanup, Goto
<1>18. ASSUME NEW t \in Tasks, Start(t) PROVE TypeOK'
  <2>1. starts \in Nat /\ temps \subseteq 1..starts /\ abandoned \cup unremoved \subseteq temps
    BY DEF TypeOK
  <2>2. starts' = starts + 1 /\ temp' = starts' /\ temps' = temps \cup {starts'}
        /\ abandoned' = abandoned \cup (temps \cap {temp}) /\ unremoved' = unremoved
    BY <1>18 DEF Start, NewTemp
  <2>3. starts' \in Nat /\ temp' \in Nat /\ temps' \subseteq 1..starts'
    BY <2>1, <2>2
  <2>4. abandoned' \cup unremoved' \subseteq temps'
    BY <2>1, <2>2
  <2>5. smb' \in BOOLEAN /\ stranded' \in BOOLEAN
    BY <1>18 DEF TypeOK, Start
  <2>6. {temp', starts', sessions', faults'} \subseteq Nat
    BY <1>18, <2>3 DEF TypeOK, Start
  <2> QED
    BY <1>18, <2>3, <2>4, <2>5, <2>6 DEF TypeOK, Steps, OverQmp, Start, Goto
<1>19. ASSUME NEW t \in Tasks, Save(t) PROVE TypeOK'
    BY <1>19 DEF TypeOK, Steps, OverQmp, Save, Accepted, BeginSave, Goto
<1>20. ASSUME NEW t \in Tasks, StopSaves(t) PROVE TypeOK'
    BY <1>20 DEF TypeOK, Steps, OverQmp, StopSaves, Accepted, BeginSave, Goto
<1>21. ASSUME NEW t \in Tasks, Stop(t) PROVE TypeOK'
    BY <1>21 DEF TypeOK, Steps, OverQmp, Stop, BeginCleanup, Goto
<1>22. ASSUME NEW t \in Tasks, Checkpoint(t) PROVE TypeOK'
    BY <1>22 DEF TypeOK, Steps, OverQmp, Checkpoint, Accepted, Goto
<1>23. ASSUME NEW t \in Tasks, Revert(t) PROVE TypeOK'
    BY <1>23 DEF TypeOK, Steps, OverQmp, Revert, Accepted, Goto
<1>24. ASSUME StartRaises PROVE TypeOK'
  <2>1. starts \in Nat /\ temps \subseteq 1..starts /\ abandoned \cup unremoved \subseteq temps
    BY DEF TypeOK
  <2>2. starts' = starts + 1 /\ temp' = starts' /\ temps' = temps \cup {starts'}
        /\ abandoned' = abandoned \cup (temps \cap {temp}) /\ unremoved' = unremoved
    BY <1>24 DEF StartRaises, NewTemp
  <2>3. starts' \in Nat /\ temp' \in Nat /\ temps' \subseteq 1..starts'
    BY <2>1, <2>2
  <2>4. abandoned' \cup unremoved' \subseteq temps'
    BY <2>1, <2>2
  <2>5. smb' \in BOOLEAN /\ stranded' \in BOOLEAN
    BY <1>24 DEF TypeOK, StartRaises
  <2>6. {temp', starts', sessions', faults'} \subseteq Nat
    BY <1>24, <2>3 DEF TypeOK, StartRaises
  <2> QED
    BY <1>24, <2>3, <2>4, <2>5, <2>6 DEF TypeOK, Steps, OverQmp, StartRaises
<1>25. ASSUME QemuDies PROVE TypeOK'
    BY <1>25 DEF TypeOK, Steps, OverQmp, QemuDies
<1>26. CASE UNCHANGED vars
    BY <1>26 DEF TypeOK, Steps, OverQmp, vars
<1>27. ASSUME NEW t \in Tasks, Cancel(t), CancelStart(t) PROVE TypeOK'
  <2>1. agent \in BOOLEAN /\ (agent' = agent \/ agent' = TRUE \/ agent' = FALSE)
    BY <1>27 DEF TypeOK, CancelStart
  <2>2. faults' \in Nat
    BY <1>27 DEF TypeOK, Cancel
  <2>3. agent' \in BOOLEAN
    BY <2>1
  <2> QED BY <1>27, <2>2, <2>3 DEF TypeOK, Steps, OverQmp, Cancel, CancelStart, Goto
<1>28. ASSUME NEW t \in Tasks, Cancel(t), CancelCleanup(t) PROVE TypeOK'
  <2>1. agent \in BOOLEAN /\ (agent' = agent \/ agent' = TRUE \/ agent' = FALSE)
    BY <1>28 DEF TypeOK, CancelCleanup
  <2>2. faults' \in Nat
    BY <1>28 DEF TypeOK, Cancel
  <2>3. agent' \in BOOLEAN
    BY <2>1
  <2> QED BY <1>28, <2>2, <2>3 DEF TypeOK, Steps, OverQmp, Cancel, CancelCleanup, Goto
<1>29. ASSUME NEW t \in Tasks, Cancel(t), CancelCall(t) PROVE TypeOK'
    BY <1>29, LifecycleAssumption DEF TypeOK, Steps, OverQmp, Cancel, CancelCall,
       Outcomes, Range, Goto
<1> QED
    BY <1>1, <1>2, <1>3, <1>4, <1>5, <1>6, <1>7, <1>8, <1>9, <1>10, <1>11,
       <1>12, <1>13, <1>14, <1>15, <1>16, <1>17, <1>18, <1>19, <1>20, <1>21,
       <1>22, <1>23, <1>24, <1>25, <1>26, <1>27, <1>28, <1>29
       DEF Next, Calls, Continues, Cancel

-----------------------------------------------------------------------------
(* Resources *)

\* start() replaces _temp_dir, and what it overwrote is forgotten.
LEMMA NewTempDir ==
  ASSUME TypeOK, DirInv, NewTemp PROVE DirInv' /\ temp' \in temps'
<1>1. starts \in Nat /\ temps \subseteq 1..starts
  BY DEF TypeOK
<1>2. starts' = starts + 1 /\ temp' = starts' /\ temps' = temps \cup {starts'}
      /\ abandoned' = abandoned \cup (temps \cap {temp}) /\ unremoved' = unremoved
  BY DEF NewTemp
<1>3. starts' \notin temps /\ starts' # 0 /\ temp' \in 0..starts'
  BY <1>1, <1>2
<1>4. temps = abandoned \cup unremoved \cup ({temp} \ {0}) /\ 0 \notin temps
  BY <1>1 DEF DirInv
<1>5. abandoned' \cup unremoved' = temps
  BY <1>2, <1>4
<1> QED BY <1>2, <1>3, <1>5 DEF DirInv

\* A call that returns holds nothing, and one that goes on to its cleanup
\* answers for the rest.
LEMMA LeaveResources ==
  ASSUME TypeOK, ResourceInv, NEW t \in Tasks, Leave(t),
         pc[t] \notin Starting \cup Cleaning \cup {"idle"},
         UNCHANGED <<proc, temps, starts, abandoned, unremoved, stranded>>
  PROVE  ResourceInv'
<1> USE DEF ResourceInv, StartInv, RunInv, CleanInv, DirInv, LeakInv, Clean,
            Starting, Cleaning, Idle
<1>1. CASE autosave[t] /\ BeginCleanup(t) /\ UNCHANGED agent
  BY <1>1 DEF TypeOK, BeginCleanup, Goto
<1>2. CASE Goto(t, "idle") /\ UNCHANGED objectVars
  BY <1>2 DEF TypeOK, objectVars, Goto
<1> QED BY <1>1, <1>2 DEF Leave

\* Every step keeps the account of what is held and by whom.
LEMMA ResourceStep == ASSUME TypeOK, ResourceInv, [Next]_vars PROVE ResourceInv'
<1> USE DEF objectVars, callVars, qemuVars, countVars, dirVars, tagHistory, Fault, Idle
<1>1. ASSUME NEW t \in Tasks, AgentConnects(t) PROVE ResourceInv'
    BY <1>1 DEF TypeOK, ResourceInv, StartInv, RunInv, CleanInv, DirInv,
       LeakInv, Clean, Starting, Cleaning, AgentConnects, Goto
<1>2. ASSUME NEW t \in Tasks, AgentFails(t) PROVE ResourceInv'
  <2>1. ~running /\ pc[t] = "agent" /\ \A u \in Tasks \ {t} : pc[u] = "idle"
    BY <1>2 DEF AgentFails, ResourceInv, StartInv, Starting
  <2>2. ~running' /\ ~smb' /\ pc' = [pc EXCEPT ![t] = "closeAgent"]
    BY <1>2, <2>1 DEF AgentFails, BeginCleanup, Goto
  <2> QED BY <1>2, <2>1, <2>2 DEF TypeOK, ResourceInv, StartInv, RunInv, CleanInv, DirInv,
          LeakInv, Clean, Starting, Cleaning, AgentFails, BeginCleanup
<1>3. ASSUME NEW t \in Tasks, QmpConnects(t) PROVE ResourceInv'
    BY <1>3 DEF TypeOK, ResourceInv, StartInv, RunInv, CleanInv, DirInv,
       LeakInv, Clean, Starting, Cleaning, QmpConnects, Goto
<1>4. ASSUME NEW t \in Tasks, QmpRefuses(t) PROVE ResourceInv'
    BY <1>4 DEF TypeOK, ResourceInv, StartInv, RunInv, CleanInv, DirInv,
       LeakInv, Clean, Starting, Cleaning, QmpRefuses, Goto
<1>5. ASSUME NEW t \in Tasks, Mounted(t) PROVE ResourceInv'
    BY <1>5 DEF TypeOK, ResourceInv, StartInv, RunInv, CleanInv, DirInv,
       LeakInv, Clean, Starting, Cleaning, Mounted, Goto, IsRunning
<1>6. ASSUME NEW t \in Tasks, MountFails(t) PROVE ResourceInv'
    BY <1>6 DEF TypeOK, ResourceInv, StartInv, RunInv, CleanInv, DirInv,
       LeakInv, Clean, Starting, Cleaning, MountFails, BeginCleanup, Goto
<1>7. ASSUME NEW t \in Tasks, AgentClosed(t) PROVE ResourceInv'
    BY <1>7 DEF TypeOK, ResourceInv, StartInv, RunInv, CleanInv, DirInv,
       LeakInv, Clean, Starting, Cleaning, AgentClosed, Goto
<1>8. ASSUME NEW t \in Tasks, EndCleanup(t) PROVE ResourceInv'
    BY <1>8 DEF TypeOK, ResourceInv, StartInv, RunInv, CleanInv, DirInv,
       LeakInv, Clean, Starting, Cleaning, EndCleanup, Goto
<1>9. ASSUME NEW t \in Tasks, Quiesced(t) PROVE ResourceInv'
    BY <1>9 DEF TypeOK, ResourceInv, StartInv, RunInv, CleanInv, DirInv,
       LeakInv, Clean, Starting, Cleaning, Quiesced, Goto, IsRunning
<1>10. ASSUME NEW t \in Tasks, Deleted(t) PROVE ResourceInv'
    BY <1>10 DEF TypeOK, ResourceInv, StartInv, RunInv, CleanInv, DirInv,
       LeakInv, Clean, Starting, Cleaning, Deleted, Replied
<1>11. ASSUME NEW t \in Tasks, DeletedAll(t) PROVE ResourceInv'
    BY <1>11 DEF TypeOK, ResourceInv, StartInv, RunInv, CleanInv, DirInv,
       LeakInv, Clean, Starting, Cleaning, DeletedAll, Goto
<1>12. ASSUME NEW t \in Tasks, Flushed(t) PROVE ResourceInv'
    BY <1>12 DEF TypeOK, ResourceInv, StartInv, RunInv, CleanInv, DirInv,
       LeakInv, Clean, Starting, Cleaning, Flushed, Replied, Goto
<1>13. ASSUME NEW t \in Tasks, Pivoted(t) PROVE ResourceInv'
  BY <1>13, LeaveResources DEF Pivoted, Replied, Starting, Cleaning
<1>14. ASSUME NEW t \in Tasks, SaveFails(t) PROVE ResourceInv'
  BY <1>14, LeaveResources DEF SaveFails, Starting, Cleaning
<1>15. ASSUME NEW t \in Tasks, Checkpointed(t) PROVE ResourceInv'
  BY <1>15, LeaveResources DEF Checkpointed, Replied, Starting, Cleaning
<1>16. ASSUME NEW t \in Tasks, Reverted(t) PROVE ResourceInv'
  BY <1>16, LeaveResources DEF Reverted, Replied, Starting, Cleaning
<1>17. ASSUME NEW t \in Tasks, ReplyLost(t) PROVE ResourceInv'
  BY <1>17, LeaveResources DEF ReplyLost, OverQmp, Starting, Cleaning
<1>18. ASSUME NEW t \in Tasks, Start(t) PROVE ResourceInv'
  <2>1. DirInv' /\ temp' \in temps' /\ ~running
    BY <1>18, NewTempDir DEF Start, NewTemp, ResourceInv, RunInv
  <2>2. /\ running' = running /\ agent' = agent /\ smb'
        /\ pc' = [pc EXCEPT ![t] = "agent"]
        /\ \A u \in Tasks : pc[u] = "idle"
    BY <1>18 DEF Start, NewTemp, Goto
  <2>3. pc \in [Tasks -> Steps]
    BY DEF TypeOK
  <2> QED BY <2>1, <2>2, <2>3 DEF ResourceInv, StartInv, RunInv, CleanInv,
          LeakInv, Starting, Cleaning
<1>19. ASSUME NEW t \in Tasks, Save(t) PROVE ResourceInv'
    BY <1>19 DEF TypeOK, ResourceInv, StartInv, RunInv, CleanInv, DirInv,
       LeakInv, Clean, Starting, Cleaning, Save, Accepted, BeginSave, Goto,
       IsRunning
<1>20. ASSUME NEW t \in Tasks, StopSaves(t) PROVE ResourceInv'
    BY <1>20 DEF TypeOK, ResourceInv, StartInv, RunInv, CleanInv, DirInv,
       LeakInv, Clean, Starting, Cleaning, StopSaves, Accepted, BeginSave,
       Goto, IsRunning
<1>21. ASSUME NEW t \in Tasks, Stop(t) PROVE ResourceInv'
    BY <1>21 DEF TypeOK, ResourceInv, StartInv, RunInv, CleanInv, DirInv,
       LeakInv, Clean, Starting, Cleaning, Stop, BeginCleanup, Goto, IsRunning
<1>22. ASSUME NEW t \in Tasks, Checkpoint(t) PROVE ResourceInv'
    BY <1>22 DEF TypeOK, ResourceInv, StartInv, RunInv, CleanInv, DirInv,
       LeakInv, Clean, Starting, Cleaning, Checkpoint, Accepted, Goto,
       IsRunning
<1>23. ASSUME NEW t \in Tasks, Revert(t) PROVE ResourceInv'
    BY <1>23 DEF TypeOK, ResourceInv, StartInv, RunInv, CleanInv, DirInv,
       LeakInv, Clean, Starting, Cleaning, Revert, Accepted, Goto, IsRunning
<1>24. ASSUME StartRaises PROVE ResourceInv'
  <2>1. DirInv' /\ temp' \in temps'
    BY <1>24, NewTempDir DEF StartRaises, ResourceInv
  <2>2. UNCHANGED <<pc, running, proc, agent, qmp>> /\ stranded'
        /\ \A u \in Tasks : pc[u] = "idle"
    BY <1>24 DEF StartRaises, NewTemp
  <2>3. smb => smb'
    BY <1>24 DEF StartRaises
  <2> QED BY <2>1, <2>2, <2>3 DEF ResourceInv, StartInv, RunInv, CleanInv,
          LeakInv, Starting, Cleaning
<1>25. ASSUME QemuDies PROVE ResourceInv'
    BY <1>25 DEF TypeOK, ResourceInv, StartInv, RunInv, CleanInv, DirInv,
       LeakInv, Clean, Starting, Cleaning, QemuDies
<1>26. CASE UNCHANGED vars
    BY <1>26 DEF TypeOK, ResourceInv, StartInv, RunInv, CleanInv, DirInv,
       LeakInv, Clean, Starting, Cleaning, vars
<1>27. ASSUME NEW t \in Tasks, Cancel(t), CancelStart(t) PROVE ResourceInv'
    BY <1>27 DEF TypeOK, ResourceInv, StartInv, RunInv, CleanInv, DirInv,
       LeakInv, Clean, Starting, Cleaning, Cancel, CancelStart, Goto
<1>28. ASSUME NEW t \in Tasks, Cancel(t), CancelCleanup(t) PROVE ResourceInv'
    BY <1>28 DEF TypeOK, ResourceInv, StartInv, RunInv, CleanInv, DirInv,
       LeakInv, Clean, Starting, Cleaning, Cancel, CancelCleanup, Goto
<1>29. ASSUME NEW t \in Tasks, Cancel(t), CancelCall(t) PROVE ResourceInv'
    BY <1>29 DEF TypeOK, ResourceInv, StartInv, RunInv, CleanInv, DirInv,
       LeakInv, Clean, Starting, Cleaning, OverQmp, Cancel, CancelCall, Goto
<1> QED
    BY <1>1, <1>2, <1>3, <1>4, <1>5, <1>6, <1>7, <1>8, <1>9, <1>10, <1>11,
       <1>12, <1>13, <1>14, <1>15, <1>16, <1>17, <1>18, <1>19, <1>20, <1>21,
       <1>22, <1>23, <1>24, <1>25, <1>26, <1>27, <1>28, <1>29
       DEF Next, Calls, Continues, Cancel

-----------------------------------------------------------------------------
(* Checkpoints *)

\* The steps at which a coroutine has no business with QMP.
Quiet == {"idle", "agent", "qmp", "mount", "closeAgent", "closeQmp"}

\* A coroutine that goes to such a step takes nothing along, unless it stops
\* deleting tags while the sandbox runs, which no action does.
LEMMA QuietSnapshots ==
  ASSUME IInv, NEW t \in Tasks, NEW step \in Quiet, Goto(t, step),
         UNCHANGED <<tags, sessions, unread, overtook>>,
         \A u \in Tasks \ {t} : deleting'[u] = deleting[u] /\ arg'[u] = arg[u],
         ~crossed' => ~crossed /\ (snaps' = snaps \/ (snaps' = {} /\ Undeleting(t))),
         IsRunning' /\ ~crossed' => IsRunning /\ pc[t] # "delete", qmp' => qmp
  PROVE  SnapshotInv'
<1>1. pc \in [Tasks -> Steps] /\ pc' = [pc EXCEPT ![t] = step]
  BY DEF IInv, TypeOK, Goto
<1>2. \A u \in Tasks : pc'[u] \notin Quiet => u # t /\ pc'[u] = pc[u]
  BY <1>1
<1>3. \A u \in Tasks : pc'[u] \notin Quiet => deleting'[u] = deleting[u] /\ arg'[u] = arg[u]
  BY <1>2
<1>4. QmpInv'
  BY <1>2, <1>3 DEF IInv, SnapshotInv, QmpInv, OverQmp, Quiet
<1>5. \A u \in Tasks : Undeleting(u)' => Undeleting(u)
  BY <1>2, <1>3 DEF Undeleting, Quiet
<1>6. SnapsInv'
  BY <1>2, <1>3, <1>5 DEF IInv, SnapshotInv, SnapsInv, Excused, Quiet
<1>7. SessionInv'
  BY DEF IInv, SnapshotInv, SessionInv
<1>8. ASSUME ~crossed', sessions = 1, IsRunning' PROVE ListedInv'
  <2>1. \A u \in Tasks : pc[u] = "delete" => pc'[u] = "delete" /\ u # t
    BY <1>1, <1>8
  <2>2. \A g : Gone(g) => Gone(g)'
    BY <2>1 DEF Gone
  <2>3. \A u \in Tasks : pc'[u] = "loadvm" => pc[u] = "loadvm" /\ arg'[u] = arg[u]
    BY <1>2, <1>3 DEF Quiet
  <2>4. \A g \in Range(tags) : g \in snaps' \cup Excused \/ Gone(g)
    BY <1>8 DEF IInv, SnapshotInv, ListedInv
  <2>5. \A u \in Tasks : pc'[u] = "loadvm" => arg[u] \in snaps' \cup Excused
    <3>1. CASE snaps' = snaps
      BY <1>8, <2>3, <3>1 DEF IInv, SnapshotInv, ListedInv
    <3>2. CASE Undeleting(t) /\ snaps' = {}
      BY <1>8, <2>3, <3>2 DEF IInv, SnapshotInv, ListedInv, SnapsInv
    <3> QED BY <1>8, <3>1, <3>2
  <2> QED BY <1>5, <1>8, <2>2, <2>3, <2>4, <2>5 DEF IInv, SnapshotInv, ListedInv, Excused
<1>9. ListedInv'
  BY <1>8 DEF ListedInv
<1> QED BY <1>4, <1>6, <1>7, <1>9 DEF SnapshotInv

\* ... so it is when a call returns or goes on to its cleanup.
LEMMA LeaveSnapshots ==
  ASSUME IInv, NEW t \in Tasks, Leave(t),
         UNCHANGED <<tags, proc, sessions, unread, overtook, crossed>>,
         snaps' = snaps \/ (snaps' = {} /\ Undeleting(t)), pc[t] = "delete" => ~IsRunning
  PROVE  SnapshotInv'
<1>1. \A u \in Tasks \ {t} : deleting'[u] = deleting[u] /\ arg'[u] = arg[u]
  BY DEF IInv, TypeOK, Leave
<1>2. CASE BeginCleanup(t)
  <2>1. Goto(t, "closeAgent") /\ ~IsRunning' /\ qmp' = qmp
    BY <1>2 DEF BeginCleanup, IsRunning
  <2> QED BY <1>1, <2>1, QuietSnapshots DEF Quiet
<1>3. CASE Goto(t, "idle") /\ UNCHANGED objectVars
  <2>1. (IsRunning' => IsRunning) /\ qmp' = qmp
    BY <1>3 DEF objectVars, IsRunning
  <2> QED BY <1>1, <1>3, <2>1, QuietSnapshots DEF Quiet
<1> QED BY <1>2, <1>3 DEF Leave

\* The same of the cleanup of a call that was not saving.
LEMMA CleanupSnapshots ==
  ASSUME IInv, NEW t \in Tasks, BeginCleanup(t), pc[t] \in Quiet,
         UNCHANGED <<tags, callVars, qemuVars, sessions, tagHistory>>
  PROVE  SnapshotInv'
<1>1. Goto(t, "closeAgent") /\ ~IsRunning' /\ qmp' = qmp
  BY DEF BeginCleanup, IsRunning
<1> QED BY <1>1, QuietSnapshots DEF Quiet, callVars, qemuVars, tagHistory

\* Where a save() is, while another call waits for QMP.
LEMMA OthersSaving ==
  ASSUME IInv, NEW t \in Tasks, pc[t] \in OverQmp
  PROVE  /\ \A u \in Tasks \ {t} : pc[u] \notin OverQmp
         /\ \A u \in Tasks \ {t} : Undeleting(u) => pc[u] = "quiesce" /\ deleting[u] = 0
         /\ \A u \in Tasks \ {t} : pc[u] \notin {"delete", "loadvm", "flush", "pivot"}
BY DEF IInv, SnapshotInv, QmpInv, OverQmp, Undeleting

\* A save() that deletes nothing begins without tags, thus without snapshots
\* that could be deleted.
LEMMA SaveSnapshots ==
  ASSUME IInv, NEW t \in Tasks, pc[t] = "idle",
         NEW delete \in BOOLEAN, tags = <<>> \/ delete, BeginSave(t, delete)
  PROVE  SnapshotInv'
<1>1. /\ pc \in [Tasks -> Steps] /\ pc' = [pc EXCEPT ![t] = "quiesce"]
      /\ deleting \in [Tasks -> Nat]
      /\ deleting' = [deleting EXCEPT ![t] = IF delete THEN 1 ELSE 0]
      /\ UNCHANGED <<tags, snaps, sessions, qmp, running, proc, arg, unread, overtook,
                     crossed>>
  BY DEF BeginSave, Goto, IInv, TypeOK, objectVars, qemuVars, countVars, tagHistory
<1>2. /\ \A u \in Tasks \ {t} : pc'[u] = pc[u] /\ deleting'[u] = deleting[u]
      /\ pc'[t] = "quiesce" /\ deleting'[t] = IF delete THEN 1 ELSE 0
  BY <1>1
<1>3. /\ \A u \in Tasks : pc'[u] = "delete" <=> pc[u] = "delete"
      /\ \A u \in Tasks : pc'[u] = "loadvm" <=> pc[u] = "loadvm"
      /\ \A u \in Tasks : pc'[u] \in OverQmp <=> pc[u] \in OverQmp
      /\ \A u \in Tasks \ {t} : pc[u] = "delete" => deleting'[u] = deleting[u]
  BY <1>2 DEF OverQmp
<1>4. \A u \in Tasks : Undeleting(u)' => Undeleting(u) \/ tags = <<>>
  BY <1>2 DEF Undeleting
<1>5. QmpInv' /\ SessionInv'
  BY <1>1, <1>2, <1>3 DEF IInv, SnapshotInv, QmpInv, SessionInv
<1>6. SnapsInv'
  BY <1>1, <1>2, <1>3, <1>4, EmptyTags DEF IInv, SnapshotInv, SnapsInv, Excused
<1>7. \A g : Gone(g) => Gone(g)'
  BY <1>1, <1>2, <1>3 DEF Gone
<1>8. ListedInv'
  BY <1>1, <1>3, <1>4, <1>7, EmptyTags
     DEF IInv, SnapshotInv, ListedInv, Excused, IsRunning
<1> QED BY <1>5, <1>6, <1>8 DEF SnapshotInv

\* Every step keeps the list of tags and the snapshots in agreement.
LEMMA SnapshotStep == ASSUME IInv, [Next]_vars PROVE SnapshotInv'
<1> USE DEF objectVars, callVars, qemuVars, countVars, dirVars, tagHistory, Fault, Idle
<1>1. ASSUME NEW t \in Tasks, AgentConnects(t) PROVE SnapshotInv'
  BY <1>1, QuietSnapshots DEF AgentConnects, Quiet, IsRunning
<1>2. ASSUME NEW t \in Tasks, AgentFails(t) PROVE SnapshotInv'
  BY <1>2, CleanupSnapshots DEF AgentFails, Quiet
<1>3. ASSUME NEW t \in Tasks, QmpConnects(t) PROVE SnapshotInv'
  <2>1. /\ pc[t] = "qmp" /\ \A u \in Tasks \ {t} : pc[u] = "idle"
        /\ pc \in [Tasks -> Steps] /\ pc' = [pc EXCEPT ![t] = "mount"]
        /\ sessions \in Nat /\ sessions' = sessions + 1
        /\ UNCHANGED <<tags, snaps, deleting, arg, unread, overtook, crossed>>
    BY <1>3 DEF QmpConnects, Goto, IInv, TypeOK, ResourceInv, StartInv, Starting
  <2>2. \A u \in Tasks : pc'[u] \in {"idle", "mount"}
    BY <2>1
  <2>3. QmpInv' /\ SnapsInv' /\ SessionInv'
    BY <2>1, <2>2
       DEF IInv, SnapshotInv, QmpInv, OverQmp, SnapsInv, Undeleting, SessionInv
  <2>4. sessions' = 1 => tags = <<>>
    BY <2>1 DEF IInv, SnapshotInv, SessionInv
  <2>5. ListedInv'
    BY <2>1, <2>2, <2>4, EmptyTags DEF ListedInv, Undeleting
  <2> QED BY <2>3, <2>5 DEF SnapshotInv
<1>4. ASSUME NEW t \in Tasks, QmpRefuses(t) PROVE SnapshotInv'
  BY <1>4, QuietSnapshots DEF QmpRefuses, Quiet, IsRunning
<1>5. ASSUME NEW t \in Tasks, Mounted(t) PROVE SnapshotInv'
  BY <1>5, QuietSnapshots DEF Mounted, Quiet, IsRunning
<1>6. ASSUME NEW t \in Tasks, MountFails(t) PROVE SnapshotInv'
  BY <1>6, CleanupSnapshots DEF MountFails, Quiet
<1>7. ASSUME NEW t \in Tasks, AgentClosed(t) PROVE SnapshotInv'
  BY <1>7, QuietSnapshots DEF AgentClosed, Quiet, IsRunning
<1>8. ASSUME NEW t \in Tasks, EndCleanup(t) PROVE SnapshotInv'
  <2>1. /\ ~running' /\ ~qmp' /\ snaps' = {}
        /\ pc \in [Tasks -> Steps] /\ pc' = [pc EXCEPT ![t] = "idle"]
        /\ UNCHANGED <<tags, deleting, sessions>>
    BY <1>8 DEF EndCleanup, Goto, IInv, TypeOK, ResourceInv, CleanInv, Cleaning
  <2>2. \A u \in Tasks : pc'[u] # "idle" => pc'[u] = pc[u]
    BY <2>1
  <2>3. QmpInv'
    BY <2>1, <2>2 DEF IInv, SnapshotInv, QmpInv, OverQmp
  <2>4. SnapsInv' /\ SessionInv' /\ ListedInv'
    BY <2>1 DEF IInv, SnapshotInv, SnapsInv, SessionInv, ListedInv, IsRunning
  <2> QED BY <2>3, <2>4 DEF SnapshotInv
<1>9. ASSUME NEW t \in Tasks, Quiesced(t) PROVE SnapshotInv'
  <2>1. /\ pc[t] = "quiesce" /\ \A u \in Tasks \ {t} : pc[u] \notin OverQmp
        /\ pc \in [Tasks -> Steps] /\ deleting[t] \in {0, 1}
        /\ pc' = [pc EXCEPT ![t] = IF deleting[t] = 0 THEN "flush" ELSE "delete"]
        /\ UNCHANGED <<tags, snaps, deleting, sessions, qmp, running, proc, arg,
                       unread, overtook, crossed>>
    BY <1>9 DEF Quiesced, QmpFree, Goto, IInv, TypeOK, SnapshotInv, QmpInv
  <2>2. \A u \in Tasks \ {t} : pc'[u] = pc[u]
    BY <2>1
  <2>3. \A u \in Tasks : (Undeleting(u)' => Undeleting(u))
        /\ (pc[u] = "delete" => FALSE) /\ pc'[u] # "loadvm"
    BY <2>1, <2>2 DEF Undeleting, OverQmp
  <2>4. \A u \in Tasks : pc'[u] = "delete" => u = t /\ deleting[t] = 1
    BY <2>1, <2>2 DEF OverQmp
  <2>5. QmpInv' /\ SessionInv'
    BY <2>1, <2>2 DEF IInv, SnapshotInv, QmpInv, OverQmp, SessionInv
  <2>6. ASSUME ~crossed PROVE SnapsInv'
    <3>1. snaps \subseteq Range(tags) \cup unread
      BY <2>6 DEF IInv, SnapshotInv, SnapsInv
    <3>2. \A g \in Range(tags) : \E i \in DOMAIN tags : i >= 1 /\ tags[i] = g
      BY DEF IInv, TypeOK, Range
    <3> QED BY <2>1, <2>3, <2>4, <2>6, <3>1, <3>2
            DEF IInv, SnapshotInv, SnapsInv, Excused
  <2>7. ListedInv'
    BY <2>1, <2>3 DEF IInv, SnapshotInv, ListedInv, Excused, Gone, IsRunning
  <2> QED BY <2>1, <2>5, <2>6, <2>7 DEF SnapshotInv, SnapsInv
<1>10. ASSUME NEW t \in Tasks, Deleted(t) PROVE SnapshotInv'
  <2> DEFINE d == tags[deleting[t]]
  <2>1. /\ pc[t] = "delete" /\ deleting[t] >= 1
        /\ deleting[t] \in Nat /\ deleting[t] <= Len(tags)
        /\ deleting' = [deleting EXCEPT ![t] = deleting[t] + 1]
        /\ UNCHANGED <<pc, tags, sessions, qmp, running, proc, arg, crossed>>
    BY <1>10 DEF Deleted, Replied, IInv, TypeOK, SnapshotInv, QmpInv
  <2>2. \/ /\ snaps' = snaps \ {d}
           /\ unread' = unread \ {d} /\ overtook' = overtook \ {d}
        \/ unread' = unread \cup {d} /\ UNCHANGED <<snaps, overtook>>
    BY <1>10 DEF Deleted
  <2>3. deleting'[t] = deleting[t] + 1
        /\ \A u \in Tasks \ {t} : deleting'[u] = deleting[u]
    BY <2>1 DEF IInv, TypeOK
  <2>4. /\ \A u \in Tasks \ {t} : pc[u] \notin {"delete", "loadvm", "flush", "pivot"}
        /\ \A u \in Tasks : pc[u] # "loadvm"
        /\ \A u \in Tasks : Undeleting(u)' <=> Undeleting(u)
    BY <2>1, <2>3, OthersSaving DEF Undeleting, OverQmp
  <2>5. tags \in Seq(Tags) /\ DOMAIN tags = 1..Len(tags) /\ deleting[t] \in DOMAIN tags
    BY <2>1 DEF IInv, TypeOK
  <2>6. QmpInv' /\ SessionInv'
    BY <2>1, <2>3, <2>4 DEF IInv, SnapshotInv, QmpInv, SessionInv
  <2>7. ASSUME ~crossed PROVE SnapsInv'
    <3>1. /\ snaps \subseteq Range(tags) \cup unread
          /\ \A u \in Tasks : Undeleting(u) => snaps \subseteq unread \cup overtook
          /\ \A g \in snaps \ unread :
                \E i \in DOMAIN tags : i >= deleting[t] /\ tags[i] = g
      BY <2>1, <2>7 DEF IInv, SnapshotInv, SnapsInv, Excused
    <3>2. ASSUME NEW g \in snaps' \ unread'
          PROVE  \E i \in DOMAIN tags : i >= deleting[t] + 1 /\ tags[i] = g
      <4>1. g \in snaps \ unread /\ g # d
        BY <2>2, <3>2
      <4>2. PICK i \in DOMAIN tags : i >= deleting[t] /\ tags[i] = g
        BY <3>1, <4>1
      <4>3. i # deleting[t]
        BY <4>1, <4>2
      <4> QED BY <2>1, <2>5, <4>2, <4>3
    <3>3. snaps' \subseteq Range(tags) \cup unread'
      BY <2>2, <3>1
    <3>4. ASSUME NEW u \in Tasks, Undeleting(u) PROVE snaps' \subseteq unread' \cup overtook'
      BY <2>2, <3>1, <3>4
    <3>5. \A u \in Tasks : pc[u] = "delete" => u = t
      BY <2>4
    <3> QED BY <2>1, <2>3, <2>4, <3>2, <3>3, <3>4, <3>5 DEF SnapsInv, Excused
  <2>8. ASSUME ~crossed, sessions = 1, IsRunning' PROVE ListedInv'
    <3>1. IsRunning
      BY <2>1, <2>8 DEF IsRunning
    <3>2. \A g : Gone(g) => Gone(g)'
      <4>1. \A u \in Tasks : deleting[u] \in Nat /\ deleting'[u] >= deleting[u]
        BY <2>1, <2>3 DEF IInv, TypeOK
      <4>2. \A u \in Tasks, i \in DOMAIN tags :
                i < deleting[u] => i < deleting'[u]
        BY <2>1, <2>3, <2>5, <4>1
      <4> QED BY <2>1, <4>2 DEF Gone
    <3>3. ASSUME NEW g, g = d PROVE Gone(g)'
      <4>1. deleting[t] < deleting'[t]
        BY <2>1, <2>3
      <4> QED BY <2>1, <2>5, <3>3, <4>1 DEF Gone
    <3>4. \A g \in Range(tags) : g \in snaps \cup unread \cup overtook \/ Gone(g)
      BY <2>8, <3>1 DEF IInv, SnapshotInv, ListedInv, Excused
    <3>5. \A g \in Range(tags) : g \in snaps' \cup unread' \cup overtook' \/ Gone(g)'
      BY <2>2, <3>2, <3>3, <3>4
    <3>6. ASSUME NEW u \in Tasks, Undeleting(u), NEW g \in Range(tags)
          PROVE  g \in unread' \cup overtook' \/ Gone(g)'
      <4>1. g \in unread \cup overtook \/ Gone(g)
        BY <2>8, <3>1, <3>6 DEF IInv, SnapshotInv, ListedInv, Excused
      <4> QED BY <2>2, <3>2, <3>3, <4>1
    <3> QED BY <2>1, <2>4, <3>5, <3>6 DEF ListedInv, Excused
  <2>9. SnapsInv' /\ ListedInv'
    BY <2>1, <2>7, <2>8 DEF SnapsInv, ListedInv
  <2> QED BY <2>6, <2>9 DEF SnapshotInv
<1>11. ASSUME NEW t \in Tasks, DeletedAll(t) PROVE SnapshotInv'
  <2>1. /\ pc[t] = "delete" /\ deleting[t] > Len(tags) /\ tags' = <<>>
        /\ deleting[t] \in Nat /\ Len(tags) \in Nat /\ DOMAIN tags = 1..Len(tags)
        /\ deleting' = [deleting EXCEPT ![t] = 0]
        /\ pc \in [Tasks -> Steps] /\ pc' = [pc EXCEPT ![t] = "flush"]
        /\ UNCHANGED <<snaps, sessions, qmp, running, proc, arg, unread, overtook,
                       crossed>>
    BY <1>11 DEF DeletedAll, Goto, IInv, TypeOK
  <2>2. \A u \in Tasks \ {t} : deleting'[u] = deleting[u] /\ pc'[u] = pc[u]
    BY <2>1 DEF IInv, TypeOK
  <2>3. \A u \in Tasks \ {t} : pc[u] \notin {"delete", "loadvm", "flush", "pivot"}
                               /\ pc[u] \notin OverQmp
    BY <2>1, OthersSaving DEF OverQmp
  <2>4. QmpInv' /\ SessionInv'
    BY <2>1, <2>2, <2>3 DEF IInv, SnapshotInv, QmpInv, OverQmp, SessionInv
  <2>5. ASSUME ~crossed PROVE snaps \subseteq unread
    <3>1. \A g \in snaps \ unread : \E i \in DOMAIN tags : i >= deleting[t] /\ tags[i] = g
      BY <2>1, <2>5 DEF IInv, SnapshotInv, SnapsInv
    <3> QED BY <2>1, <3>1
  <2>6. \A u \in Tasks : pc'[u] \notin {"delete", "loadvm"}
    BY <2>1, <2>2, <2>3
  <2>7. SnapsInv'
    BY <2>1, <2>5, <2>6 DEF SnapsInv, Excused
  <2>8. ListedInv'
    BY <2>1, <2>6, EmptyTags DEF ListedInv
  <2> QED BY <2>4, <2>7, <2>8 DEF SnapshotInv
<1>12. ASSUME NEW t \in Tasks, Flushed(t) PROVE SnapshotInv'
  <2>1. /\ pc[t] = "flush" /\ pc \in [Tasks -> Steps] /\ pc' = [pc EXCEPT ![t] = "pivot"]
        /\ UNCHANGED <<tags, snaps, deleting, sessions, qmp, running, proc, arg,
                       unread, overtook, crossed>>
    BY <1>12 DEF Flushed, Replied, Goto, IInv, TypeOK
  <2>2. \A u \in Tasks \ {t} : pc'[u] = pc[u]
    BY <2>1
  <2>3. /\ QmpInv' /\ SessionInv'
        /\ \A u \in Tasks : Undeleting(u)' => Undeleting(u)
        /\ \A u \in Tasks : pc'[u] = "delete" <=> pc[u] = "delete"
        /\ \A u \in Tasks : pc'[u] = "loadvm" <=> pc[u] = "loadvm"
    BY <2>1, <2>2 DEF IInv, SnapshotInv, QmpInv, OverQmp, SessionInv, Undeleting
  <2>4. SnapsInv'
    BY <2>1, <2>3 DEF IInv, SnapshotInv, SnapsInv, Excused
  <2>5. ListedInv'
    BY <2>1, <2>3 DEF IInv, SnapshotInv, ListedInv, Excused, Gone, IsRunning
  <2> QED BY <2>3, <2>4, <2>5 DEF SnapshotInv
<1>13. ASSUME NEW t \in Tasks, Pivoted(t) PROVE SnapshotInv'
  BY <1>13, LeaveSnapshots DEF Pivoted, Replied, Undeleting
<1>14. ASSUME NEW t \in Tasks, SaveFails(t) PROVE SnapshotInv'
  BY <1>14, LeaveSnapshots DEF SaveFails
<1>15. ASSUME NEW t \in Tasks, Checkpointed(t) PROVE SnapshotInv'
  <2> DEFINE a == arg[t]
             window == \E u \in Tasks : pc[u] = "quiesce" /\ deleting[u] = 0
  <2>1. /\ pc[t] = "savevm" /\ qmp /\ pc \in [Tasks -> Steps]
        /\ a \in Tags /\ tags \in Seq(Tags) /\ IsInjective(tags)
        /\ UNCHANGED <<sessions, proc, crossed>>
        /\ \/ Goto(t, "idle") /\ UNCHANGED <<running, qmp>>
           \/ ~running' /\ UNCHANGED qmp /\ Goto(t, "closeAgent")
    BY <1>15 DEF Checkpointed, Replied, Leave, BeginCleanup, IInv, TypeOK
  <2>2. PICK step \in {"idle", "closeAgent"} : pc' = [pc EXCEPT ![t] = step]
    BY <2>1 DEF Goto
  <2>3. /\ \A u \in Tasks \ {t} : pc'[u] = pc[u] /\ deleting'[u] = deleting[u]
        /\ pc'[t] = step /\ qmp' = qmp /\ (IsRunning' => IsRunning)
    <3>1. deleting \in [Tasks -> Nat] /\ deleting' = [deleting EXCEPT ![t] = 0]
      BY <1>15 DEF Checkpointed, Leave, IInv, TypeOK
    <3>2. UNCHANGED qmp
      BY <2>1
    <3>3. IsRunning' => IsRunning
      <4>1. CASE UNCHANGED running
        BY <2>1, <4>1 DEF IsRunning
      <4>2. CASE ~running'
        BY <4>2 DEF IsRunning
      <4> QED BY <2>1, <4>1, <4>2
    <3> QED BY <2>1, <2>2, <3>1, <3>2, <3>3
  <2>4. \/ snaps' = snaps \cup {a} /\ unread' = unread \ {a}
        \/ snaps' \in {snaps, snaps \ {a}} /\ unread' = unread \cup {a}
    BY <1>15 DEF Checkpointed
  <2>5. overtook' = IF window THEN overtook \cup {a} ELSE overtook \ {a}
    BY <1>15 DEF Checkpointed
  <2>6. Range(tags') = Range(tags) \cup {a} /\ tags' # <<>>
    <3>1. CASE a \in Range(tags)
      BY <1>15, <3>1, EmptyTags DEF Checkpointed
    <3>2. CASE a \notin Range(tags)
      BY <1>15, <2>1, <3>2, AppendTags DEF Checkpointed
    <3> QED BY <3>1, <3>2
  <2>7. \A u \in Tasks : /\ pc'[u] \notin OverQmp
                         /\ Undeleting(u)' => Undeleting(u) /\ window
    <3>1. ASSUME NEW u \in Tasks \ {t} PROVE pc[u] \notin OverQmp
      BY <2>1, OthersSaving DEF OverQmp
    <3> QED BY <2>3, <3>1 DEF Undeleting, OverQmp
  <2>8. QmpInv' /\ SessionInv'
    BY <2>1, <2>3, <2>7 DEF IInv, SnapshotInv, QmpInv, OverQmp, SessionInv
  <2>9. ASSUME ~crossed PROVE SnapsInv'
    <3>1. /\ snaps \subseteq Range(tags) \cup unread
          /\ \A u \in Tasks : Undeleting(u) => snaps \subseteq unread \cup overtook
      BY <2>9 DEF IInv, SnapshotInv, SnapsInv, Excused
    <3>2. snaps' \subseteq Range(tags') \cup unread'
      BY <2>4, <2>6, <3>1
    <3>3. ASSUME NEW u \in Tasks, Undeleting(u)' PROVE snaps' \subseteq unread' \cup overtook'
      <4>1. snaps \subseteq unread \cup overtook /\ overtook' = overtook \cup {a}
        BY <2>5, <2>7, <3>1, <3>3
      <4> QED BY <2>4, <4>1
    <3>4. \A u \in Tasks : pc'[u] # "delete"
      BY <2>7 DEF OverQmp
    <3> QED BY <2>1, <3>2, <3>3, <3>4 DEF SnapsInv, Excused
  <2>10. ASSUME ~crossed, sessions = 1, IsRunning' PROVE ListedInv'
    <3>1. IsRunning /\ \A g : ~Gone(g)
      BY <2>1, <2>3, <2>10, OthersSaving DEF Gone, OverQmp
    <3>2. \A g \in Range(tags) : g \in snaps \cup unread \cup overtook
      BY <2>10, <3>1 DEF IInv, SnapshotInv, ListedInv, Excused
    <3>3. \A g \in Range(tags') : g \in snaps' \cup unread' \cup overtook'
      BY <2>4, <2>5, <2>6, <3>2
    <3>4. ASSUME NEW u \in Tasks, Undeleting(u)', NEW g \in Range(tags')
          PROVE  g \in unread' \cup overtook'
      <4>1. \A h \in Range(tags) : h \in unread \cup overtook
        BY <2>7, <2>10, <3>1, <3>4 DEF IInv, SnapshotInv, ListedInv, Excused
      <4>2. overtook' = overtook \cup {a}
        BY <2>5, <2>7, <3>4
      <4> QED BY <2>4, <2>6, <4>1, <4>2, <3>4
    <3> QED BY <2>7, <3>3, <3>4 DEF ListedInv, Excused, OverQmp
  <2>11. SnapsInv' /\ ListedInv'
    BY <2>1, <2>9, <2>10 DEF SnapsInv, ListedInv
  <2> QED BY <2>8, <2>11 DEF SnapshotInv
<1>16. ASSUME NEW t \in Tasks, Reverted(t) PROVE SnapshotInv'
  BY <1>16, LeaveSnapshots DEF Reverted, Replied
<1>17. ASSUME NEW t \in Tasks, ReplyLost(t) PROVE SnapshotInv'
  <2>1. ~IsRunning
    BY <1>17 DEF ReplyLost, IInv, ResourceInv, RunInv, IsRunning
  <2> QED BY <1>17, <2>1, LeaveSnapshots DEF ReplyLost
<1>18. ASSUME NEW t \in Tasks, Start(t) PROVE SnapshotInv'
  <2>1. \A u \in Tasks : pc[u] = "idle"
    BY <1>18 DEF Start, NewTemp
  <2>2. ~running
    BY <1>18 DEF Start, IInv, ResourceInv, RunInv
  <2> QED BY <1>18, <2>1, <2>2, QuietSnapshots DEF Start, Quiet, IsRunning
<1>19. ASSUME NEW t \in Tasks, Save(t) PROVE SnapshotInv'
  BY <1>19, SaveSnapshots DEF Save, Accepted
<1>20. ASSUME NEW t \in Tasks, StopSaves(t) PROVE SnapshotInv'
  BY <1>20, SaveSnapshots DEF StopSaves, Accepted
<1>21. ASSUME NEW t \in Tasks, Stop(t) PROVE SnapshotInv'
  BY <1>21, CleanupSnapshots DEF Stop, Quiet
<1>22. ASSUME NEW t \in Tasks, Checkpoint(t) PROVE SnapshotInv'
  <2>1. /\ pc[t] = "idle" /\ \A u \in Tasks \ {t} : pc[u] \notin OverQmp
        /\ pc \in [Tasks -> Steps] /\ pc' = [pc EXCEPT ![t] = "savevm"]
        /\ UNCHANGED <<tags, snaps, deleting, sessions, qmp, running, proc,
                       unread, overtook, crossed>>
    BY <1>22 DEF Checkpoint, Accepted, QmpFree, Goto, IInv, TypeOK
  <2>2. \A u \in Tasks : /\ pc'[u] \in OverQmp => u = t
                         /\ pc'[u] \notin {"delete", "loadvm"}
                         /\ pc[u] # "delete"
                         /\ Undeleting(u)' => Undeleting(u)
                         /\ pc'[u] = "quiesce" => pc[u] = "quiesce"
    BY <2>1 DEF OverQmp, Undeleting
  <2>3. QmpInv' /\ SessionInv' /\ SnapsInv'
    BY <2>1, <2>2 DEF IInv, SnapshotInv, QmpInv, SessionInv, SnapsInv, Excused
  <2>4. ListedInv'
    BY <2>1, <2>2 DEF IInv, SnapshotInv, ListedInv, Excused, Gone, IsRunning
  <2> QED BY <2>3, <2>4 DEF SnapshotInv
<1>23. ASSUME NEW t \in Tasks, Revert(t) PROVE SnapshotInv'
  <2>1. PICK i \in DOMAIN tags : arg' = [arg EXCEPT ![t] = tags[i]]
    BY <1>23 DEF Revert
  <2>2. /\ pc[t] = "idle" /\ \A u \in Tasks \ {t} : pc[u] \notin OverQmp
        /\ pc \in [Tasks -> Steps] /\ pc' = [pc EXCEPT ![t] = "loadvm"]
        /\ arg'[t] \in Range(tags)
        /\ UNCHANGED <<tags, snaps, deleting, sessions, qmp, running, proc,
                       unread, overtook, crossed>>
    BY <1>23, <2>1 DEF Revert, Accepted, QmpFree, Goto, IInv, TypeOK, Range
  <2>3. \A u \in Tasks : /\ pc'[u] \in OverQmp => u = t
                         /\ pc'[u] # "delete" /\ pc[u] # "delete"
                         /\ Undeleting(u)' => Undeleting(u)
                         /\ pc'[u] = "quiesce" => pc[u] = "quiesce"
    BY <2>2 DEF OverQmp, Undeleting
  <2>4. QmpInv' /\ SessionInv' /\ SnapsInv'
    BY <2>2, <2>3 DEF IInv, SnapshotInv, QmpInv, SessionInv, SnapsInv, Excused
  <2>5. ASSUME ~crossed, sessions = 1, IsRunning' PROVE ListedInv'
    <3>1. IsRunning /\ \A g : ~Gone(g)
      BY <2>2, <2>3, <2>5 DEF IsRunning, Gone
    <3>2. \A g \in Range(tags) : g \in snaps \cup Excused
      BY <2>5, <3>1 DEF IInv, SnapshotInv, ListedInv
    <3>3. \A u \in Tasks : pc'[u] = "loadvm" => arg'[u] \in snaps \cup Excused
      BY <2>2, <2>3, <3>2 DEF OverQmp
    <3> QED BY <2>2, <2>3, <2>5, <3>1, <3>2, <3>3
            DEF IInv, SnapshotInv, ListedInv, Excused
  <2>6. ListedInv'
    BY <2>2, <2>5 DEF ListedInv
  <2> QED BY <2>4, <2>6 DEF SnapshotInv
<1>24. ASSUME StartRaises PROVE SnapshotInv'
  <2>1. UNCHANGED <<tags, snaps, deleting, arg, sessions, qmp, running, proc, pc,
                    unread, overtook, crossed>>
    BY <1>24 DEF StartRaises, NewTemp
  <2> QED BY <2>1 DEF IInv, SnapshotInv, QmpInv, SnapsInv, SessionInv, ListedInv,
          Gone, Undeleting, Excused, IsRunning
<1>25. ASSUME QemuDies PROVE SnapshotInv'
  <2>1. UNCHANGED <<tags, snaps, deleting, arg, sessions, qmp, running, pc,
                    unread, overtook, crossed>> /\ ~IsRunning'
    BY <1>25 DEF QemuDies, IsRunning
  <2> QED BY <2>1 DEF IInv, SnapshotInv, QmpInv, SnapsInv, SessionInv, ListedInv,
          Undeleting, Excused
<1>26. CASE UNCHANGED vars
  <2>1. UNCHANGED <<tags, snaps, deleting, arg, sessions, qmp, running, proc, pc,
                    unread, overtook, crossed>>
    BY <1>26 DEF vars
  <2> QED BY <2>1 DEF IInv, SnapshotInv, QmpInv, SnapsInv, SessionInv, ListedInv,
          Gone, Undeleting, Excused, IsRunning
<1>27. ASSUME NEW t \in Tasks, Cancel(t), CancelStart(t) PROVE SnapshotInv'
  BY <1>27, QuietSnapshots DEF Cancel, CancelStart, Quiet, IsRunning
<1>28. ASSUME NEW t \in Tasks, Cancel(t), CancelCleanup(t) PROVE SnapshotInv'
  BY <1>28, QuietSnapshots DEF Cancel, CancelCleanup, Quiet, IsRunning
<1>29. ASSUME NEW t \in Tasks, Cancel(t), CancelCall(t) PROVE SnapshotInv'
  <2>1. /\ Goto(t, "idle")
        /\ UNCHANGED <<tags, sessions, unread, overtook, proc, running, qmp>>
        /\ snaps' = snaps \/ proc = "up"
        /\ pc[t] = "quiesce" \/ pc[t] \in OverQmp
        /\ crossed' = (crossed \/ (pc[t] \in OverQmp /\ proc = "up"))
    BY <1>29 DEF Cancel, CancelCall
  <2>2. \A u \in Tasks \ {t} : deleting'[u] = deleting[u] /\ arg'[u] = arg[u]
    BY <1>29 DEF CancelCall, IInv, TypeOK
  <2>3. ~crossed' => ~crossed /\ snaps' = snaps
    <3>1. CASE pc[t] = "quiesce"
      BY <1>29, <2>1, <3>1 DEF CancelCall, Outcomes
    <3>2. CASE pc[t] \in OverQmp
      BY <2>1, <3>2
    <3> QED BY <2>1, <3>1, <3>2
  <2>4. IsRunning' /\ ~crossed' => IsRunning /\ pc[t] # "delete"
    BY <2>1 DEF IsRunning, OverQmp
  <2> QED BY <2>1, <2>2, <2>3, <2>4, QuietSnapshots DEF Quiet
<1> QED
    BY <1>1, <1>2, <1>3, <1>4, <1>5, <1>6, <1>7, <1>8, <1>9, <1>10, <1>11,
       <1>12, <1>13, <1>14, <1>15, <1>16, <1>17, <1>18, <1>19, <1>20, <1>21,
       <1>22, <1>23, <1>24, <1>25, <1>26, <1>27, <1>28, <1>29
       DEF Next, Calls, Continues, Cancel

-----------------------------------------------------------------------------
(* Theorems *)

\* The invariant holds in every reachable state.
THEOREM Invariance == Spec => []IInv
<1>1. Init => IInv
  <2> SUFFICES ASSUME Init PROVE IInv
    OBVIOUS
  <2>1. TypeOK
    <3>1. tags \in Seq(Tags) /\ IsInjective(tags)
      BY EmptyTags DEF Init
    <3>2. /\ pc \in [Tasks -> Steps] /\ arg \in [Tasks -> Tags]
          /\ autosave \in [Tasks -> BOOLEAN] /\ deleting \in [Tasks -> Nat]
      BY LifecycleAssumption DEF Init, Steps
    <3>3. /\ {temp, starts, sessions, faults} \subseteq Nat
          /\ snaps = {} /\ unread = {} /\ overtook = {}
          /\ temps = {} /\ abandoned = {} /\ unremoved = {}
      BY DEF Init
    <3>4. {named, running, smb, agent, qmp, stranded, crossed} \subseteq BOOLEAN
          /\ proc \in {"none", "up", "dead"}
      BY DEF Init
    <3> QED BY <3>1, <3>2, <3>3, <3>4 DEF TypeOK
  <2>2. ResourceInv
    BY DEF Init, ResourceInv, StartInv, RunInv, CleanInv, DirInv, LeakInv,
       Clean, Starting, Cleaning
  <2>3. SnapshotInv
    BY DEF Init, SnapshotInv, QmpInv, SnapsInv, SessionInv, ListedInv,
       Undeleting, IsRunning, OverQmp
  <2> QED BY <2>1, <2>2, <2>3 DEF IInv
<1>2. IInv /\ [Next]_vars => IInv'
  BY TypeStep, ResourceStep, SnapshotStep DEF IInv, ResourceInv, SnapshotInv
<1> QED BY <1>1, <1>2, PTL DEF Spec

\* Every variable keeps its type, and a tag is listed once.
THEOREM TypeCorrect == Spec => []TypeOK
<1>1. IInv => TypeOK
  BY DEF IInv
<1> QED BY <1>1, Invariance, PTL

\* When everything is idle and the sandbox is down, nothing is left of it, but
\* what NothingLeaks names: directories rmtree failed to remove or start() had
\* forgotten, and all that a start() or a cleanup left that was cut short.
THEOREM LeakTheorem == Spec => []NothingLeaks
<1>1. IInv => NothingLeaks
  BY DEF IInv, ResourceInv, DirInv, LeakInv, Clean, Starting, Cleaning,
     NothingLeaks, Idle
<1> QED BY <1>1, Invariance, PTL

\* A running sandbox has its agent, its QMP connection, its server and its
\* directory.
THEOREM ReadyTheorem == Spec => []ReadyWhileRunning
<1>1. IInv => ReadyWhileRunning
  BY DEF IInv, ResourceInv, RunInv, ReadyWhileRunning, IsRunning
<1> QED BY <1>1, Invariance, PTL

\* An overlay that saves copy holds no checkpoint but those whose deletion
\* failed unheard and those that overtook the save(), however calls overlap.
THEOREM FrozenTheorem == Spec => []NoCheckpointFrozen
<1>1. IInv => NoCheckpointFrozen
  BY DEF IInv, SnapshotInv, SnapsInv, Undeleting, Excused, NoCheckpointFrozen, Replied
<1> QED BY <1>1, Invariance, PTL

\* In the first session of the object a loadvm names a snapshot the overlay has,
\* or one that savevm failed to make, unheard, or that overtook a save().
THEOREM RevertTheorem == Spec => []FirstSessionReverts
<1>1. IInv => FirstSessionReverts
  BY DEF IInv, SnapshotInv, ListedInv, FirstSessionReverts, Excused, Replied
<1> QED BY <1>1, Invariance, PTL
=============================================================================
