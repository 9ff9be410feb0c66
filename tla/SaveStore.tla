------------------------------ MODULE SaveStore ------------------------------
(***************************************************************************)
(* Saves: how the disk of a running sandbox becomes a directory            *)
(* (_SaveMixin._save, SaveWriter.write) and how the directory becomes the  *)
(* disk of another sandbox (ImageResolver.resolve,                         *)
(* OverlayManager.create_overlay).                                         *)
(*                                                                         *)
(* A disk is a chain of layers, bottom to top: a base image, the overlays  *)
(* of an installed package or of a save, and the overlays of the session   *)
(* itself, the last of which takes the guest's writes.  A layer is known   *)
(* by a number and stands for its content; a copy of it is the same layer. *)
(* Two disks are equal when they stack the same layers in the same order.  *)
(*                                                                         *)
(* All the sandboxes live in one Python process.  write() has no await, so *)
(* a save in progress is interrupted by an I/O error or by the death of    *)
(* the process only, and an action is one file operation of it.            *)
(*                                                                         *)
(* A definition named Action_Slip is Action with a slip a programmer could *)
(* make; the specification does not use it.                                *)
(***************************************************************************)
EXTENDS Naturals, FiniteSets, Sequences, Functions, SequencesExt

\* The layers of images come before those made while sandboxes run.
FirstLayer == 100

CONSTANTS
    Sandboxes,     \* Sandbox objects
    Names,         \* save names
    Images,        \* installed images (entry points)
    ImageChain,    \* the layers of each: a base, perhaps overlays
    Nothing,       \* model value: no manifest, no disk, no directory
    Resaving,      \* a sandbox loaded from a save may be saved again
    MaxLayers,     \* bound: overlays created
    MaxCrashes     \* bound: deaths of the process

\* A write() under way: what it does next, for which name, on which base, with
\* which overlays, and the disk it saves.
Writers == [step : {"clean", "copy", "swap"}, name : Names, base : Images,
            part : Seq(Nat), promise : Seq(Nat)]

ASSUME StoreAssumption ==
    /\ ImageChain \in [Images -> Seq(0..(FirstLayer - 1))]
    /\ \A i \in Images : ImageChain[i] # <<>>
    /\ Nothing \notin Images \cup Seq(Nat) \cup Writers
    /\ Nothing \notin [manifest : Images \cup {Nothing},
                       overlays : UNION {[0..(n - 1) -> Nat] : n \in 0..MaxLayers}]
    /\ Resaving \in BOOLEAN
    /\ MaxLayers \in Nat /\ MaxCrashes \in Nat

VARIABLES
    \* sandboxes
    image,      \* _image.name, or Nothing when not running
    disk,       \* the layers QEMU has open, bottom to top
    own,        \* how many of them, at the top, are in its temp directory
    loaded,     \* its image was a save
    layers,     \* layers created so far
    \* the workspace: a directory is [manifest, overlays] or Nothing
    final,      \* <workspace>/<name>
    tmp,        \* <workspace>/<name>.tmp
    writer,     \* the write() under way, or Nothing
    crashes,
    \* history
    promised,   \* the disk whose save last succeeded under a name
    pending,    \* the disk whose save is being written, or was when the process
                \* died while it replaced another
    lost        \* names whose replacement failed half way, or whose next save
                \* began after the process had died half way

sandboxVars == <<image, disk, own, loaded, layers>>
promiseVars == <<promised, pending, lost>>
vars == <<sandboxVars, final, tmp, writer, crashes, promiseVars>>

EmptyDir == [manifest |-> Nothing, overlays |-> <<>>]
Fresh == FirstLayer + layers

Init ==
    /\ image = [s \in Sandboxes |-> Nothing]
    /\ disk = [s \in Sandboxes |-> <<>>]
    /\ own = [s \in Sandboxes |-> 0]
    /\ loaded = [s \in Sandboxes |-> FALSE]
    /\ layers = 0
    /\ final = [n \in Names |-> Nothing] /\ tmp = [n \in Names |-> Nothing]
    /\ writer = Nothing /\ crashes = 0
    /\ promised = [n \in Names |-> Nothing] /\ pending = [n \in Names |-> Nothing]
    /\ lost = {}

-----------------------------------------------------------------------------
(* Reading a save.  Overlay i is the file "<i>.qcow2", and the files are    *)
(* taken in the order of their names.                                       *)

Decimal[i \in Nat] == IF i < 10 THEN <<i>> ELSE Append(Decimal[i \div 10], i % 10)

\* Names compare as strings: digit by digit, and the dot that ends the number
\* sorts below a digit.
NameBefore(i, j) ==
    IF i < 10 /\ j < 10 THEN i < j
    ELSE LET a == Decimal[i]  b == Decimal[j] IN
         \/ \E k \in DOMAIN a \cap DOMAIN b :
               a[k] < b[k] /\ \A m \in 1..(k - 1) : a[m] = b[m]
         \/ IsStrictPrefix(a, b)

\* The k-th file is the one with k - 1 before it.
Overlays(dir) ==
    LET files == DOMAIN dir.overlays
        Before(i) == {j \in files : NameBefore(j, i)}
    IN  [k \in 1..Cardinality(files) |->
            dir.overlays[CHOOSE i \in files : Cardinality(Before(i)) = k - 1]]

\* _find_save_dir wants a manifest, _resolve_save at least one overlay.
IsSave(dir) == dir # Nothing /\ dir.manifest # Nothing /\ DOMAIN dir.overlays # {}
DiskOf(dir) == ImageChain[dir.manifest] \o Overlays(dir)
Loadable(n) == IsSave(final[n])
LoadedDisk(n) == DiskOf(final[n])

-----------------------------------------------------------------------------
(* Sandboxes.  create_overlay puts a fresh overlay on the resolved chain.   *)

Boot(s, i, chain, fromSave) ==
    /\ writer = Nothing /\ image[s] = Nothing /\ layers < MaxLayers
    /\ image' = [image EXCEPT ![s] = i]
    /\ disk' = [disk EXCEPT ![s] = Append(chain, Fresh)]
    /\ own' = [own EXCEPT ![s] = 1]
    /\ loaded' = [loaded EXCEPT ![s] = fromSave]
    /\ layers' = layers + 1
    /\ UNCHANGED <<final, tmp, writer, crashes, promiseVars>>

Start(s) == \E i \in Images : Boot(s, i, ImageChain[i], FALSE)
StartFromSave(s) ==
    \E n \in Names : Loadable(n) /\ Boot(s, final[n].manifest, LoadedDisk(n), TRUE)

Off(S) ==
    /\ image' = [s \in Sandboxes |-> IF s \in S THEN Nothing ELSE image[s]]
    /\ disk' = [s \in Sandboxes |-> IF s \in S THEN <<>> ELSE disk[s]]
    /\ own' = [s \in Sandboxes |-> IF s \in S THEN 0 ELSE own[s]]
    /\ loaded' = [s \in Sandboxes |-> IF s \in S THEN FALSE ELSE loaded[s]]
    /\ UNCHANGED layers

Stop(s) ==
    /\ writer = Nothing /\ image[s] # Nothing
    /\ Off({s})
    /\ UNCHANGED <<final, tmp, writer, crashes, promiseVars>>

-----------------------------------------------------------------------------
(* save().  QEMU pivots to a new overlay; of the frozen chain, the overlays *)
(* in the sandbox's temp directory are written, the others left out.        *)

SavedPart_TopOnly(s) == <<Last(disk[s])>>
SavedPart(s) == SubSeq(disk[s], Len(disk[s]) - own[s] + 1, Len(disk[s]))

BeginSave(s, n, part) ==
    /\ writer = Nothing /\ image[s] # Nothing /\ layers < MaxLayers
    /\ loaded[s] => Resaving
    /\ writer' = [step |-> "clean", name |-> n, base |-> image[s],
                  part |-> part, promise |-> disk[s]]
    /\ pending' = [pending EXCEPT ![n] = disk[s]]
    /\ lost' = IF pending[n] = Nothing THEN lost ELSE lost \cup {n}
    /\ UNCHANGED <<image, loaded, final, tmp, crashes, promised>>

\* blockdev-snapshot-sync, and _overlay_path moves on.
Pivot_SkipsOverlay(s) == UNCHANGED <<disk, own, layers>>
Pivot(s) ==
    /\ disk' = [disk EXCEPT ![s] = Append(@, Fresh)]
    /\ own' = [own EXCEPT ![s] = @ + 1]
    /\ layers' = layers + 1

Save(s) == \E n \in Names : BeginSave(s, n, SavedPart(s)) /\ Pivot(s)

At(step) == writer # Nothing /\ writer.step = step
GoTo(step) == writer' = [writer EXCEPT !.step = step]
Unsaved == UNCHANGED <<sandboxVars, crashes, promiseVars>>

\* Remove what an earlier write() left, and start with empty directories.
Clean ==
    /\ At("clean") /\ GoTo("copy")
    /\ tmp' = [tmp EXCEPT ![writer.name] = EmptyDir]
    /\ UNCHANGED final /\ Unsaved

Copied == Cardinality(DOMAIN tmp[writer.name].overlays)

CopyOverlay ==
    /\ At("copy") /\ Copied < Len(writer.part)
    /\ tmp' = [tmp EXCEPT ![writer.name].overlays =
                  [i \in (DOMAIN @) \cup {Copied} |->
                      IF i = Copied THEN writer.part[i + 1] ELSE @[i]]]
    /\ UNCHANGED <<final, writer>> /\ Unsaved

WriteManifest ==
    /\ At("copy") /\ Copied >= Len(writer.part)
    /\ tmp' = [tmp EXCEPT ![writer.name].manifest = writer.base]
    /\ GoTo("swap")
    /\ UNCHANGED final /\ Unsaved

\* shutil.rmtree takes the entries of the old save in any order.
RemoveOverlay ==
    /\ At("swap") /\ final[writer.name] # Nothing
    /\ \E i \in DOMAIN final[writer.name].overlays :
          final' = [final EXCEPT ![writer.name].overlays =
                       Restrict(@, (DOMAIN @) \ {i})]
    /\ UNCHANGED <<tmp, writer>> /\ Unsaved

RemoveManifest ==
    /\ At("swap") /\ final[writer.name] # Nothing
    /\ final[writer.name].manifest # Nothing
    /\ final' = [final EXCEPT ![writer.name].manifest = Nothing]
    /\ UNCHANGED <<tmp, writer>> /\ Unsaved

RemoveDirectory ==
    /\ At("swap") /\ final[writer.name] # Nothing
    /\ final[writer.name].manifest = Nothing
    /\ DOMAIN final[writer.name].overlays = {}
    /\ final' = [final EXCEPT ![writer.name] = Nothing]
    /\ UNCHANGED <<tmp, writer>> /\ Unsaved

Rename ==
    /\ At("swap") /\ final[writer.name] = Nothing
    /\ final' = [final EXCEPT ![writer.name] = tmp[writer.name]]
    /\ tmp' = [tmp EXCEPT ![writer.name] = Nothing]
    /\ promised' = [promised EXCEPT ![writer.name] = writer.promise]
    /\ pending' = [pending EXCEPT ![writer.name] = Nothing]
    /\ lost' = lost \ {writer.name}
    /\ writer' = Nothing
    /\ UNCHANGED <<sandboxVars, crashes>>

\* An older save is being taken away, or is gone already.
Replacing == At("swap") /\ promised[writer.name] # Nothing

\* The handler removes the temporary directory, if it can, and raises again;
\* save() raises and the sandbox runs on.
FailWith(finals) ==
    /\ writer # Nothing
    /\ \/ tmp' = [tmp EXCEPT ![writer.name] = Nothing]
       \/ UNCHANGED tmp
    /\ lost' = IF Replacing THEN lost \cup {writer.name} ELSE lost
    /\ pending' = [pending EXCEPT ![writer.name] = Nothing]
    /\ writer' = Nothing
    /\ final' = finals /\ UNCHANGED <<sandboxVars, crashes, promised>>
WriteFails_DropsSave == writer # Nothing
                        /\ FailWith([final EXCEPT ![writer.name] = Nothing])
WriteFails == FailWith(final)

\* The process dies and takes its sandboxes along; directories stay.
Crash ==
    /\ crashes < MaxCrashes
    /\ crashes' = crashes + 1 /\ writer' = Nothing
    /\ pending' = IF writer = Nothing \/ Replacing THEN pending
                  ELSE [pending EXCEPT ![writer.name] = Nothing]
    /\ Off(Sandboxes)
    /\ UNCHANGED <<final, tmp, promised, lost>>

Writer == Clean \/ CopyOverlay \/ WriteManifest \/ RemoveOverlay
          \/ RemoveManifest \/ RemoveDirectory \/ Rename \/ WriteFails
Next ==
    \/ Writer \/ Crash
    \/ \E s \in Sandboxes : Start(s) \/ StartFromSave(s) \/ Stop(s) \/ Save(s)

Spec == Init /\ [][Next]_vars

-----------------------------------------------------------------------------
\* What a write() has left under a name: the save last promised, unless its
\* replacement was cut off half way and none has succeeded since.
Cut(n) == n \in lost \/ (pending[n] # Nothing /\ ~(writer # Nothing /\ writer.name = n))

IsDirectory(d) ==
    d # Nothing =>
        /\ d.manifest \in Images \cup {Nothing}
        /\ \A i \in DOMAIN d.overlays : i \in Nat /\ d.overlays[i] \in Nat

\* Every variable keeps its type; a running sandbox has an overlay of its own
\* on top of its image, and a directory holds overlays 0 to n - 1 unless it is
\* being removed.
TypeOK ==
    /\ image \in [Sandboxes -> Images \cup {Nothing}]
    /\ disk \in [Sandboxes -> Seq(Nat)] /\ own \in [Sandboxes -> Nat]
    /\ loaded \in [Sandboxes -> BOOLEAN]
    /\ layers \in 0..MaxLayers /\ crashes \in 0..MaxCrashes
    /\ \A s \in Sandboxes : image[s] # Nothing =>
           /\ own[s] > 0 /\ own[s] < Len(disk[s])
           /\ IsPrefix(ImageChain[image[s]], disk[s])
    /\ \A n \in Names : IsDirectory(final[n]) /\ IsDirectory(tmp[n])
    /\ \A n \in Names : Loadable(n) /\ ~Cut(n) /\ ~(At("swap") /\ writer.name = n) =>
           DOMAIN final[n].overlays = 0..(Cardinality(DOMAIN final[n].overlays) - 1)
    /\ writer \in Writers \cup {Nothing}

\* While no write() is under way, loading a save yields exactly the disk the
\* sandbox had when that save was taken: all of its layers, in order, on the
\* base they were written on.  A save whose replacement was cut off may be half
\* removed and still be taken for a save.
RoundTrip ==
    writer = Nothing =>
        \A n \in Names :
            Loadable(n) => promised[n] # Nothing /\ (Cut(n) \/ LoadedDisk(n) = promised[n])

\* "Write to tmp directory first for crash safety": at every step of write(),
\* and whenever the process dies in it, one whole save is there for a name that
\* has one: the old one in its place or the new one beside it.  An error while
\* the old one is being taken away ends this, for the handler removes the new
\* one too; and so does the next save after such a death, which does the same.
\* So a save is not "replaced atomically", as write() says it is: "lost" are the
\* names for which both may be gone.
SavesSurvive ==
    \A n \in Names \ lost :
        promised[n] # Nothing =>
            \/ IsSave(final[n]) /\ DiskOf(final[n]) = promised[n]
            \/ IsSave(tmp[n]) /\ DiskOf(tmp[n]) = pending[n]

\* A layer stacked in two running disks is never the one either writes to: a
\* sandbox's writes show in no other sandbox, and in no save.
TopLayersArePrivate ==
    \A s \in Sandboxes : image[s] # Nothing =>
        /\ \A t \in Sandboxes \ {s} : Last(disk[s]) \notin Range(disk[t])
        /\ \A n \in Names : promised[n] # Nothing =>
               Last(disk[s]) \notin Range(promised[n])
=============================================================================
