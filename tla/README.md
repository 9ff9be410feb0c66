# Quicksand in TLA+

Quicksand gives a Python program a Linux VM: `Sandbox` (package quicksand-core) finds an
image and a QEMU, boots the one in the other on a copy-on-write overlay, talks to an agent
inside the guest to run commands, shares host directories over SMB, and saves the disk. This
directory holds TLA+ models of the parts whose correctness depends on interleavings,
failures and long sequences of calls, TLC configurations that check them on small instances,
and TLAPS proofs.

`PROJECT.json` maps every definition to the lines it models and lists the hazards, runs,
findings and theorems. Paths below leave out `src/packages/`.

## 1. Inventory

| Component (source) | State | Operations and interaction | What is hard | What makes it correct |
|---|---|---|---|---|
| Guest agent: stdin executions (`.../src/stdin_execution.rs`) | registry id -> handle, exclusive flag, per execution: control, process group, input and output channels | start, submit, cancel, cancel_all, the run task; used by both transports | threads, a select of four events, guards dropped in order, a consumer that stalls | ids and exclusivity outlive processes, input in order, truthful acknowledgements, every tear-down completes |
| Guest agent: virtio-serial session (`main.rs`, `serve_virtio_serial`) | authenticated flag, two output channels, tasks | reads frames, spawns a task per request, one writer task | tasks answer in any order, crash and restart under a live host connection | frames of one stream in order, answers carry their request's id |
| Guest agent: legacy executions and users (`main.rs`) | exclusive flag, threads, account files | execute, execute_stream, create and delete user, lookup of a command's user | blocking calls in async tasks, load-then-claim of the flag, files truncated and written anew | exclusivity, a uid is one user's, every request returns |
| Guest agent: HTTP routes (`main.rs`) | none of their own | the same handlers, on other threads | a request the host has given up is still carried out | see the HTTP client |
| Host agent client, virtio-serial (`quicksand_core/host/virtio_serial_agent_client.py`) | pending futures and queues by id, writer lock, reader task | connect, send_request, send_stream_request, close | retries while the guest boots, timeouts and cancellation, connection loss | an answer reaches the request it answers or nobody; every request ends |
| Host agent client, HTTP (`quicksand_guest_agent_client.py`) | one lock | connect, requests with retries, streams, control requests past the lock | retry of what was already done | commands and input follow the calls; every call ends |
| Stdin feed (`host/_stdin.py`) | feeder and output task | run_with_stdin, on top of a client | two tasks, deadline, cancel | no task or guest execution left behind |
| Execution API, sandbox users (`sandbox/_execution.py`) | none | parameters handed to a client | - | - |
| Sandbox lifecycle (`sandbox/_sandbox.py`, `_lifecycle.py`) | flags, connections, temp directory, process | start, stop, _cleanup | failure of every await, QEMU's death, concurrent calls | nothing leaks, running means usable, calls end |
| Checkpoints and save() (`sandbox/_checkpoints.py`, `_saves.py`) | `_qmp_checkpoints`, overlay chain | checkpoint, revert, save; over QMP | the list and QEMU's snapshots are two records; awaits between check and use | reverts restore, saves hold no checkpoint |
| Saves (`qemu/save.py`, `overlay.py`, `image_resolver.py`) | directories of overlays and a manifest | write, resolve, create_overlay | I/O errors and death half way, chains on chains | loading gives back the saved disk; a save is never lost |
| QMP client (`qemu/qmp.py`), input (`sandbox/_input.py`) | one socket, a buffer | execute; clicks, keys, screenshots as several commands | no lock, no ids, events in between | a reply belongs to its command |
| Process manager, reaper (`qemu/process.py`, `_reaper.py`) | Popen, pipes, signals | start, write_serial, terminate; EOF watcher | two escalations with their own timeouts, a full pipe | QEMU does not outlive the host process |
| Mounts and host SMB servers (`sandbox/_mounts.py`, `host/smb.py`) | shares, mount handles, configuration, threads | boot-time mounts, mount, unmount, stop; add and remove share | partial failure between host and guest | table, handles and guest agree |
| SMB server (`quicksand_smb/`) | session, trees, open handles, descriptors | one frame of requests at a time per connection | request sequences, host changes in between | a handle reaches its own file, listings are exact, ids keep their meaning |
| QEMU wheel build (`quicksand-qemu/hatch_build.py`, `quicksand_build_tools`) | bin/ and bin/lib | install, copy, bundle, sign, verify, tag | recursion over libraries, interrupted builds, three systems | a wheel that pip accepts runs |
| Images, accelerators, runtimes, ports, command lines (`qemu/platform.py`, `arch.py`, `image_resolver.py`, `utils/network.py`) | what start() has found so far | the phases of start() | ports looked up before use, cross-architecture choices | the guest talks to its own host side, the machine fits the image |
| Installer, automatic installs (`qemu/installer.py`, `_auto_install.py`) | what is on PATH and in site-packages | package managers, pip | what each of them really brings | the runtime found can run the image |
| DNS proxy, CLI and benchmarks, image build tools, packaged images | little or none | I/O, tables, scripts | - | not modelled |

How they meet: `Sandbox.start` resolves image, accelerator, runtime and ports, launches QEMU
through the reaper, connects an agent client and then QMP, and mounts the configured
directories. `execute` goes through the client to the agent; with stdin, `run_with_stdin`
drives a streaming request and a sequence of stdin requests on the same connection, which
the agent hands to the registry of executions. `mount` adds a share to the server of the
sandbox and has the guest mount it through `execute`. `save` quiesces the guest through the
agent, pivots the disk over QMP and writes the frozen overlays; the next `start` resolves them.

The hazards found in the code, with their lines and the properties that cover them or
the reason none does, are the `hazards` of `PROJECT.json`.

## 2. Modules

| Module | Models | State and actions |
|---|---|---|
| `StdinExecution` | `stdin_execution.rs` | One element of `Execs` is an admitted `start()`; `stage` is the position of its `run` task, with one action per branch of the `select!`, per guard dropped and per event sent. `Submits` and `Cancels` are control requests; each lock, channel operation and await of theirs is a step. |
| `ExecutionContract` | what the registry promises | Admit, Launch, Collapse (killed and reaped), Retire, Yield: an execution owns its id and lease from before its process exists until after it is gone. `StdinExecution` implements it through the mapping `Contract`. |
| `GuestAgent` | commands without stdin and accounts, `main.rs` | `stage[r]` is how far a handler or task is; `Workers` threads, of which a handler that does not await keeps one (`Occupied`). `exclusiveBusy` is loaded (`Check`) and claimed (`Claim`) in two steps. `passwd` and `group` are sets of lines, rewritten through an empty file (`Truncate`, `Rewrite`); `Crash` and failed writes come in between. |
| `AgentClient` | the virtio-serial client and the agent's session, the wires between them | `stage` is `connect()`, then the reader; `call[c]` the coroutine of a request; `toGuest`, `toHost` the wires, `outbox`, `streamBox` the agent's two channels. Frames record what they answer, as history. |
| `HttpCalls` | the HTTP client, `run_with_stdin`, the routes it calls | `call[c]`, `out[c]` and `feed[c]` are the caller and the two tasks; `request`, `input`, `cancel` the three kinds of request on their way; `strays` what the host has given up and the guest may still carry out. |
| `SaveStore` | saves | A disk is a sequence of layers. `writer` is the one `SaveWriter.write` under way, an action per file operation; `Crash` ends the process at any of them. `promised` is the disk of the last save that succeeded under a name, `pending` that of a replacement under way or cut off by a crash (`Cut`), `lost` the names for which a failing or repeated replacement may have removed both. |
| `SandboxLifecycle` | one `Sandbox` and its QEMU | `pc[t]` is the await a coroutine is at. `tags` is `_qmp_checkpoints`, `snaps` what QEMU's overlay really holds. `Cancel` ends a call at any await without its handlers. History: `unread`, `overtook` and `crossed` (tags whose `savevm` or `delvm` failed in a text nobody reads, that were taken while a `save()` was past its check, a call cancelled inside QMP); `stranded`, `abandoned` and `unremoved` (what a failed or cancelled start or cleanup leaves). |
| `Qemu` | process manager, reaper, QMP client, input | `host`, `watcher` and `reaper` with their remaining waits; time passes (`Tick`) only when nobody has anything to do at once. `user[u]` is a coroutine on the control connection, `stream` and `buf` what has come in. |
| `Mounts` | mounts and the three servers | `calls[c]` is the await of a coroutine in `mount`, `unmount`, `stop` or start()'s mounts; `table`, `config`, `handles`, `guest` the four records of what is mounted; the TCP server's threads run at any time. `loose` and `stuck` are what lost answers, cancelled calls and `Remove-SmbShare` leave, `strays` what start() publishes after `stop()`. |
| `SmbWire` | lengths and offsets of the SMB messages | operators only: `Split` and `Chain` of compounds, the size of every response, the NTLMSSP and SPNEGO tokens. |
| `SmbServer` | one connection of the SMB server (extends `SmbWire`) | one action per command and outcome; `handles` and `fds` apart, so that a handle may have lost its descriptor; `dir` is changed by the host between requests. |
| `WheelBuild` | the build hook and the bundlers | `stage` of `initialize()`, `stack` the recursion over libraries, `bundle` what is known of each file in bin/; a build may stop at every step and start again on what is there. |
| `Launch` | the phases of start() (extends `WheelBuild`) | the wheel is installed on a host; `box[b]` is what start() has found so far, `listening` the ports of the host, `qemu[b]` the process. |
| `StdinExecution_proofs`, `GuestAgent_proofs`, `AgentClient_proofs`, `HttpCalls_proofs`, `Mounts_proofs`, `SmbServer_proofs` | | theorems about those modules |
| `Qemu_proofs`, `Launch_proofs` | | theorems about `Qemu` and `SaveStore`; about `WheelBuild`, `Launch` and `SandboxLifecycle` |
| `MC...` | | model values, instances and symmetry for TLC; `MCStdinRequests` also the constraint `Apart` |

Composition. `Launch` extends `WheelBuild`: what was built decides which libraries QEMU finds
and whether names resolve. `SmbServer` extends `SmbWire`. `AgentClient` holds both ends of the
serial connection, `HttpCalls` client, feed and routes, `Qemu` the three processes. Between
other modules the coupling is by assumption: `SandboxLifecycle` takes agent, QMP and
`SaveWriter` as awaits that succeed or fail, `Mounts` the `execute` of its commands,
`HttpCalls` of a command with stdin what `StdinExecution` shows (input in order, a cancel
that is answered after the tear-down).

Atomicity. In the Rust agent (multi-threaded tokio) a step is the code between two points
where another thread can observe shared state: a lock, an atomic, a channel, a file, an await.
In Python (one event loop) it is the code between two awaits, with the threads of the SMB
server and the reaper beside it; `SaveWriter.write` has no await, but its single file
operations are steps because an error or the death of the process can fall between them. An
SMB handler is one step: the server handles the requests of a connection one after the other,
and a system call the host may have made fail is chosen with the request.

Abstractions. Payloads, names and texts are model values; a frame is atomic (a read
cancelled inside a frame is not modelled); the content of a layer or of a file is its
identity; JSON and base64 are absent because no property is about them. Where a conversion
decides something it is modelled: the order of overlay files is that of their names as
strings, the sizes of SMB messages are those `struct` gives, the architecture of a machine
goes through `arch.py`'s tables of names.

Definitions named `X_Slip` (for instance `DeletedAll_KeepsTags`) are `X` with a mistake a
programmer could make. No specification uses them; each shows that a property notices it.

## 3. Runs

| Run | Checks | Bounds, and why they are enough |
|---|---|---|
| `StdinRegistry` | `LiveProcessIsRegistered`, `DescendantsDie`, `ExclusiveOutlivesProcess`, `ImplementsContract` | Two executions, two ids, one holder without stdin: ids and lease are contended by pairs. One may fork descendants and the group kill may fail. Nobody takes events (`CONSTRAINT Unread`): the only one sent before an execution is out of the registry finds room. |
| `StdinRequests` | `InputIsFaithful`, `CancelMeansGone`, `OutputProtocol`, `CallsReturn` | One execution. Three requests for a one-slot channel (one being written, one queued, one refused), of which one is EOF and one abandoned; two cancels, or one and `cancel_all`; an output channel of one event fills at once. |
| `AgentRequests` | `AnswersMatch`, `WaitersAreRegistered`, `StreamInOrder`, `RequestsEnd` | One request and one stream, two authenticate frames, and a lost connection or a crash of the agent (`OneMishap`): each wait can be hit by each failure. `PromptAgent`: an agent answers within a 0.5 s drain read. |
| `GuestAgent` | `ExclusiveIsAlone`, `UidsAreOwn`, `RequestsReturn` | Three requests on two threads, so that two may block both; three agendas of commands and twelve of account edits beside a command; either transport; a channel of one event (`Room`), one crash or failed write (`MaxMishaps`), uids 1 to 3. |
| `HttpCalls` | `InputOnce`, `CommandsFollowCalls`, `CallsEnd` | Seven sessions of two calls: input alone, input with lost requests and refusals, with timeouts and cancellation, with a source that stalls or raises, beside a stream, two inputs, a plain call and a stream; one retry (`MaxRetries`), two chunks. |
| `SaveLoad` | `RoundTrip`, `SavesSurvive`, `TopLayersArePrivate` | Two sandboxes on two save names; one image is plain, the other brings an overlay; five overlays allow a save, its replacement and a load, or several saves of one session; one crash, and any number of failing file operations, at every step. |
| `SaveAgain` (violated) | `RoundTrip` with `Resaving` | The finding below. |
| `Lifecycle` | `NothingLeaks`, `ReadyWhileRunning`, `FirstSessionReverts`, `NoCheckpointFrozen`, `CallsEnd` | Two coroutines (pairs of calls overlap), two starts (a failed one and a retry, or a restart), with and without `save=`, any number of saves, two tags; one fault (`MaxFaults`): a death of QEMU, a call cancelled at any await, or an HMP command that fails unheard. |
| `Qemu` | `CallsStayInStep`, `OrphansAreSlow`, `HostDeathKillsQemu` | Two coroutines with multi-command calls, one event and one error, or one cancellation; a QEMU that leaves at once, late or never, and a serial pipe that two chunks fill. `HostWait = 1 < ReaperWait = 3` keeps the order of `PROCESS_TERMINATE` and `GRACEFUL_TIMEOUT`. |
| `Mounts` | `SharesMatchMounts`, `LateConnectionsRefused`, `CallsEnd` | Each of the three servers, two callers beside start(), one share for `mount()`, two tries, one connection. With guestfwd three boot-time mounts (9p and two cifs) and two faults, since a `cifs` mount is given up after two refusals and what is rolled back then are those before it; with the TCP server none, on Windows two cifs mounts (`stop()` may come between them), each with one fault: a refusal, a lost answer, a cancelled start(), mount() or unmount(), a failing `add_share`, a death of QEMU. |
| `SmbServer` | `HandlesKeepTheirFiles`, `ListingIsExact`, `ChainStaysInFrame`, `TreesKeepTheirShare` | Three instances (`MCBounds`): two handles and two files under renames, deletions and a failing system call; one listing of up to three names in buffers that hold one, or all; frames of two requests over two trees while shares come and go. |
| `Launch` | `WheelsBuildAndRun`, `OwnPeers`, `GuestReachesItsHost`, `EmulationFits` | Build machines of three systems, complete or lacking one thing, up to three attempts; hosts with each network mode, kind of forward, accelerator, architecture, package manager and image label; pairs of sandboxes with three ports and a program that takes them. `RecursionLimit = 3` is above the depth at which `_start` may call itself and come back, so that only an endless recursion meets it. |

Every bound is a constant named in its module. Runs switch deadlock checking off where the
system may stop: all calls made, the bounds used up, a command that never ends. `SmbServer`
leaves it on: a connection can always be served. Its `VIEW` leaves out `last`, the answer
recorded for the properties, which no step reads.

Three runs have a `CONSTRAINT`. With `Apart`, `StdinRequests` explores behaviours with input
and behaviours with cancels, an exclusive command or a consumer that moves apart, and
`cancel_all` beside one cancel at most; with `OneMishap`, `AgentRequests` explores a lost
connection or a crash of the agent, not one after the other. Only steps that no fairness is assumed
of (the host begins a request or a cancel, a consumer takes an event or leaves, the connection
is lost, the agent dies) lead out of these sets, so the behaviours inside them that the
liveness properties are checked on are fair behaviours of the whole specification. `Unread`, in
`StdinRegistry`, is for safety properties only. A behaviour outside a constraint is outside
the run; the theorems of section 5 know no such limit.

The type invariants `TypeOK` are not among the runs' properties where a theorem says more
(`StdinExecution`, `AgentClient`, `SandboxLifecycle`); in the other modules `TypeOK`
documents the types, and can be added to the cfg of the run.

### Finding

`SaveAgain`: a sandbox loaded from a save and saved again writes only its own overlays: the
layers of the first save are missing (`_saves.py:143`), which
`tests/integration/checkpoint/test_restore.py:139` expects to be there.

### Other divergences

What else the models showed to differ from a comment, a docstring or a plain expectation.
"To see it" names a change to a cfg under which TLC finds it; the passing runs except these
cases by name.

| What | To see it |
|---|---|
| `connect()` stops draining answers to its authentication attempts after 0.5 s and restarts the ids at 1: a late answer is returned as the result of a request (`virtio_serial_agent_client.py:185` calls the timeout sufficient). | `AgentRequests` with `PromptAgent = FALSE`, `Calls = {c1, c2}`, no stream, no drop or crash: `AnswersMatch` |
| Replacing a save is documented as atomic (`save.py:48`); it is `rmtree` and then `rename`. A process that dies between them leaves the new save under `<name>.tmp`, where nothing looks for it and the next `write()` removes it; an error of either has the handler remove it at once; and a directory half removed is still taken for a save. | `SaveLoad` with `SavesSurvive` for all `Names`, `lost` ones included |
| A session with eleven overlays is saved in order (`save.py:83`) and loaded in the order of the names as strings (`image_resolver.py:131`), where `10.qcow2` comes before `2.qcow2`: the chain is another (`docs/under-the-hood/index.md:428`: each overlay is backed by the one before). | `SaveLoad` with `Sandboxes = {s1}`, `Names = {n1}`, `MaxLayers = 12`, `MaxCrashes = 0`, no symmetry: `RoundTrip` |
| `_qmp_checkpoints` survives `stop()`: after another `start()`, `revert()` accepts an old tag although QEMU has no such snapshot (`_checkpoints.py:51`). | `Lifecycle` with `FirstSessionReverts` without `sessions = 1` |
| `save()` checks for checkpoints before it awaits `sync` and `fstrim`; one taken during those awaits is frozen into the save, and its tag stays listed (`_checkpoints.py:22`). | `Lifecycle` with `NoCheckpointFrozen` without `overtook` |
| HMP commands tell of a failure in the text of a successful reply, which nobody reads (`qmp.py:171`): a `savevm` that failed is listed as a checkpoint, a snapshot whose `delvm` failed is copied into the save. | `Lifecycle` with `FirstSessionReverts` or `NoCheckpointFrozen` without `unread` |
| `_cleanup` forgets a directory it could not remove (`_lifecycle.py:447`), a start() that is cancelled or whose QMP does not answer cleans up nothing, and a stop() that is cancelled leaves what it has not come to: another `stop()` returns at once, and while `_process` is set the object cannot be started again. | `Lifecycle` with `NothingLeaks` without `unremoved` or `~stranded` |
| On Windows a `stop()` between two boot-time mounts lets start() publish the next share on a server that is stopped; nobody removes it (`_mounts.py:139`, `smb.py:243`). | `Mounts` with `SharesHaveOwners` without `strays` |
| `terminate()` kills the reaper before that has escalated: a slow QEMU outlives it (`process.py:153` promises a forceful kill). | `Qemu` with `TerminateKills` |
| Replies of QMP carry no id: overlapping calls take each other's (`qmp.py:145`). | `Qemu` with `ReturnsTheResponse` |
| The host's own architecture is emulated when it is named as image files name it (`image_resolver.py:61`, against `docs/under-the-hood/index.md:157`). | `Launch` with `NativeIsNotEmulated` |
| On macOS a build that was interrupted between copying a library and processing it yields a wheel whose library points at the build machine. | `Launch` with `MissedLibsAreCaught` |

Met while modelling, and part of the models without a property of their own:

* Wheel build: a failing `brew deps` is taken for an empty list (`hatch_build.py:311`), and
  SOURCES.md names no library.
* Legacy executions: a stream that is overdue or that nobody reads gives the exclusive flag
  back while its command runs on (`main.rs:658`; `gaveUp` in `ExclusiveIsAlone`).
  `run_command` waits with the blocking `Command::output`, so its timeout cannot fire and as
  many such commands as there are threads stop the read loop (`main.rs:797`, against 943).
* Accounts: a command resolved while /etc/passwd is truncated is refused though its user
  exists; one that starts while its account is deleted may come to run under a reused uid
  (`late` in `UidsAreOwn`).
* Launch: with quicksand-qemu installed a guest of another architecture is refused
  (`_WrongArchError`, `platform.py:490`); a save records the architecture of its host and
  `_resolve_save` ignores `config.arch`; an image package whose image is missing is installed
  again and again (`RecursionLimit`); an image file without a label is taken for any architecture (`Unlabelled` in `EmulationFits`);
  `dnf` brings the x86 QEMU on arm64 too; ports are looked up before use and a start that loses
  one is not repeated; the QMP port of a sandbox whose QEMU has died may be another's
  (`OwnPeers` excepts it).
* Mounts: a `mount()` that ends after `stop()` appends a handle (`_mounts.py:211`); the
  `umount` of `_cleanup` is never sent, since `_is_running` is already false
  (`_lifecycle.py:406`); the rollback of the boot-time mounts takes back those that succeeded
  (`_mounts.py:155`), and the share of the one that failed stays served until it is over and
  the server is stopped (`SharesHaveOwners` allows that one).
* HTTP client: `connect()` goes on until its timeout although its docstring promises a
  `RuntimeError` for a rejected token; a call that waits for the lock while `close()` runs
  ends with an `AttributeError`.
* Saves: `stop()` with checkpoints in the list loses the automatic save to a logged warning.

## 4. Fairness

* `StdinExecution!FairSpec`: tokio polls woken tasks, deadlines pass, a process that got
  SIGKILL can be reaped. Nothing is assumed of the command or of the output consumer.
* `GuestAgent!FairSpec`: per request weak fairness of its handler and task, of its timeout,
  of the consumer (the host reads a stream or leaves it), and of the end of an `execute`'s
  command: nothing in the agent can end that one, see the divergences. A stream's command need
  not end.
* `AgentClient!FairSpec`: the event loop runs what can run, timers fire, `asyncio.Lock`
  serves waiters in order (strong fairness of `Write`), a serving agent reads and writes. A
  connection need not break, a command need not end.
* `HttpCalls!Spec`: the event loop runs what can run, a guest that is up serves requests,
  deadlines pass. `connect()`'s timeout is strongly fair: each attempt disables it for a moment.
  Faults, cancellations and `close()` need not happen, a source may stall for ever.
* `SandboxLifecycle!FairSpec`: every await ends. Boot and agent requests have timeouts;
  `QMPClient.execute` has none, so this assumes that a QEMU that is up answers QMP.
* `Qemu!Spec`: the reaper's threads run, time passes, QEMU reads its standard input and leaves
  when it is told to, unless it is stubborn. Nothing is assumed of the host.
* `Mounts!Spec`: the guest answers or refuses each command, threads that are joined end or
  the join gives up, the event loop runs its coroutines whenever no join blocks it (`LoopFree`).
* `SaveStore`, `SmbServer`, `WheelBuild` and `Launch` have no liveness property.

## 5. Proofs

Each theorem holds for all values of the constants that satisfy the assumption of its module
(`ConstantsAssumption`, `ClientAssumption`, ...). No property below is inductive; what is, the
invariant named with it, was checked by TLC on the instance of the module's run before it was
proved.

| Module | Theorems |
|---|---|
| `StdinExecution_proofs` | `TypeCorrect`, `LiveProcessTheorem`, `ExclusiveTheorem`, `RefinementTheorem`, `InputTheorem`, `CancelTheorem`, `OutputTheorem`, `DescendantsTheorem` |
| `AgentClient_proofs` | `TypeCorrect`, `WaitersTheorem`; under `PromptAgent`: `AnswersTheorem`, `StreamTheorem` |
| `GuestAgent_proofs` | `AloneTheorem`, `UidsTheorem` |
| `HttpCalls_proofs` | `InputOnceTheorem`, `CommandsTheorem` |
| `Qemu_proofs` (`SaveStore`) | under `[]FewOverlays`: `PrivacyTheorem`, with `~Resaving` also `SavesTheorem`, `RoundTripTheorem` |
| `Launch_proofs` (`SandboxLifecycle`) | `Invariance`, `TypeCorrect`, `LeakTheorem`, `ReadyTheorem`, `FrozenTheorem`, `RevertTheorem` |
| `Qemu_proofs` (`Qemu`) | `OrphansTheorem`, `CallsTheorem` |
| `Mounts_proofs` | `SharesTheorem`, `LateTheorem` |
| `SmbServer_proofs` | `HandlesTheorem`, `ListingTheorem`, `ChainTheorem`, `TreesTheorem` |
| `Launch_proofs` (`WheelBuild`, `Launch`) | `FinishedWheelTheorem`, `WheelsTheorem`, `PeersTheorem`, `GuestTheorem`, `EmulationTheorem` |

### Stdin executions

Ids and the flag: `IInv` adds to the types `NamesInv` (the entry under an id and the registered
stages determine each other), `StageInv` (a process exists only in the stages between spawn and
reap, and `done` comes after) and `FlagInv` (the flag is set exactly while someone holds it, and
that is one holder). `NamesInv` needs the stages because two executions may ask for one id and
only the order admit - remove separates them; `FlagInv` needs the legacy holder because it shares
the atomic. `QuietSteps` collects the many actions that touch none of the three. With it every
step maps to a step of `ExecutionContract` or a stutter (`RefinementTheorem`).

Input: `PlaceInv` says where each request is - in the channel, with the writer, answered - and
that an execution's places hold requests for it and each only one; `OrderInv` that what was
written, what is being written and what is queued are, in this order, what was accepted. That a
request is carried out exactly when it is answered so then follows although the receiver may go at
any step, which answers everybody left (`DropKeepsPlaces`). Cancels: `CancelInv`, a cancel is
credited when it is the first to mark and a mark stays. Output: `EventsInv` fixes where in the
sequence of an execution each kind of event can stand, by its stage. Descendants: `KinInv`, a
group with a live member is armed, and disarmed only by a signal that reached everybody.

### Agent client

`WaitersTheorem`: a stream may take its last output after it has been unregistered, so `WaitInv`
adds that a request that is in flight and no longer registered has the frame that ends it, a
stream as the last in its queue; that frame comes from the reader for a future (`ReadFrame`)
and from `FailPending` for a queue (`Tells`).

`AnswersTheorem` and `StreamTheorem` assume what the run assumes, `PromptAgent`: without it
`AnswersMatch` is false (see the divergences). `AnswerInv` counts: while `connect()` runs, only
authentication frames are under way, and no more than it still owes a read; so none is left when
the ids start again at 1, and from then on each frame carries the id its request was registered
under. `StreamInv` follows the output of a stream through the five places it can be in (the
agent's two channels, the wire, the queue of the host, the callbacks): read one after the other
they are the chunks in order without a gap, and a result comes after the last of them, also when
the connection was cut at any of the joints.

### Guest agent

`AloneTheorem`: `IInv` is `Types`, `FlagInv`, `AloneInv` and `BeforeInv` (the first three
conjuncts of the property), `ClaimInv` (only an exclusive request gets to claim) and `WatchInv`
(a running command is watched by its request or was given up), which the last conjunct needs to
survive the moves of a request. The flag changes only in `Check`, `Claim`, `Release` and
`Crash`; `StaysPut` and `Moves` cover every other step.

`UidsTheorem`: by `UidInv` one request at a time edits the files (it has the lock), what a rewrite
holds back is in nobody's account, an account about to be added has a free id and name (`FreshId`:
`next_free_id` returns more than every id in either file), and a running command's line is an
account unless it was `late` or passwd lost lines. The proof corrected the property, which had no
room for this: a deletion whose rewrite fails loses the line of another account, that user is
created and deleted once more, which strips both his lines from /etc/group, and the next account
gets the uid under which his first command still runs. It takes six requests; the property now
names the case.

### HTTP calls

`HttpInv` is a statement about each call by itself: where its two tasks and its request are
(`StageInv`), that the parts the command has are those the source gave, in order, with at most one
more in a request or among the strays (`InputInv`, `LateInv`), that an attempt is carried out at
most once (`RunInv`), and that a result or an acknowledged cancel means that the command is gone
and no request that would start it is left (`QuietInv`). A step of a call leaves the others alone,
so the proof is one lemma per action. Strays are a sequence from which any element may be taken;
`OneLeft` and `OneLess` say what that does to the members of a kind.

### Saves

`StoreInv`: a disk is what the sandbox was started on and the overlays of the session on top; what
a writer has put into the temporary directory is the first part of what was frozen, and it takes
the old save away only when all of it is there (`WriterInv`); a name has no save, or the whole one
last promised, unless it is being swapped or its replacement was cut (`SaveInv`); after a death in
the middle of a replacement the new save is complete under its temporary name (`DeathInv`); what
is left of a half-removed save is files nobody writes to (`Leftover`), and no layer somebody
writes to is in another disk or in a save (`Clear`).

Every cut of a replacement is in the model: the process may die, and a file operation fail, at any
step of `write()`. `SavesTheorem` says what the order of its steps achieves (at each of them the
old save or the new one is whole) and, by `lost`, what it does not: after an error while the old
save is being taken away, or a death there and another `write()`, there may be none. `RoundTrip`
excepts saves whose replacement was cut, which may be half removed and loaded all the same.

The two hypotheses are cases in which the code does not keep the properties, each of which TLC
shows: `Resaving` (the finding) and, for `FewOverlays`, the eleventh overlay of a session (section
3): the order of up to ten overlays is that of their numbers because their names have one digit
(`OverlaysInOrder`). For `SavesSurvive` and `TopLayersArePrivate` this last one is more than the
code needs; without it, reading a directory back depends on `Decimal`, a recursive function, and
that needs induction over data.

### Sandbox lifecycle

`IInv` has two halves.

* `ResourceInv` says who answers for what is held: a `start()` that waits is alone
  (`StartInv`), a running sandbox has everything (`RunInv`), what a cleanup released stays
  released although other calls go on (`CleanInv`), directories are the current one and
  ones that were forgotten or could not be removed (`DirInv`), and a sandbox that is down is
  clean or somebody is at it, unless it is stranded (`LeakInv`). `StartInv` is what forbids a
  `stop()` to take the server from under a boot. Every await may be cancelled, those of
  `_cleanup` too.
* `SnapshotInv` relates the list of tags to the snapshots. One task at a time waits for QMP
  (`QmpInv`), but a `checkpoint()` may come between the check of a `save()` and its pivot. A
  snapshot is listed or QEMU said, unheard, that it would not go, and a save past its deletions
  meets none but those and the ones that overtook it (`SnapsInv`); in the first session a listed
  tag has its snapshot unless a save is just deleting it or it is `Excused` (`ListedInv`), which
  needs that such a session begins without tags (`SessionInv`). It uses `RunInv`: a lost reply in
  the middle of the deletions means that the sandbox is no longer running. After a call cancelled
  while it waited for QMP (`crossed`) the next one reads its reply, and nothing is claimed.

`LeaveResources`, `NewTempDir`, `QuietSnapshots`, `LeaveSnapshots` and `CleanupSnapshots` are the
lemmas several actions share.

### QEMU

`OrphansTheorem`: by `ProcessInv` the reaper is dead only after QEMU is, or after it was told to
leave and a wait passed; time does not pass while a SIGTERM is still to be forwarded or a prompt
QEMU is about to go, so what is left is slow. `CallsTheorem`: as long as no two calls overlap, one
at a time is inside `execute` and there is at most one command or answer under way, its own
(`ScriptInv`, `ReplyInv`, `InboxInv`); a pressed button has the release of its call still to come
(`ButtonInv`).

### Mounts

`MountsInv`: a share that is being mounted is nobody else's (`Unshared`), what an answer says of
the guest stays true because nobody else mounts that share (`Answered`), the guest can connect to
the table and to nothing else while the server is up, on Windows also to what could not be removed
(`Published`; after the end the table holds only strays), and handles are in the table while the sandbox runs (`Listed`). Looking for this
invariant showed that `SharesHaveOwners` as first stated is false with as many faults as tries:
the rollback leaves the share of the mount that failed. The property and the bounds of the run
were corrected (see the divergences). `LateTheorem` follows from `Published`: the file is gone
when the server is.

### SMB server

`ServerInv` has a part for each promise. `HandlesTheorem`: the descriptors of the process are
those of the handles, one each (`Descriptors`), and a handle nobody interfered with leads to what
it was opened on (`Kept`); a descriptor that is opened is free because the lowest free one exists
(`LowestIsFree`, a pigeonhole argument over the finite set of those in use). `ListingTheorem`: the
list a handle remembers has each name once, and what the client has seen are the names before the
offset of the handle, of those that are there all the time all of them (`ScanInv`), wherever a
buffer is full and however often the client starts again. `ChainTheorem` and `TreesTheorem`: the
id a compound hands on is younger than its frame (`ChainInv`), and ids of trees are given out
once (`TreeInv`). A request is about one handle or none: `FileKept` and `ScanKept` say what it
leaves to the others, and a lemma for each command what becomes of its own.

How many entries fit into a buffer (`Room`) is a sum over bytes, which the prover cannot compute:
`ServerAssumption` says no more than that it is a number.

### Wheel build and start

`WheelInv` says what bin/ holds at each stage of a build. What a frame of the recursion has looked
at is in the bundle unless it is not to be (`StackInv`); in a first build a library in bin/ is
finished or on the stack (`LibsInv`), which is what an interruption breaks and why macOS, whose
check looks at the two binaries only, needs `attempt = 1`; a binary past its stage is complete in
any build (`BinaryInv`); what was signed stays so although qemu-img and libslirp come later
(`SignedInv`); and what `verify` and `tag` saw is still what is there (`VerifiedInv`). The lemmas
follow the bundlers: what looking at a library, copying one and finishing a frame do to the stack
(`LookedStack`, `PoppedStack`), and that the newest glibc among finitely many exists
(`NewestExists`). `NamedInv` is what the list of sources needs: on macOS `BrewDeps` goes
through the dependencies of QEMU and qemu-img, not through bin/ (and is empty when `brew deps`
fails, which `LabelsCoverTheWheel` excepts), so that what is in bin/, and what
the recursion has still to look at, must be within reach of the two. `FinishedWheelTheorem`
follows from both; TLC checked `NamedInv` and its four properties on the instance of `Launch`.

`LaunchInv` adds a statement about each sandbox. `PhaseInv`: where QEMU is at each phase, and
that the agent and, unless QEMU is gone, QMP are its own. `PortInv`: QEMU and the servers hold
their ports. `SettingsInv`: what was found of image, architecture and accelerator fits together.
Ports are only looked up before they are used, so nothing about them is in the invariant until
somebody listens: QEMU comes up only where all its ports are free, and from then on whoever
connects to its QMP port finds it (`QemuComesUpKeeps`, `ConnectQmpKeeps`). `OthersKeep` reduces a
step to its own sandbox and to the listeners it leaves in place. That every conjunct of
`LaunchInv` holds was checked by TLC on the instance of the run `Launch`.

The assumptions on hosts and machines are those of the code: `SYSTEM_LIBS` names no libslirp on
macOS, and ports that `find_free_port` finds are ephemeral, never 445 or a VNC port.

### Only model-checked

* Liveness (`CallsReturn`, `RequestsEnd`, `RequestsReturn`, `CallsEnd`, `HostDeathKillsQemu`),
  which like `ENABLED` is out of the prover's reach. Every other property of a passing run is a
  theorem.
* What the recursive functions of `SmbWire` and `SaveStore` compute (induction over data).

## 6. What is left out

* In modelled parts: frames cut by a cancelled read; `start()` while another call is under way,
  and two QMP commands at once in `SandboxLifecycle` (`Qemu` has them, and what `terminate()`
  leaves of a slow QEMU); lines of /etc/passwd and /etc/group torn by a failed append; two processes writing one save; compression and disk sizes; contents of files, times
  and deeper directories on a share; /etc/shadow and home directories; the addresses of boot-time
  mount commands; memory, cpus, extra arguments and key tables. What of this is a hazard has a
  note in `PROJECT.json`.
* `NothingLeaks` excepts a `start()` that failed before the boot or at QMP, or was cancelled, and
  a cancelled cleanup (`stranded`), directories a later `start()` overwrote (`abandoned`) and
  those that rmtree could not remove (`unremoved`): the code releases none of them.
* `DescendantsDie` says when descendants of a command are left, not that the execution is then
  reported as failed. The libraries of accelerator modules that QEMU loads at run time on Linux
  are outside `Shipped`, and an error that ends a response already begun is not among the events
  of `HttpCalls`: the agent sends none.
* Not modelled: the DNS proxy (one answer per datagram, no state between them), the command
  line and benchmarks (argument parsing and printing around the API), the image build tools
  and scaffolds (scripts that run docker, qemu-img and pip in a fixed order), the packaged
  images (entry points that name files).

## 7. Plan

Done, in this order: `StdinExecution` with `ExecutionContract`, `AgentClient`, `SaveStore`,
`SandboxLifecycle`, `SmbServer`, `Mounts`, `Qemu`, `HttpCalls`, `WheelBuild`, `Launch`,
`GuestAgent`, and the proofs of section 5.

Left to model: the framing of the serial connection byte by byte, with reads cancelled between
header and payload; a `start()` beside other calls.

Theorems to prove next: `RoundTripTheorem` and its companions for sessions of more than ten
overlays, as far as the code keeps them. A module may be proved about only if no module it extends
declares a `RECURSIVE` operator; the project's own modules declare none and write recursion as
functions.
