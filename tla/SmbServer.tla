------------------------------ MODULE SmbServer ------------------------------
(***************************************************************************)
(* One connection of the SMB server (quicksand_smb): the loop that reads a *)
(* frame and dispatches its requests one after the other (_serve_loop,     *)
(* _dispatch), the handlers of the commands, the table of open handles and *)
(* the tree connections, over host directories that the host changes too.  *)
(*                                                                         *)
(* A handler runs to its end before the next request is read, and is one   *)
(* action; the host's steps come between handlers, and what may fail       *)
(* inside one because of them is a fault chosen with the request.  A frame *)
(* is a compound of requests: the guest's choice of each is made when it   *)
(* is dispatched.  A path is a share and a name, the name Top is the       *)
(* shared directory itself, and directories below it stay empty.  What is  *)
(* in a file is not modelled: a file is a number, and a descriptor leads   *)
(* to one.                                                                 *)
(*                                                                         *)
(* A definition named Action_Slip is Action with a slip a programmer could *)
(* make; the specification does not use it.                                *)
(***************************************************************************)
EXTENDS SmbWire, FiniteSets, Functions, FiniteSetsExt

CONSTANTS
    Shares,          \* shared directories (model values)
    ReadOnly,        \* those shared read-only
    Names, Top,      \* names in a shared directory; the directory itself
    QueryRequests,   \* what QUERY_INFO may ask: class, buffer
    Ipc, None,       \* model values
    Bounds           \* instances: requests offered, and how many of each thing

Paths == Shares \X (Names \cup {Top})
TopOf(s) == <<s, Top>>

\* An instance: what CREATE and QUERY_DIRECTORY may ask (.creates, .lists), names
\* in use, what the configuration may become (.shares), and bounds on the files
\* ever made, the handles and trees of a connection, the requests in a frame and
\* the faults.
ASSUME ServerAssumption ==
    /\ ReadOnly \subseteq Shares /\ Top \notin Names
    /\ None \notin Nat \cup Shares /\ Ipc \notin Shares
    /\ IsFiniteSet(Names) /\ Names \cap {".", ".."} = {}
    /\ \A b \in Bounds :
          /\ \A r \in b.creates : {r.writes, r.folder, r.deletes} \subseteq BOOLEAN
          /\ \A q \in b.lists : Room(q.class, 1, q.buffer) \in Nat
          /\ b.names \subseteq Names /\ b.shares \subseteq SUBSET Shares
          /\ {b.files, b.handles, b.trees, b.frame, b.faults} \subseteq Nat

VARIABLES
    bound,      \* the instance
    \* the host
    dir,        \* what is at each path: a file, a directory or None
    folders,    \* which of them are directories
    made,       \* files and directories made so far
    config,     \* the shares in the configuration file
    fds,        \* the process's descriptors: number -> what and how
    \* SMBSession and HandleManager
    shares,     \* session.config
    trees,      \* tree_map
    nextTree,   \* next_tree_id
    handles,    \* file id -> HandleInfo
    counter,    \* HandleManager._counter
    \* _serve_loop
    frame,      \* requests left, last_file_id, last_tree_id
    faults,
    \* history
    last,       \* the request answered by this step and its answer
    opened,     \* what each handle was opened on
    stale,      \* handles whose path someone else has changed
    scan        \* per handle: the listing as the client has seen it

hostVars == <<dir, folders, made>>
treeVars == <<shares, trees, nextTree>>
handleVars == <<handles, counter, fds>>
history == <<last, opened, stale, scan>>
vars == <<bound, hostVars, config, treeVars, handleVars, frame, faults, history>>

\* How often each name has been listed.
Entries == Names \cup {".", ".."}
NoNames == [n \in Entries |-> 0]

NoRequest == [file |-> 0, chain |-> FALSE, status |-> "none",
              names |-> NoNames, fresh |-> FALSE, known |-> TRUE]
NoFrame == [left |-> 0, file |-> 0, tree |-> 0, base |-> 0]
Unlisted == [seen |-> NoNames, stay |-> {}, known |-> TRUE]

Init ==
    /\ bound \in Bounds
    /\ dir = [p \in Paths |-> IF p[2] = Top THEN p[1] ELSE None]
    /\ folders = Shares /\ made = 0
    /\ config = Shares /\ shares = config
    /\ trees = <<>> /\ nextTree = 1
    /\ handles = <<>> /\ counter = 0 /\ fds = <<>>
    /\ frame = NoFrame /\ faults = 0
    /\ last = NoRequest /\ opened = <<>> /\ stale = {} /\ scan = <<>>

\* The map f with x leading to y.
Put(f, x, y) == [z \in DOMAIN f \cup {x} |-> IF z = x THEN y ELSE f[z]]

-----------------------------------------------------------------------------
(* The loop.  A request marked as related takes the tree and the file of    *)
(* the ones before it in its frame where it names none.                     *)

Serving == frame.left > 0

FrameArrives(n) ==
    /\ ~Serving
    /\ frame' = [frame EXCEPT !.left = n, !.base = counter]
    /\ last' = NoRequest
    /\ UNCHANGED <<hostVars, config, treeVars, handleVars, faults>>

Rest_KeepsFile(f) == IF f.left = 1 THEN [NoFrame EXCEPT !.file = f.file]
                     ELSE [f EXCEPT !.left = @ - 1]

\* last_file_id and last_tree_id are of one frame only.
Rest(f) == IF f.left = 1 THEN NoFrame ELSE [f EXCEPT !.left = @ - 1]

\* The tree ids a request can carry: one of the connection's, 0, or one
\* it never had.
TreeIds == {0, bound.trees + 1} \cup DOMAIN trees
Tree(t, chain) == IF chain /\ t = 0 THEN frame.tree ELSE t

\* The response: tid is the tree id in its header.
Replied(tid, reply) ==
    /\ Serving
    /\ frame' = Rest([frame EXCEPT !.tree = tid])
    /\ last' = reply

Answered(tid, status, f, chain) ==
    Replied(tid, [NoRequest EXCEPT !.file = f, !.chain = chain, !.status = status])

FileIds == 0..counter
Known(f) == f \in DOMAIN handles
\* A related request with the sentinel for a file id
ChainFile == frame.file
\* The tree id a request on a file carries: its handle's, or the chain's.
TreeOf(f, chain) ==
    IF chain THEN frame.tree ELSE IF Known(f) THEN handles[f].tree ELSE 0

\* An exception of a handler is answered; the chain keeps its ids.
DispatchRaises ==
    /\ Serving
    /\ frame' = Rest(frame)
    /\ last' = [NoRequest EXCEPT !.status = "UNSUCCESSFUL"]
    /\ UNCHANGED <<hostVars, config, treeVars, handleVars, faults>>

\* What has no readable header ends the frame.
BadHeader ==
    /\ Serving
    /\ frame' = NoFrame /\ last' = NoRequest
    /\ UNCHANGED <<hostVars, config, treeVars, handleVars, faults>>

-----------------------------------------------------------------------------
(* The commands that leave the session as it is: NEGOTIATE, SESSION_SETUP,  *)
(* LOGOFF, ECHO, IOCTL and those that are not implemented.  What NEGOTIATE  *)
(* stores only decides whether IOCTL can validate it.                       *)

SessionSetup(token) == IF Challenged(token) THEN "MORE_PROCESSING_REQUIRED" ELSE "SUCCESS"

Stateless ==
    {"SUCCESS", "NOT_IMPLEMENTED", "NOT_SUPPORTED"} \cup {SessionSetup(t) : t \in Tokens}

Other(status) ==
    /\ Answered(0, status, 0, FALSE)
    /\ UNCHANGED <<hostVars, config, treeVars, handleVars, faults>>

-----------------------------------------------------------------------------
(* Trees.                                                                   *)

NewTree_Counts == Cardinality(DOMAIN trees) + 1

NewTree == nextTree

\* The configuration is read again, for the whole session, whatever the
\* request asks.
Reloaded == config
TreeConnect(s) ==
    LET found == s \in Reloaded \cup {Ipc} IN
    /\ nextTree <= bound.trees
    /\ shares' = Reloaded
    /\ trees' = IF found THEN Put(trees, NewTree, s) ELSE trees
    /\ nextTree' = IF found THEN NewTree + 1 ELSE nextTree
    /\ Answered(IF found THEN NewTree ELSE 0,
                IF found THEN "SUCCESS" ELSE "BAD_NETWORK_NAME", 0, FALSE)
    /\ UNCHANGED <<hostVars, config, handleVars, faults>>

\* Handles opened through the tree stay open.
TreeDisconnect(t) ==
    /\ Answered(t, "SUCCESS", 0, FALSE)
    /\ trees' = Restrict(trees, DOMAIN trees \ {t})
    /\ UNCHANGED <<hostVars, config, shares, nextTree, handleVars, faults>>

\* The shared directory a tree leads to, while the configuration has it.
ShareOf(t) ==
    IF t \in DOMAIN trees /\ trees[t] \in shares THEN trees[t] ELSE None

-----------------------------------------------------------------------------
(* CREATE: refuse, apply the disposition, open, allocate.                   *)

Exists(p) == dir[p] # None
IsFolder(p) == dir[p] \in folders

\* The status of the first refusal that applies, in the order of the code.
First(refusals) ==
    LET i == SelectInSeq(refusals, LAMBDA c : c[1])
    IN  IF i = 0 THEN "SUCCESS" ELSE refusals[i][2]

Refusal(r, p) ==
    First(<< <<p[1] \in ReadOnly /\ r.writes /\ r.disposition # "OPEN", "ACCESS_DENIED">>,
             <<Exists(p) /\ r.folder /\ ~IsFolder(p), "NOT_A_DIRECTORY">>,
             <<Exists(p) /\ r.plain /\ IsFolder(p), "FILE_IS_A_DIRECTORY">> >>)

Disposed(r, p) ==
    First(<< <<r.disposition \in {"OPEN", "OVERWRITE"} /\ ~Exists(p), "OBJECT_NAME_NOT_FOUND">>,
             <<r.disposition = "CREATE" /\ Exists(p), "OBJECT_NAME_COLLISION">> >>)
\* mkdir or touch: OVERWRITE_IF touches whatever is asked for
Makes(r, p) == ~Exists(p)
MakesFolder(r, p) == Makes(r, p) /\ r.folder /\ r.disposition # "OVERWRITE_IF"

LowestFd(S) == Min(1..(bound.handles + 1) \ S)

NewHandle(r, t, p, fd, folder) ==
    [path |-> p, fd |-> fd, isDir |-> folder, tree |-> t,
     readonly |-> p[1] \in ReadOnly, deletes |-> r.deletes,
     entries |-> None, offset |-> 0]

Refused(t, status, chain) ==
    /\ status # "SUCCESS"
    /\ Answered(t, status, 0, chain)
    /\ UNCHANGED <<hostVars, config, treeVars, handleVars>>

CreateRefused(r, t, n, chain) ==
    LET s == ShareOf(t) IN
    /\ UNCHANGED faults
    /\ IF s = None THEN Refused(t, "NETWORK_NAME_DELETED", chain)
       ELSE Refused(t, First(<< <<Refusal(r, <<s, n>>) # "SUCCESS", Refusal(r, <<s, n>>)>>,
                                <<TRUE, Disposed(r, <<s, n>>)>> >>), chain)

\* A system call of the disposition or the open fails.  What the
\* disposition made stays when only the open fails.
CreateFails(r, t, n, chain) ==
    LET s == ShareOf(t)  p == <<s, n>> IN
    /\ s # None /\ faults < bound.faults /\ faults' = faults + 1
    /\ Refusal(r, p) = "SUCCESS" /\ Disposed(r, p) = "SUCCESS"
    /\ Answered(t, "ACCESS_DENIED", 0, chain)
    /\ \/ UNCHANGED hostVars
       \/ /\ Makes(r, p) /\ ~MakesFolder(r, p) /\ made < bound.files
          /\ dir' = [dir EXCEPT ![p] = made + 1] /\ made' = made + 1
          /\ UNCHANGED folders
    /\ UNCHANGED <<config, treeVars, handleVars>>

Create(r, t, n, chain) ==
    LET s == ShareOf(t)
        p == <<s, n>>
        folder == IF Makes(r, p) THEN MakesFolder(r, p) ELSE IsFolder(p)
        fd == IF folder THEN 0 ELSE LowestFd(DOMAIN fds)
        what == IF Makes(r, p) THEN made + 1 ELSE dir[p] IN
    /\ s # None /\ Refusal(r, p) = "SUCCESS" /\ Disposed(r, p) = "SUCCESS"
    /\ Makes(r, p) => made < bound.files
    /\ counter < bound.handles
    /\ dir' = [dir EXCEPT ![p] = what]
    /\ made' = IF Makes(r, p) THEN made + 1 ELSE made
    /\ folders' = IF MakesFolder(r, p) THEN folders \cup {what} ELSE folders
    /\ fds' = IF folder THEN fds
              ELSE Put(fds, fd, [what |-> what, writes |-> r.writes /\ s \notin ReadOnly])
    /\ counter' = counter + 1
    /\ handles' = Put(handles, counter', NewHandle(r, t, p, fd, folder))
    /\ Serving
    /\ frame' = Rest([frame EXCEPT !.tree = t, !.file = counter'])
    /\ last' = [NoRequest EXCEPT !.file = counter', !.status = "SUCCESS"]
    /\ UNCHANGED <<config, treeVars, faults>>

-----------------------------------------------------------------------------
(* READ, WRITE, QUERY_INFO, and SET_INFO of times, of sizes and of the      *)
(* pending deletion.  A lost descriptor reads as the end of the file.       *)

ReadStatus(f) ==
    IF ~Known(f) THEN {"INVALID_HANDLE"}
    ELSE IF handles[f].isDir THEN {"FILE_IS_A_DIRECTORY"}
    ELSE IF handles[f].fd = 0 THEN {"END_OF_FILE"} ELSE {"SUCCESS", "END_OF_FILE"}

WriteStatus(f) ==
    IF ~Known(f) THEN "INVALID_HANDLE"
    ELSE IF handles[f].isDir THEN "FILE_IS_A_DIRECTORY"
    ELSE IF handles[f].readonly \/ handles[f].fd = 0 THEN "ACCESS_DENIED"
    ELSE IF fds[handles[f].fd].writes THEN "SUCCESS" ELSE "ACCESS_DENIED"

QueryStatus(f, q) ==
    IF ~Known(f) THEN "INVALID_HANDLE"
    ELSE IF ~Exists(handles[f].path) THEN "OBJECT_NAME_NOT_FOUND"
    ELSE InfoStatus(q)

FlushStatus(f) == IF Known(f) THEN "SUCCESS" ELSE "INVALID_HANDLE"

SetStatus(f) ==
    IF ~Known(f) THEN "INVALID_HANDLE"
    ELSE IF handles[f].readonly THEN "ACCESS_DENIED" ELSE "SUCCESS"

OnFile(f, chain, status) ==
    /\ Answered(TreeOf(f, chain), status, f, chain)
    /\ UNCHANGED <<hostVars, config, treeVars, faults>>

Access(f, chain) ==
    /\ \E status \in ReadStatus(f) \cup {WriteStatus(f), FlushStatus(f), SetStatus(f)}
                     \cup {QueryStatus(f, q) : q \in QueryRequests} :
          OnFile(f, chain, status)
    /\ UNCHANGED handleVars

SetDisposition(f, chain, pending) ==
    /\ Known(f) /\ ~handles[f].readonly /\ handles[f].path[2] # Top
    /\ handles' = [handles EXCEPT ![f].deletes = pending]
    /\ OnFile(f, chain, "SUCCESS")
    /\ UNCHANGED <<counter, fds>>

-----------------------------------------------------------------------------
(* SET_INFO of the name: the descriptor is closed, the path renamed and the *)
(* file opened again, at the new path or, when the rename failed, the old.  *)

Without(fd) == Restrict(fds, DOMAIN fds \ {fd})

RenameRefusal(f, new, replace) ==
    First(<< <<~Known(f), "INVALID_HANDLE">>,
             <<Known(f) /\ handles[f].readonly, "ACCESS_DENIED">>,
             <<Known(f) /\ ShareOf(handles[f].tree) = None, "ACCESS_DENIED">>,
             <<Known(f) /\ Exists(<<handles[f].path[1], new>>) /\ ~replace,
               "OBJECT_NAME_COLLISION">> >>)

RenameRefused(f, chain, new, replace) ==
    /\ RenameRefusal(f, new, replace) # "SUCCESS"
    /\ OnFile(f, chain, RenameRefusal(f, new, replace))
    /\ UNCHANGED handleVars

\* What os.rename accepts.
Movable(old, new) ==
    /\ Exists(old) /\ old[2] # Top /\ new[2] # Top
    /\ Exists(new) => IsFolder(old) = IsFolder(new)

Moved(old, new) ==
    [p \in Paths |-> IF p = new THEN dir[old] ELSE IF p = old THEN None ELSE dir[p]]

Lands_OldPath(old, new, moves) == old

\* info.path, and where the file is opened again
Lands(old, new, moves) == IF moves THEN new ELSE old

Rename(f, chain, new, moves, reopens) ==
    LET h == handles[f]
        target == <<h.path[1], new>>
        lands == Lands(h.path, target, moves)
        place == IF moves THEN Moved(h.path, target) ELSE dir
        file == ~h.isDir /\ place[lands] # None /\ place[lands] \notin folders
        fd == IF file /\ reopens THEN LowestFd(DOMAIN Without(h.fd)) ELSE 0 IN
    /\ moves => Movable(h.path, target)
    /\ faults' = IF (Movable(h.path, target) /\ ~moves) \/ (file /\ ~reopens)
                 THEN faults + 1 ELSE faults
    /\ faults' <= bound.faults
    /\ dir' = place
    /\ handles' = [handles EXCEPT ![f].path = lands, ![f].fd = fd]
    /\ fds' = IF fd = 0 THEN Without(h.fd)
              ELSE Put(Without(h.fd), fd, [what |-> place[lands], writes |-> TRUE])
    /\ Answered(TreeOf(f, chain), IF moves /\ (h.isDir \/ fd # 0) THEN "SUCCESS" ELSE "ACCESS_DENIED",
                f, chain)
    /\ UNCHANGED <<folders, made, config, treeVars, counter>>

SetName(f, chain, new, replace, moves, reopens) ==
    /\ RenameRefusal(f, new, replace) = "SUCCESS"
    /\ Rename(f, chain, new, moves, reopens)

-----------------------------------------------------------------------------
(* QUERY_DIRECTORY.  The names are read once and handed out in pieces; a    *)
(* name whose file has gone is passed over.                                 *)

Children(p) ==
    IF p[2] = Top THEN {n \in Names : Exists(<<p[1], n>>)} ELSE {}

Listing(p) == <<"..", ".">> \o SetToSeq(Children(p))

\* _build_dir_entry finds something to describe
Describable(p, name, known) ==
    known /\ IF name \in {".", ".."} THEN Exists(p) ELSE name \in Children(p)

\* The first of those found, as many as the answer may hold.
Given(found, single, room) ==
    {i \in found : Cardinality({j \in found : j <= i}) <= (IF single /\ room > 1 THEN 1 ELSE room)}

\* the entry that did not fit is skipped
ListStops_PastIt(end, found, given, single) ==
    IF found = given /\ (~single \/ found = {}) THEN end
    ELSE IF single /\ given # {} THEN Min(given) ELSE Min(found \ given)

\* The client's buffer has room for a number of entries, perhaps none.
ListStops(end, found, given, single) ==
    IF found = given /\ (~single \/ found = {}) THEN end
    ELSE IF single /\ given # {} THEN Min(given) ELSE Min(found \ given) - 1

QueryDirectory(f, chain, known, restart, single, room) ==
    LET h == handles[f]
        fresh == h.entries = None \/ restart
        list == IF fresh THEN Listing(h.path) ELSE h.entries
        from == IF fresh THEN 0 ELSE h.offset
        found == {i \in (from + 1)..Len(list) : Describable(h.path, list[i], known)}
        given == Given(found, single, room) IN
    /\ fresh => IsFolder(h.path)
    /\ handles' = [handles EXCEPT ![f].entries = list,
                                  ![f].offset = ListStops(Len(list), found, given, single)]
    /\ Replied(TreeOf(f, chain), [file |-> f, chain |-> chain, fresh |-> fresh, known |-> known,
                   names |-> [n \in Entries |-> Cardinality({i \in given : list[i] = n})],
                   status |-> IF found = {} THEN "NO_MORE_FILES"
                              ELSE IF room = 0 THEN "BUFFER_TOO_SMALL" ELSE "SUCCESS"])
    /\ UNCHANGED <<hostVars, config, treeVars, counter, fds, faults>>

ListRefused(f, chain, restart) ==
    LET fresh == handles[f].entries = None \/ restart IN
    /\ \/ ~Known(f) /\ OnFile(f, chain, "INVALID_HANDLE")
       \/ Known(f) /\ ~handles[f].isDir /\ OnFile(f, chain, "INVALID_PARAMETER")
       \/ /\ Known(f) /\ handles[f].isDir /\ fresh /\ ~IsFolder(handles[f].path)
          /\ OnFile(f, chain, "OBJECT_NAME_NOT_FOUND")
    /\ UNCHANGED handleVars

List(f, chain, class, restart, single, buffer) ==
    /\ Known(f) /\ handles[f].isDir
    /\ QueryDirectory(f, chain, Listable(class), restart, single,
                      Room(class, 1, buffer))

-----------------------------------------------------------------------------
(* CLOSE and the end of the connection.                                     *)

\* What unlink and rmdir accept.
Removable(h) == Exists(h.path) /\ IsFolder(h.path) = h.isDir /\ h.path[2] # Top

Close(f, chain) ==
    LET h == handles[f] IN
    /\ Known(f)
    /\ handles' = Restrict(handles, DOMAIN handles \ {f})
    /\ fds' = Without(h.fd)
    /\ \/ h.deletes /\ Removable(h) /\ dir' = [dir EXCEPT ![h.path] = None]
       \/ ~(h.deletes /\ Removable(h)) /\ UNCHANGED dir
    /\ Answered(TreeOf(f, chain), "SUCCESS", f, chain)
    /\ UNCHANGED <<folders, made, config, treeVars, counter, faults>>

CloseUnknown(f, chain) ==
    /\ ~Known(f)
    /\ OnFile(f, chain, "INVALID_HANDLE")
    /\ UNCHANGED handleVars

\* End of file on the transport, or a write that fails; the next client is
\* served by a new session.
ConnectionEnds ==
    /\ ~Serving
    /\ fds' = Restrict(fds, DOMAIN fds \ {handles[f].fd : f \in DOMAIN handles})
    /\ handles' = <<>> /\ counter' = 0
    /\ trees' = <<>> /\ nextTree' = 1 /\ shares' = config
    /\ frame' = NoFrame /\ last' = NoRequest
    /\ UNCHANGED <<hostVars, config, faults>>

-----------------------------------------------------------------------------
(* The host: its programs on the shared directories, and the sandbox on the *)
(* configuration file, which is replaced whole.                             *)

HostOnly == last' = NoRequest
            /\ UNCHANGED <<treeVars, handleVars, frame, faults>>

HostMakes(p) ==
    /\ ~Exists(p) /\ made < bound.files
    /\ dir' = [dir EXCEPT ![p] = made + 1] /\ made' = made + 1
    /\ HostOnly /\ UNCHANGED <<folders, config>>

HostRemoves(p) ==
    /\ Exists(p)
    /\ dir' = [dir EXCEPT ![p] = None]
    /\ HostOnly /\ UNCHANGED <<folders, made, config>>

HostShares(set) ==
    /\ set # config /\ config' = set
    /\ HostOnly /\ UNCHANGED hostVars

-----------------------------------------------------------------------------
(* History, derived from the step and the answer it gave.                   *)

Seen(f) ==
    LET before == IF f \in DOMAIN scan THEN scan[f] ELSE Unlisted
        start == IF f = last'.file /\ last'.fresh
                 THEN [Unlisted EXCEPT !.stay = {n \in Names : dir[<<handles[f].path[1], n>>] # None}]
                 ELSE before
    IN  [seen |-> [n \in Entries |->
                      start.seen[n] + IF f = last'.file THEN last'.names[n] ELSE 0],
         stay |-> {n \in start.stay : dir'[<<handles'[f].path[1], n>>] # None},
         known |-> start.known /\ (f = last'.file => last'.known)]

Listed(f) == handles'[f].entries # None /\ handles'[f].path[2] = Top

History ==
    /\ opened' = [f \in DOMAIN handles' |->
                     IF f \in DOMAIN opened THEN opened[f] ELSE dir'[handles'[f].path]]
    /\ stale' = {f \in DOMAIN handles' :
                    \/ f \in stale
                    \/ /\ f \in DOMAIN handles /\ f # last'.file
                       /\ dir'[handles[f].path] # dir[handles[f].path]}
    /\ scan' = [f \in {g \in DOMAIN handles' : Listed(g)} |-> Seen(f)]

FileStep(f, chain) ==
    \/ Access(f, chain)
    \/ \E pending \in BOOLEAN : Known(f) /\ SetDisposition(f, chain, pending)
    \/ \E n \in bound.names, replace \in BOOLEAN : RenameRefused(f, chain, n, replace)
    \/ \E n \in bound.names, replace, moves, reopens \in BOOLEAN :
          SetName(f, chain, n, replace, moves, reopens)
    \/ \E restart \in BOOLEAN : ListRefused(f, chain, restart)
    \/ \E restart, single \in BOOLEAN, q \in bound.lists :
          List(f, chain, q.class, restart, single, q.buffer)
    \/ Close(f, chain)
    \/ CloseUnknown(f, chain)

CreateStep(r, t, n, chain) ==
    \/ CreateRefused(r, t, n, chain)
    \/ CreateFails(r, t, n, chain)
    \/ Create(r, t, n, chain)

Request ==
    \/ DispatchRaises
    \/ BadHeader
    \/ \E status \in Stateless : Other(status)
    \/ \E s \in Shares \cup {Ipc} : TreeConnect(s)
    \/ \E t \in TreeIds : TreeDisconnect(t)
    \/ \E r \in bound.creates, t \in TreeIds, n \in bound.names \cup {Top}, chain \in BOOLEAN :
          CreateStep(r, Tree(t, chain), n, chain)
    \/ \E f \in FileIds : FileStep(f, FALSE)
    \/ FileStep(ChainFile, TRUE)

Host ==
    \/ \E p \in Shares \X bound.names : HostMakes(p) \/ HostRemoves(p)
    \/ \E set \in bound.shares : HostShares(set)

Next ==
    /\ \/ \E n \in 1..bound.frame : FrameArrives(n)
       \/ Request
       \/ ConnectionEnds
       \/ Host
    /\ History
    /\ UNCHANGED bound

Spec == Init /\ [][Next]_vars

-----------------------------------------------------------------------------
(* Properties.                                                              *)

TypeOK ==
    /\ dir \in [Paths -> (1..made) \cup Shares \cup {None}]
    /\ folders \subseteq (1..made) \cup Shares
    /\ made \in 0..bound.files /\ config \subseteq Shares /\ shares \subseteq Shares
    /\ DOMAIN trees \subseteq 1..bound.trees /\ Range(trees) \subseteq Shares \cup {Ipc}
    /\ nextTree \in 1..(bound.trees + 1) /\ counter \in 0..bound.handles
    /\ DOMAIN handles \subseteq 1..counter
    /\ frame.left \in 0..bound.frame /\ frame.file \in 0..counter
    /\ faults \in 0..bound.faults

\* Renames close and reopen descriptors, opens and closes fail half way, and
\* the system hands out the lowest free number again: every descriptor of
\* the process belongs to exactly one open handle, and none is left when the
\* connection has ended.  A handle stays on the file it was
\* opened on: as long as nobody else renames, replaces or removes what its path
\* names, the path still names that file, and its descriptor, while it has one,
\* leads to it, after any renames of its own, failed ones included.
HandlesKeepTheirFiles ==
    LET with == {f \in DOMAIN handles : handles[f].fd # 0} IN
    /\ DOMAIN fds = {handles[f].fd : f \in with}
    /\ \A f, g \in with : f # g => handles[f].fd # handles[g].fd
    /\ \A f \in DOMAIN handles \ stale :
         /\ dir[handles[f].path] = opened[f]
         /\ f \in with => fds[handles[f].fd].what = opened[f]

\* A listing of a shared directory, read in pieces, with restarts and
\* buffers that are too small, while the host makes and removes files: when
\* the server says that there is no more, the client has seen every name
\* that was there all the time, and none twice.
Exact(f) ==
    last.file = f /\ last.status = "NO_MORE_FILES" /\ scan[f].known
    => /\ \A n \in Entries : scan[f].seen[n] <= 1
       /\ \A n \in scan[f].stay \cup {".", ".."} : scan[f].seen[n] = 1

ListingIsExact == [][\A f \in DOMAIN scan' : Exact(f)']_vars

\* A request of a chain that names no file is given the handle of a CREATE
\* of its own frame, never one that an earlier frame left behind.
ChainStaysInFrame ==
    [][last'.chain /\ last'.file # 0 => last'.file > frame.base]_vars

\* A handle's tree leads to the share it was opened on or nowhere: the id of
\* a tree is not used again for another share.
TreesKeepTheirShare ==
    [][\A f \in DOMAIN handles \cap DOMAIN handles' :
          LET t == handles[f].tree
          IN  t \in DOMAIN trees' => trees'[t] = handles[f].path[1]]_vars
=============================================================================
