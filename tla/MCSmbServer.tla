---------------------------- MODULE MCSmbServer ----------------------------
(* Small instances of SmbServer, checked in one run: renames and deletions  *)
(* through two handles, a listing while names come and go, and compounds    *)
(* over several trees.                                                      *)
EXTENDS SmbServer

Ask(disposition, writes, folder, plain, deletes) ==
    [disposition |-> disposition, writes |-> writes, folder |-> folder,
     plain |-> plain, deletes |-> deletes]
Open == Ask("OPEN", TRUE, FALSE, FALSE, FALSE)
CreateFile == Ask("CREATE", TRUE, FALSE, TRUE, FALSE)
Overwrite == Ask("OVERWRITE_IF", TRUE, FALSE, TRUE, TRUE)
OpenOrCreate == Ask("OPEN_IF", TRUE, FALSE, TRUE, FALSE)
Folder == Ask("OPEN_IF", FALSE, TRUE, FALSE, FALSE)

MCQueryRequests ==
    {[type |-> "file", class |-> "all", chars |-> 2, buffer |-> b] : b \in {100, 200}}
    \cup {[type |-> "fs", class |-> "quota", chars |-> 0, buffer |-> 100]}

Renames == [creates |-> {Open, Overwrite}, lists |-> {}, shares |-> {},
            names |-> Names,
            files |-> 2, handles |-> 2, trees |-> 1, frame |-> 1, faults |-> 1]
Listings == [creates |-> {Open, Folder},
             lists |-> {[class |-> "idFull", buffer |-> b] : b \in {80, 88, 200}}
                       \cup {[class |-> "full", buffer |-> 200]},
             shares |-> {},
            names |-> Names,
             files |-> 3, handles |-> 1, trees |-> 1, frame |-> 1, faults |-> 0]
Compounds == [creates |-> {OpenOrCreate, CreateFile}, lists |-> {}, shares |-> SUBSET Shares,
              names |-> {"a"},
              files |-> 1, handles |-> 2, trees |-> 2, frame |-> 2, faults |-> 0]
MCBounds == {Renames, Listings, Compounds}

\* No step depends on the answer recorded for the properties.
View == <<bound, hostVars, config, treeVars, handleVars, frame, faults,
          opened, stale, scan>>
=============================================================================
