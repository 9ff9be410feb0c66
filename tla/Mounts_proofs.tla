---------------------------- MODULE Mounts_proofs ----------------------------
(***************************************************************************)
(* That shares, handles and the guest agree, for any number of callers,    *)
(* connections and tries, any plan of boot-time mounts and any number of   *)
(* failures.                                                               *)
(*                                                                         *)
(* MountsInv says whose a share is (Unshared: one being mounted is nobody  *)
(* else's), what an answer says of the guest (Answered), and what of the   *)
(* table is published (Published).  A step of one coroutine is first put   *)
(* as Turns, what it makes of that coroutine's record, and what it does to *)
(* the tables as one of Adding, Removing and Stopping; each conjunct of    *)
(* the invariant then follows from these and from the guards.              *)
(***************************************************************************)
EXTENDS Mounts, TLAPS, FiniteSetTheorems

(***************************************************************************)
(* The inductive invariant.                                                *)
(***************************************************************************)
Cifs == {"cifs"} \X Nat
P9 == {"9p"} \X Nat
Mounting == {"mkdir", "mount", "pause"}
Busy == Mounting \cup {"umount", "undo"}
Places == Busy \cup {"idle", "settle", "join", "close", "done"}
Records == [at : Places, mount : {None} \cup Cifs \cup P9, tries : Nat,
            answer : {None, "ok", "bad", "raised"}, done : SUBSET (Cifs \cup P9)]

Types ==
    /\ session \in Sessions
    /\ running \in BOOLEAN /\ alive \in BOOLEAN /\ attached \in BOOLEAN
    /\ calls \in [Coroutines -> Records]
    /\ \A c \in Coroutines : calls[c].at \in Busy => calls[c].mount \in Cifs \cup P9
    /\ guest \subseteq Cifs \cup P9 /\ file \in BOOLEAN
    /\ named \in Nat

Finite == \A c \in Coroutines : IsFiniteSet(calls[c].done)

\* Every share was given its number by add_share; a caller's mount is a share.
Numbered ==
    /\ table \subseteq Named /\ stuck \subseteq Named /\ handles \subseteq Named
    /\ config \subseteq Named
    /\ guest \cap Cifs \subseteq Named /\ BootMounted \cap Cifs \subseteq Named
    /\ \A c \in Coroutines :
        calls[c].at \in Busy /\ calls[c].mount \in Cifs => calls[c].mount \in Named
    /\ \A c \in Callers : calls[c].at \in Busy => calls[c].mount \in Named

\* A share that is being mounted is nobody else's: no handle's, no other
\* call's, and not one of the boot-time mounts, which have no handles.
Unshared ==
    /\ \A c \in Coroutines : calls[c].at \in Mounting /\ calls[c].mount \in Cifs =>
        /\ calls[c].mount \notin handles /\ calls[c].mount \notin BootMounted
        /\ \A d \in Coroutines \ {c} :
            calls[d].at \in Busy => calls[d].mount # calls[c].mount
    /\ BootMounted \cap handles = {}
    /\ calls[Starter].at = "undo" => calls[Starter].mount \notin handles
    /\ calls[Starter].at = "settle" => BootMounted = {}

\* What an answer says of the guest.
Answered ==
    /\ ~alive => guest = {}
    /\ \A c \in Coroutines :
        /\ calls[c].at \in Busy /\ calls[c].answer = "raised" =>
                calls[c].mount \in loose \/ ~alive
        /\ calls[c].at \in Mounting /\ calls[c].mount \in Cifs =>
                \/ calls[c].at = "mount" /\ calls[c].answer = "ok"
                \/ calls[c].mount \notin guest
                \/ calls[c].mount \in loose
        /\ calls[c].at \in {"umount", "undo"} /\ calls[c].mount \in Cifs =>
                /\ calls[c].answer = "ok" => calls[c].mount \notin guest
                /\ calls[c].answer = "bad" => calls[c].mount \in loose

\* Only the end of the session takes the server away, and join() is the TCP
\* server's.
Serving ==
    /\ running => attached
    /\ \A c \in Coroutines : calls[c].at = "join" => ~running /\ kind = "tcp"

\* What is published is the table, as far as the server can see to it.
Published ==
    /\ kind # "windows" => /\ file <=> attached
                           /\ config = IF attached THEN table ELSE {}
    /\ kind = "windows" =>
        /\ table \subseteq config /\ config \subseteq table \cup stuck
        /\ ~attached => table \subseteq strays

\* While the sandbox runs a handle's share is in the table, and so is one that
\* is being mounted; one that is being unmounted has its handle yet, or has
\* gone already.
Listed ==
    running =>
        /\ handles \subseteq table
        /\ \A c \in Coroutines :
            /\ calls[c].at \in Mounting /\ calls[c].mount \in Cifs => calls[c].mount \in table
            /\ calls[c].at = "umount" => calls[c].mount \in handles \/ calls[c].mount \notin table

\* SharesHaveOwners and MountsAreServed, share by share.
Held(s) == \/ s \in handles \cup BootMounted \cup loose
           \/ \E c \in Coroutines : calls[c].at \in Busy /\ calls[c].mount = s
AllOwned ==
    running => \A s \in table : Held(s)
AllServed == attached => \A s \in guest \cap Cifs : s \in config \cup loose

\* Connections are the TCP server's; a late one came when the server was gone.
Dialled ==
    /\ conns \in [Conns -> {"none", "backlog", "accepted", "late", "serving", "closed"}]
    /\ \A k \in Conns : /\ conns[k] # "none" => kind = "tcp"
                        /\ conns[k] = "late" => ~attached

MountsInv == Types /\ Finite /\ Numbered /\ Unshared /\ Answered /\ Serving /\ Published /\ Listed
             /\ AllOwned /\ AllServed /\ Dialled


\* The shares named so far are pairs, and the next one is new.
LEMMA NamedFacts == ASSUME named \in Nat
                    PROVE  Named \subseteq Cifs /\ NewShare \in Cifs \ Named
<1>1. NewShare \in Cifs
  BY DEF NewShare, Cifs
<1>2. Named \subseteq Cifs
  BY DEF Named, Cifs
<1>3. ASSUME NewShare \in Named PROVE FALSE
  <2>1. PICK n \in 1 .. named : NewShare = <<"cifs", n>>
    BY <1>3 DEF Named
  <2> QED
    BY <2>1 DEF NewShare
<1> QED
  BY <1>1, <1>2, <1>3

LEMMA NamedNext == ASSUME named \in Nat, named' = named + 1
                   PROVE  Named' = Named \cup {NewShare}
<1>1. 1 .. named + 1 = (1 .. named) \cup {named + 1}
  OBVIOUS
<1> QED
  BY <1>1 DEF Named, NewShare

(***************************************************************************)
(* Steps of one coroutine.                                                 *)
(***************************************************************************)

\* One coroutine moves on; what the step makes of its record.
Turns(c, place, m, a, done) ==
    /\ calls' \in [Coroutines -> Records]
    /\ \A d \in Coroutines \ {c} : calls'[d] = calls[d]
    /\ calls'[c].at = place /\ calls'[c].mount = m
    /\ calls'[c].answer = a /\ calls'[c].done = done

\* A coroutine that reaches another await with its mount.
LEMMA TurnAt ==
    ASSUME calls \in [Coroutines -> Records], NEW c \in Coroutines, NEW place \in Places,
           calls' = At(c, place)
    PROVE  Turns(c, place, calls[c].mount, None, calls[c].done)
<1> DEFINE r == [calls[c] EXCEPT !.at = place, !.answer = None]
<1>1. r \in Records /\ calls' = [calls EXCEPT ![c] = r]
  BY DEF At, Records
<1>2. r.at = place /\ r.mount = calls[c].mount /\ r.answer = None /\ r.done = calls[c].done
  BY DEF Records
<1> HIDE DEF r
<1> QED
  BY <1>1, <1>2 DEF Turns

\* A coroutine that tries its mount.
LEMMA TurnTrying ==
    ASSUME calls \in [Coroutines -> Records], NEW c \in Coroutines, NEW n \in Nat,
           calls' = Trying(c, n)
    PROVE  Turns(c, "mount", calls[c].mount, None, calls[c].done)
<1> DEFINE r == [calls[c] EXCEPT !.at = "mount", !.answer = None, !.tries = n]
<1>1. r \in Records /\ calls' = [calls EXCEPT ![c] = r]
  BY DEF Trying, Records, Places, Busy, Mounting
<1>2. r.at = "mount" /\ r.mount = calls[c].mount /\ r.answer = None /\ r.done = calls[c].done
  BY DEF Records
<1> HIDE DEF r
<1> QED
  BY <1>1, <1>2 DEF Turns

\* A coroutine that is given an answer.
LEMMA TurnAnswer ==
    ASSUME calls \in [Coroutines -> Records], NEW c \in Coroutines,
           NEW a \in {"ok", "bad", "raised"},
           calls' = [calls EXCEPT ![c].answer = a]
    PROVE  Turns(c, calls[c].at, calls[c].mount, a, calls[c].done)
<1> DEFINE r == [calls[c] EXCEPT !.answer = a]
<1>1. r \in Records /\ calls' = [calls EXCEPT ![c] = r]
  BY DEF Records
<1>2. r.at = calls[c].at /\ r.mount = calls[c].mount /\ r.answer = a /\ r.done = calls[c].done
  BY DEF Records
<1> HIDE DEF r
<1> QED
  BY <1>1, <1>2 DEF Turns

\* A coroutine that begins with another mount.
LEMMA TurnNew ==
    ASSUME calls \in [Coroutines -> Records], NEW c \in Coroutines, NEW place \in Busy,
           NEW m \in Cifs \cup P9, NEW done \in SUBSET (Cifs \cup P9),
           calls' = [calls EXCEPT ![c] = [Idle EXCEPT !.at = place, !.mount = m,
           !.done = done]]
    PROVE  Turns(c, place, m, None, done)
<1> DEFINE r == [Idle EXCEPT !.at = place, !.mount = m, !.done = done]
<1>1. Idle \in Records /\ Idle.answer = None
  BY DEF Idle, Records, Places
<1>2. r \in Records /\ calls' = [calls EXCEPT ![c] = r]
  BY <1>1 DEF Records, Places
<1>3. r.at = place /\ r.mount = m /\ r.answer = None /\ r.done = done
  BY <1>1 DEF Records
<1> HIDE DEF r
<1> QED
  BY <1>2, <1>3 DEF Turns

\* A caller that begins a call.
LEMMA TurnFresh ==
    ASSUME calls \in [Coroutines -> Records], NEW c \in Coroutines, NEW place \in Busy,
           NEW m \in Cifs,
           calls' = [calls EXCEPT ![c] = [Idle EXCEPT !.at = place, !.mount = m]]
    PROVE  Turns(c, place, m, None, {})
<1> DEFINE r == [Idle EXCEPT !.at = place, !.mount = m]
<1>1. Idle \in Records /\ Idle.answer = None /\ Idle.done = {}
  BY DEF Idle, Records, Places
<1>2. r \in Records /\ calls' = [calls EXCEPT ![c] = r]
  BY <1>1 DEF Records, Places
<1>3. r.at = place /\ r.mount = m /\ r.answer = None /\ r.done = {}
  BY <1>1 DEF Records
<1> HIDE DEF r
<1> QED
  BY <1>2, <1>3 DEF Turns

(***************************************************************************)
(* The servers' tables.                                                    *)
(***************************************************************************)

\* A share more, in the table and, while the server is up, published.
LEMMA Adding ==
    ASSUME Types, Numbered, Published, AddShare(NewShare), session' = session,
           attached' = attached, strays \subseteq strays', attached \/ kind # "windows" \/ NewShare \in strays'
    PROVE  /\ table' = table \cup {NewShare} /\ named' = named + 1
           /\ Named' = Named \cup {NewShare}
           /\ config \subseteq config' /\ config' \subseteq config \cup {NewShare}
           /\ stuck' = stuck /\ file' = file /\ Published'
<1>1. /\ table' = table \cup {NewShare} /\ named' = named + 1
      /\ stuck' = stuck /\ file' = file
  BY DEF AddShare, AddListed, AddWindows
<1>2. CASE kind # "windows"
  <2>1. config' = IF file THEN table \cup {NewShare} ELSE config
    BY <1>2, <1>1 DEF AddShare, AddListed, Publish
  <2>2. Published'
    BY <1>1, <1>2, <2>1 DEF Types, Published, kind
  <2> QED
    BY <1>1, <1>2, <2>1, <2>2, NamedNext DEF Types, Published
<1>3. CASE kind = "windows"
  <2>1. config' = config \cup {NewShare}
    BY <1>3 DEF AddShare, AddWindows
  <2> QED
    BY <1>1, <1>3, <2>1, NamedNext DEF Types, Published, kind
<1> QED
  BY <1>2, <1>3

\* Shares less: what Windows kept of them is stuck.
LEMMA Removing ==
    ASSUME Types, Published, NEW gone, RemoveShares(gone), session' = session,
           attached' = attached, strays \subseteq strays'
    PROVE  /\ table' = table \ gone
           /\ config' \subseteq config /\ config \ gone \subseteq config'
           /\ stuck' \subseteq stuck \cup config /\ file' = file /\ Published'
<1>1. CASE kind # "windows"
  BY <1>1 DEF RemoveShares, RemoveListed, Publish, Types, Published, kind
<1>2. CASE kind = "windows"
  BY <1>2 DEF RemoveShares, RemoveWindows, Types, Published, kind
<1> QED
  BY <1>1, <1>2

\* The end of a server.
LEMMA Stopping ==
    ASSUME Types, Published, StopServer, session' = session, attached' = FALSE,
           strays \subseteq strays'
    PROVE  /\ table' = {} /\ config' \subseteq config
           /\ stuck' \subseteq stuck \cup config /\ file' \in BOOLEAN /\ Published'
<1>1. CASE kind # "windows"
  BY <1>1 DEF StopServer, StopListed, Types, Published, kind
<1>2. CASE kind = "windows"
  BY <1>2 DEF StopServer, RemoveWindows, Types, Published, kind
<1> QED
  BY <1>1, <1>2

\* The guest carries out a command and answers.
LEMMA GuestAnswersStep ==
    ASSUME MountsInv, NEW c \in Coroutines, GuestAnswers(c)
    PROVE  MountsInv'
<1>1. Turns(c, calls[c].at, calls[c].mount, "ok", calls[c].done)
  BY TurnAnswer DEF MountsInv, Types, GuestAnswers
<1>2. /\ alive /\ calls[c].at \in Busy \ {"pause"} /\ calls[c].answer = None
      /\ calls[c].at = "mount" => calls[c].mount \in config \cup P9
      /\ guest' = IF calls[c].at = "mkdir" THEN guest ELSE
                  IF calls[c].at = "mount" THEN guest \cup {calls[c].mount}
                  ELSE guest \ {calls[c].mount}
  BY DEF MountsInv, Types, GuestAnswers, Works, CanMount, Awaiting, Busy, Mounting, Cifs,
     P9
<1>3. UNCHANGED <<session, running, alive, attached, table, config, file, handles, stuck,
                  named, conns, loose, strays>>
  BY DEF GuestAnswers, sandbox, server, threads
<1>4. Named' = Named
  BY <1>3 DEF Named
<1>5. Types'
  BY <1>1, <1>2, <1>3 DEF MountsInv, Turns, Types
<1>6. Finite'
  BY <1>1 DEF MountsInv, Turns, Finite
<1>7. Numbered'
  BY <1>1, <1>2, <1>3, <1>4 DEF MountsInv, Turns, Numbered, BootMounted, Coroutines
<1>8. Unshared'
  BY <1>1, <1>3 DEF MountsInv, Turns, Unshared, BootMounted, Coroutines
<1>9. Answered'
  BY <1>1, <1>2, <1>3 DEF MountsInv, Turns, Answered, Unshared, Busy
<1>10. Serving'
  BY <1>1, <1>3 DEF MountsInv, Turns, Serving, kind
<1>11. Published'
  BY <1>3 DEF MountsInv, Published, kind
<1>12. Listed'
  BY <1>1, <1>3 DEF MountsInv, Turns, Listed
<1>13. AllOwned'
  BY <1>1, <1>3 DEF MountsInv, Turns, AllOwned, Held, BootMounted, Coroutines
<1>14. AllServed'
  BY <1>2, <1>3 DEF MountsInv, AllServed, Cifs, P9
<1>15. Dialled'
  BY <1>3 DEF MountsInv, Dialled, kind
<1> QED
  BY <1>5, <1>6, <1>7, <1>8, <1>9, <1>10, <1>11, <1>12, <1>13, <1>14, <1>15 DEF MountsInv

\* The guest answers with a failure.
LEMMA GuestRefusesStep ==
    ASSUME MountsInv, NEW c \in Coroutines, GuestRefuses(c)
    PROVE  MountsInv'
<1>1. Turns(c, calls[c].at, calls[c].mount, "bad", calls[c].done)
  BY TurnAnswer DEF MountsInv, Types, GuestRefuses
<1>2. /\ calls[c].at \in Busy \ {"pause"} /\ calls[c].answer = None /\ loose \subseteq loose'
      /\ calls[c].at \in {"umount", "undo"} => calls[c].mount \in loose'
  BY DEF GuestRefuses, Awaiting, Busy, Mounting
<1>3. UNCHANGED <<session, running, alive, attached, table, config, file, handles, guest,
                  stuck, named, conns, strays>>
  BY DEF GuestRefuses, sandbox, server, threads
<1>4. Named' = Named
  BY <1>3 DEF Named
<1>5. Types'
  BY <1>1, <1>3 DEF MountsInv, Turns, Types
<1>6. Finite'
  BY <1>1 DEF MountsInv, Turns, Finite
<1>7. Numbered'
  BY <1>1, <1>3, <1>4 DEF MountsInv, Turns, Numbered, BootMounted, Coroutines
<1>8. Unshared'
  BY <1>1, <1>3 DEF MountsInv, Turns, Unshared, BootMounted, Coroutines
<1>9. Answered'
  BY <1>1, <1>2, <1>3, MountsAssumption DEF MountsInv, Turns, Answered
<1>10. Serving'
  BY <1>1, <1>3 DEF MountsInv, Turns, Serving, kind
<1>11. Published'
  BY <1>2, <1>3 DEF MountsInv, Published, kind
<1>12. Listed'
  BY <1>1, <1>3 DEF MountsInv, Turns, Listed
<1>13. AllOwned'
  BY <1>1, <1>2, <1>3 DEF MountsInv, Turns, AllOwned, Held, BootMounted, Coroutines
<1>14. AllServed'
  BY <1>2, <1>3 DEF MountsInv, AllServed
<1>15. Dialled'
  BY <1>3 DEF MountsInv, Dialled, kind
<1> QED
  BY <1>5, <1>6, <1>7, <1>8, <1>9, <1>10, <1>11, <1>12, <1>13, <1>14, <1>15 DEF MountsInv

\* Whatever the guest did of a command, only a mount adds to what is mounted.
LEMMA OutcomesFacts ==
    ASSUME NEW c, NEW g \in Outcomes(c)
    PROVE  /\ g \subseteq guest \cup {calls[c].mount}
           /\ calls[c].at # "mount" => g \subseteq guest
           /\ g # guest => alive
           /\ calls[c].at = "settle" => g = guest
<1>1. g = guest \/ (g = Works(c) /\ alive /\ calls[c].at \in Awaiting)
  BY DEF Outcomes, Waits
<1>2. CASE g = guest
  BY <1>2
<1>3. CASE g = Works(c) /\ alive /\ calls[c].at \in Awaiting
  BY <1>3 DEF Works, Awaiting
<1> QED
  BY <1>1, <1>2, <1>3

\* An answer is lost: the mount is nobody's business any more.
LEMMA AnswerLostStep ==
    ASSUME MountsInv, NEW c \in Coroutines, AnswerLost(c)
    PROVE  MountsInv'
<1>1. Turns(c, calls[c].at, calls[c].mount, "raised", calls[c].done)
  BY TurnAnswer DEF MountsInv, Types, AnswerLost
<1>2. /\ calls[c].at \in Busy \ {"pause"} /\ calls[c].answer = None
      /\ loose' = loose \cup {calls[c].mount}
  BY DEF AnswerLost, Waits, Awaiting, Busy, Mounting
<1>3. /\ guest' \subseteq guest \cup {calls[c].mount}
      /\ calls[c].at # "mount" => guest' \subseteq guest
      /\ guest' # guest => alive
  BY OutcomesFacts DEF AnswerLost
<1>4. UNCHANGED <<session, running, alive, attached, table, config, file, handles, stuck,
                  named, conns, strays>>
  BY DEF AnswerLost, sandbox, server, threads
<1>5. Named' = Named
  BY <1>4 DEF Named
<1>6. Types'
  BY <1>1, <1>3, <1>4 DEF MountsInv, Turns, Types, Busy, Mounting
<1>7. Finite'
  BY <1>1 DEF MountsInv, Turns, Finite
<1>8. Numbered'
  BY <1>1, <1>3, <1>4, <1>5 DEF MountsInv, Turns, Numbered, BootMounted, Busy, Mounting,
     Coroutines
<1>9. Unshared'
  BY <1>1, <1>4 DEF MountsInv, Turns, Unshared, BootMounted, Coroutines
<1>10. Answered'
  BY <1>1, <1>2, <1>3, <1>4 DEF MountsInv, Turns, Answered, Unshared, Busy
<1>11. Serving'
  BY <1>1, <1>4 DEF MountsInv, Turns, Serving, kind
<1>12. Published'
  BY <1>2, <1>4 DEF MountsInv, Published, kind
<1>13. Listed'
  BY <1>1, <1>4 DEF MountsInv, Turns, Listed
<1>14. AllOwned'
  BY <1>1, <1>2, <1>4 DEF MountsInv, Turns, AllOwned, Held, BootMounted, Coroutines
<1>15. AllServed'
  BY <1>2, <1>3, <1>4 DEF MountsInv, AllServed
<1>16. Dialled'
  BY <1>4 DEF MountsInv, Dialled, kind
<1> QED
  BY <1>6, <1>7, <1>8, <1>9, <1>10, <1>11, <1>12, <1>13, <1>14, <1>15, <1>16 DEF MountsInv

\* QEMU dies, and whoever waits is told.
LEMMA QemuDiesStep ==
    ASSUME MountsInv, QemuDies
    PROVE  MountsInv'
<1>1. /\ calls' \in [Coroutines -> Records]
      /\ \A d \in Coroutines :
          /\ calls'[d].at = calls[d].at /\ calls'[d].mount = calls[d].mount
          /\ calls'[d].done = calls[d].done
          /\ calls'[d].answer \in {calls[d].answer, "raised"}
  BY DEF QemuDies, Unanswered, Awaiting, MountsInv, Types, Records
<1>2. alive' = FALSE /\ guest' = {}
  BY DEF QemuDies
<1>3. UNCHANGED <<session, running, attached, table, config, file, handles, stuck, named,
                  conns, loose, strays>>
  BY DEF QemuDies, sandbox, server, threads
<1>4. Named' = Named
  BY <1>3 DEF Named
<1>5. Types'
  BY <1>1, <1>2, <1>3, <1>4 DEF MountsInv, Turns, Types, Busy, Mounting, Coroutines
<1>6. Finite'
  BY <1>1 DEF MountsInv, Finite
<1>7. Numbered'
  BY <1>1, <1>2, <1>3, <1>4 DEF MountsInv, Numbered, BootMounted, Coroutines
<1>8. Unshared'
  BY <1>1, <1>3 DEF MountsInv, Unshared, BootMounted, Coroutines
<1>9. Answered'
  BY <1>1, <1>2, <1>3 DEF MountsInv, Answered
<1>10. Serving'
  BY <1>1, <1>3 DEF MountsInv, Serving, kind
<1>11. Published'
  BY <1>3 DEF MountsInv, Published, kind
<1>12. Listed'
  BY <1>1, <1>3 DEF MountsInv, Listed
<1>13. AllOwned'
  BY <1>1, <1>3 DEF MountsInv, AllOwned, Held, BootMounted, Coroutines
<1>14. AllServed'
  BY <1>2 DEF AllServed
<1>15. Dialled'
  BY <1>3 DEF MountsInv, Dialled, kind
<1> QED
  BY <1>5, <1>6, <1>7, <1>8, <1>9, <1>10, <1>11, <1>12, <1>13, <1>14, <1>15 DEF MountsInv

\* mount() names a share, which is new to everybody.
LEMMA MountStep ==
    ASSUME MountsInv, NEW c \in Callers, Mount(c)
    PROVE  MountsInv'
<1>1. c \in Coroutines /\ c # Starter
  BY MountsAssumption DEF Coroutines
<1>2. NewShare \in Cifs \ Named
  BY NamedFacts DEF MountsInv, Types
<1>3. Turns(c, "mkdir", NewShare, None, {})
  BY <1>1, <1>2, TurnFresh DEF MountsInv, Types, Mount, Busy, Mounting
<1>4. /\ calls[c].at \in {"idle", "done"} /\ running /\ attached
  BY DEF MountsInv, Serving, Mount, IsRunning
<1>5. UNCHANGED <<session, running, alive, attached, handles, guest, conns, loose, strays>>
  BY DEF Mount, sandbox, threads
<1>6. /\ table' = table \cup {NewShare} /\ named' = named + 1
      /\ Named' = Named \cup {NewShare}
      /\ config \subseteq config' /\ config' \subseteq config \cup {NewShare}
      /\ stuck' = stuck /\ file' = file /\ Published'
  BY <1>4, <1>5, Adding DEF MountsInv, Mount
<1>7. Types'
  BY <1>2, <1>3, <1>5, <1>6 DEF MountsInv, Turns, Types
<1>8. Finite'
  BY <1>1, <1>2, <1>3, <1>4, <1>5, <1>6, FS_EmptySet DEF MountsInv, Turns, Finite,
     Coroutines
<1>9. Numbered'
  BY <1>3, <1>5, <1>6 DEF MountsInv, Turns, Numbered, BootMounted, Coroutines
<1>10. Unshared'
  BY <1>2, <1>3, <1>5 DEF MountsInv, Turns, Unshared, Numbered, BootMounted, Busy,
     Coroutines
<1>11. Answered'
  BY <1>2, <1>3, <1>5, MountsAssumption DEF MountsInv, Turns, Answered, Numbered
<1>12. Serving'
  BY <1>3, <1>5 DEF MountsInv, Turns, Serving, kind
<1>13. Published'
  BY <1>6
<1>14. Listed'
  BY <1>2, <1>3, <1>5, <1>6 DEF MountsInv, Turns, Listed, Numbered, Busy
<1>15. AllOwned'
  BY <1>1, <1>3, <1>4, <1>5, <1>6 DEF MountsInv, Turns, AllOwned, Held, BootMounted,
     Busy, Mounting, Coroutines
<1>16. AllServed'
  BY <1>5, <1>6 DEF MountsInv, AllServed
<1>17. Dialled'
  BY <1>5 DEF MountsInv, Dialled, kind
<1> QED
  BY <1>7, <1>8, <1>9, <1>10, <1>11, <1>12, <1>13, <1>14, <1>15, <1>16,
     <1>17 DEF MountsInv

\* The next try of a mount.
LEMMA NextTryStep ==
    ASSUME MountsInv, NEW c \in Coroutines, NextTry(c)
    PROVE  MountsInv'
<1>1. Turns(c, "mount", calls[c].mount, None, calls[c].done)
  BY TurnTrying DEF MountsInv, Types, NextTry, Records
<1>2. calls[c].at \in {"mkdir", "pause"}
  BY DEF NextTry
<1>3. UNCHANGED <<session, running, alive, attached, table, config, file, handles, guest,
                  stuck, named, conns, loose, strays>>
  BY DEF NextTry, sandbox, server, threads
<1>4. Named' = Named
  BY <1>3 DEF Named
<1>5. Types'
  BY <1>1, <1>2, <1>3 DEF MountsInv, Turns, Types, Busy, Mounting
<1>6. Finite'
  BY <1>1 DEF MountsInv, Turns, Finite
<1>7. Numbered'
  BY <1>1, <1>2, <1>3, <1>4 DEF MountsInv, Turns, Numbered, BootMounted, Busy, Mounting,
     Coroutines
<1>8. Unshared'
  BY <1>1, <1>2, <1>3 DEF MountsInv, Turns, Unshared, BootMounted, Busy, Mounting,
     Coroutines
<1>9. Answered'
  BY <1>1, <1>2, <1>3, MountsAssumption DEF MountsInv, Turns, Answered, Mounting
<1>10. Serving'
  BY <1>1, <1>3 DEF MountsInv, Turns, Serving, kind
<1>11. Published'
  BY <1>3 DEF MountsInv, Published, kind
<1>12. Listed'
  BY <1>1, <1>2, <1>3 DEF MountsInv, Turns, Listed, Mounting
<1>13. AllOwned'
  BY <1>1, <1>2, <1>3 DEF MountsInv, Turns, AllOwned, Held, BootMounted, Busy, Mounting,
     Coroutines
<1>14. AllServed'
  BY <1>3 DEF MountsInv, AllServed
<1>15. Dialled'
  BY <1>3 DEF MountsInv, Dialled, kind
<1> QED
  BY <1>5, <1>6, <1>7, <1>8, <1>9, <1>10, <1>11, <1>12, <1>13, <1>14, <1>15 DEF MountsInv

\* The pause after a try that failed.
LEMMA PauseStep ==
    ASSUME MountsInv, NEW c \in Coroutines, Pause(c)
    PROVE  MountsInv'
<1>1. Turns(c, "pause", calls[c].mount, None, calls[c].done)
  BY TurnAt DEF MountsInv, Types, Pause, Places, Busy, Mounting
<1>2. calls[c].at = "mount" /\ calls[c].answer = "bad"
  BY DEF Pause
<1>3. UNCHANGED <<session, running, alive, attached, table, config, file, handles, guest,
                  stuck, named, conns, loose, strays>>
  BY DEF Pause, sandbox, server, threads
<1>4. Named' = Named
  BY <1>3 DEF Named
<1>5. Types'
  BY <1>1, <1>2, <1>3 DEF MountsInv, Turns, Types, Busy, Mounting
<1>6. Finite'
  BY <1>1 DEF MountsInv, Turns, Finite
<1>7. Numbered'
  BY <1>1, <1>2, <1>3, <1>4 DEF MountsInv, Turns, Numbered, BootMounted, Busy, Mounting,
     Coroutines
<1>8. Unshared'
  BY <1>1, <1>2, <1>3 DEF MountsInv, Turns, Unshared, BootMounted, Busy, Mounting,
     Coroutines
<1>9. Answered'
  BY <1>1, <1>2, <1>3, MountsAssumption DEF MountsInv, Turns, Answered, Mounting
<1>10. Serving'
  BY <1>1, <1>3 DEF MountsInv, Turns, Serving, kind
<1>11. Published'
  BY <1>3 DEF MountsInv, Published, kind
<1>12. Listed'
  BY <1>1, <1>2, <1>3 DEF MountsInv, Turns, Listed, Mounting
<1>13. AllOwned'
  BY <1>1, <1>2, <1>3 DEF MountsInv, Turns, AllOwned, Held, BootMounted, Busy, Mounting,
     Coroutines
<1>14. AllServed'
  BY <1>3 DEF MountsInv, AllServed
<1>15. Dialled'
  BY <1>3 DEF MountsInv, Dialled, kind
<1> QED
  BY <1>5, <1>6, <1>7, <1>8, <1>9, <1>10, <1>11, <1>12, <1>13, <1>14, <1>15 DEF MountsInv

\* A mount that succeeded gets its handle.
LEMMA MountedStep ==
    ASSUME MountsInv, NEW c \in Callers, Mounted(c)
    PROVE  MountsInv'
<1>1. c \in Coroutines /\ c # Starter
  BY MountsAssumption DEF Coroutines
<1>2. Turns(c, "done", calls[c].mount, None, calls[c].done)
  BY <1>1, TurnAt DEF MountsInv, Types, Mounted, Places, Busy, Mounting
<1>3. /\ calls[c].at = "mount" /\ handles' = handles \cup {calls[c].mount}
      /\ calls[c].mount \in Named
  BY DEF MountsInv, Numbered, Mounted, Busy, Mounting
<1>4. calls[c].mount \in Cifs
  BY <1>3, NamedFacts DEF MountsInv, Types
<1>5. UNCHANGED <<session, running, alive, attached, table, config, file, guest, stuck,
                  named, conns, loose, strays>>
  BY DEF Mounted, sandbox, server, threads
<1>6. Named' = Named
  BY <1>5 DEF Named
<1>7. Types'
  BY <1>2, <1>5 DEF MountsInv, Turns, Types, Busy, Mounting
<1>8. Finite'
  BY <1>2 DEF MountsInv, Turns, Finite
<1>9. Numbered'
  BY <1>2, <1>3, <1>5, <1>6 DEF MountsInv, Turns, Numbered, BootMounted, Coroutines
<1>10. Unshared'
  BY <1>2, <1>3, <1>4 DEF MountsInv, Turns, Unshared, BootMounted, Busy, Mounting,
     Coroutines
<1>11. Answered'
  BY <1>2, <1>5 DEF MountsInv, Turns, Answered, Busy, Mounting
<1>12. Serving'
  BY <1>2, <1>5 DEF MountsInv, Turns, Serving, kind
<1>13. Published'
  BY <1>5 DEF MountsInv, Published, kind
<1>14. Listed'
  BY <1>2, <1>3, <1>4, <1>5 DEF MountsInv, Turns, Listed, Mounting, Coroutines
<1>15. AllOwned'
  BY <1>2, <1>3, <1>5 DEF MountsInv, Turns, AllOwned, Held, BootMounted, Coroutines
<1>16. AllServed'
  BY <1>5 DEF MountsInv, AllServed
<1>17. Dialled'
  BY <1>5 DEF MountsInv, Dialled, kind
<1> QED
  BY <1>7, <1>8, <1>9, <1>10, <1>11, <1>12, <1>13, <1>14, <1>15, <1>16,
     <1>17 DEF MountsInv

\* A mount that failed takes its share back: it is not mounted in the guest, or loose.
LEMMA MountFailsStep ==
    ASSUME MountsInv, NEW c \in Callers, MountFails(c)
    PROVE  MountsInv'
<1>1. c \in Coroutines /\ c # Starter
  BY MountsAssumption DEF Coroutines
<1>2. Turns(c, "done", calls[c].mount, None, calls[c].done)
  BY <1>1, TurnAt DEF MountsInv, Types, MountFails, Places, Busy, Mounting
<1>3. calls[c].at \in Mounting /\ ~(calls[c].at = "mount" /\ calls[c].answer = "ok")
  BY DEF MountFails, MountRaises, Mounting
<1>4. calls[c].mount \in Named
  BY <1>3 DEF MountsInv, Numbered, Busy
<1>5. calls[c].mount \in Cifs
  BY <1>4, NamedFacts DEF MountsInv, Types
<1>6. UNCHANGED <<session, running, alive, attached, handles, guest, named, conns, loose, strays>>
  BY DEF MountFails, sandbox, threads
<1>7. /\ table' = table \ {calls[c].mount}
      /\ config' \subseteq config /\ config \ {calls[c].mount} \subseteq config'
      /\ stuck' \subseteq stuck \cup config /\ file' = file /\ Published'
  BY <1>6, Removing DEF MountsInv, MountFails
<1>8. Named' = Named
  BY <1>6 DEF Named
<1>9. Types'
  BY <1>2, <1>6, <1>7 DEF MountsInv, Turns, Types, Busy, Mounting
<1>10. Finite'
  BY <1>2 DEF MountsInv, Turns, Finite
<1>11. Numbered'
  BY <1>2, <1>6, <1>7, <1>8 DEF MountsInv, Turns, Numbered, BootMounted, Busy, Mounting,
     Coroutines
<1>12. Unshared'
  BY <1>2, <1>6 DEF MountsInv, Turns, Unshared, BootMounted, Busy, Mounting, Coroutines
<1>13. Answered'
  BY <1>2, <1>6 DEF MountsInv, Turns, Answered, Busy, Mounting
<1>14. Serving'
  BY <1>2, <1>6 DEF MountsInv, Turns, Serving, kind
<1>15. Published'
  BY <1>7
<1>16. Listed'
  BY <1>2, <1>3, <1>5, <1>6, <1>7 DEF MountsInv, Turns, Listed, Unshared, Busy, Mounting,
     Coroutines
<1>17. AllOwned'
  BY <1>2, <1>3, <1>6, <1>7 DEF MountsInv, Turns, AllOwned, Held, BootMounted, Mounting,
     Coroutines
<1>18. AllServed'
  BY <1>2, <1>3, <1>6, <1>7 DEF MountsInv, Turns, AllServed, Types, Answered, Mounting
<1>19. Dialled'
  BY <1>6 DEF MountsInv, Dialled, kind
<1> QED
  BY <1>9, <1>10, <1>11, <1>12, <1>13, <1>14, <1>15, <1>16, <1>17, <1>18,
     <1>19 DEF MountsInv

\* A call that is cancelled takes nothing back: its mount is loose.
LEMMA CancelStep ==
    ASSUME MountsInv, NEW c \in Coroutines, Cancel(c)
    PROVE  MountsInv'
<1>1. Turns(c, "done", calls[c].mount, None, calls[c].done)
  BY TurnAt DEF MountsInv, Types, Cancel, Places
<1>2. /\ calls[c].at \in Busy \cup {"settle"} /\ loose \subseteq loose'
      /\ calls[c].at \in Busy => calls[c].at = "umount" \/ calls[c].mount \in loose'
  BY DEF Cancel, Awaiting, Busy, Mounting
<1>3. /\ guest' \subseteq guest \cup {calls[c].mount}
      /\ calls[c].at # "mount" => guest' \subseteq guest
      /\ guest' # guest => alive
      /\ calls[c].at = "settle" => guest' = guest
  BY OutcomesFacts DEF Cancel
<1>4. UNCHANGED <<session, running, alive, attached, table, config, file, handles, stuck,
                  named, conns, strays>>
  BY DEF Cancel, sandbox, server, threads
<1>5. Named' = Named
  BY <1>4 DEF Named
<1>6. Types'
  BY <1>1, <1>2, <1>3, <1>4 DEF MountsInv, Turns, Types, Busy, Mounting
<1>7. Finite'
  BY <1>1 DEF MountsInv, Turns, Finite
<1>8. Numbered'
  BY <1>1, <1>2, <1>3, <1>4, <1>5 DEF MountsInv, Turns, Numbered, BootMounted, Busy,
     Mounting, Coroutines
<1>9. Unshared'
  BY <1>1, <1>4 DEF MountsInv, Turns, Unshared, BootMounted, Busy, Mounting, Coroutines
<1>10. Answered'
  BY <1>1, <1>2, <1>3, <1>4 DEF MountsInv, Turns, Answered, Unshared, Busy, Mounting
<1>11. Serving'
  BY <1>1, <1>4 DEF MountsInv, Turns, Serving, kind
<1>12. Published'
  BY <1>4 DEF MountsInv, Published, kind
<1>13. Listed'
  BY <1>1, <1>4 DEF MountsInv, Turns, Listed, Mounting
<1>14. AllOwned'
  BY <1>1, <1>2, <1>4 DEF MountsInv, Turns, AllOwned, Listed, Held, BootMounted, Busy,
     Coroutines
<1>15. AllServed'
  BY <1>2, <1>3, <1>4 DEF MountsInv, AllServed, Busy, Mounting
<1>16. Dialled'
  BY <1>4 DEF MountsInv, Dialled, kind
<1> QED
  BY <1>6, <1>7, <1>8, <1>9, <1>10, <1>11, <1>12, <1>13, <1>14, <1>15, <1>16 DEF MountsInv

\* unmount() of a handle, or of one another unmount() has not dropped yet.
LEMMA UnmountStep ==
    ASSUME MountsInv, NEW c \in Callers, Unmount(c)
    PROVE  MountsInv'
<1>1. c \in Coroutines /\ c # Starter
  BY MountsAssumption DEF Coroutines
<1>2. PICK s \in Named :
        /\ s \in handles \/ \E d \in Callers : calls[d].at = "umount" /\ calls[d].mount = s
        /\ calls' = [calls EXCEPT ![c] = [Idle EXCEPT !.at = "umount", !.mount = s]]
  BY DEF Unmount
<1>3. s \in Cifs
  BY NamedFacts DEF MountsInv, Types
<1>4. Turns(c, "umount", s, None, {})
  BY <1>1, <1>2, <1>3, TurnFresh DEF MountsInv, Types, Busy
<1>5. calls[c].at \in {"idle", "done"}
  BY DEF Unmount
<1>6. UNCHANGED <<session, running, alive, attached, table, config, file, handles, guest,
                  stuck, named, conns, loose, strays>>
  BY DEF Unmount, sandbox, server, threads
<1>7. Named' = Named
  BY <1>6 DEF Named
<1>8. Types'
  BY <1>3, <1>4, <1>6 DEF MountsInv, Turns, Types
<1>9. Finite'
  BY <1>1, <1>3, <1>4, <1>5, <1>6, FS_EmptySet DEF MountsInv, Turns, Finite
<1>10. Numbered'
  BY <1>4, <1>6, <1>7 DEF MountsInv, Turns, Numbered, BootMounted, Coroutines
<1>11. Unshared'
  BY <1>2, <1>4, <1>6 DEF MountsInv, Turns, Unshared, BootMounted, Mounting, Coroutines
<1>12. Answered'
  BY <1>4, <1>6, MountsAssumption DEF MountsInv, Turns, Answered, Mounting
<1>13. Serving'
  BY <1>4, <1>6 DEF MountsInv, Turns, Serving, kind
<1>14. Published'
  BY <1>6 DEF MountsInv, Published, kind
<1>15. Listed'
  BY <1>2, <1>6 DEF MountsInv, Listed, Coroutines
<1>16. AllOwned'
  BY <1>1, <1>4, <1>5, <1>6 DEF MountsInv, Turns, AllOwned, Held, BootMounted, Busy,
     Mounting, Coroutines
<1>17. AllServed'
  BY <1>6 DEF MountsInv, AllServed
<1>18. Dialled'
  BY <1>6 DEF MountsInv, Dialled, kind
<1> QED
  BY <1>8, <1>9, <1>10, <1>11, <1>12, <1>13, <1>14, <1>15, <1>16, <1>17,
     <1>18 DEF MountsInv

\* After its umount a handle is dropped with its share.
LEMMA UnmountedStep ==
    ASSUME MountsInv, NEW c \in Callers, Unmounted(c)
    PROVE  MountsInv'
<1>1. c \in Coroutines /\ c # Starter
  BY MountsAssumption DEF Coroutines
<1>2. Turns(c, "done", calls[c].mount, None, calls[c].done)
  BY <1>1, TurnAt DEF MountsInv, Types, Unmounted, Places, Busy, Mounting
<1>3. /\ calls[c].at = "umount" /\ calls[c].answer \in {"ok", "bad"}
      /\ handles' = handles \ {calls[c].mount}
  BY DEF Unmounted
<1>4. calls[c].mount \in Cifs
  BY <1>3, NamedFacts DEF MountsInv, Types, Numbered, Busy
<1>5. UNCHANGED <<session, running, alive, attached, guest, named, conns, loose, strays>>
  BY DEF Unmounted, threads
<1>6. \/ /\ table' = table \ {calls[c].mount}
         /\ config' \subseteq config /\ config \ {calls[c].mount} \subseteq config'
         /\ stuck' \subseteq stuck \cup config /\ file' = file /\ Published'
      \/ ~attached /\ UNCHANGED <<table, config, file, stuck>>
  BY <1>5, Removing DEF MountsInv, Unmounted
<1>7. Named' = Named
  BY <1>5 DEF Named
<1>8. Types'
  BY <1>2, <1>5, <1>6 DEF MountsInv, Turns, Types, Busy, Mounting
<1>9. Finite'
  BY <1>2 DEF MountsInv, Turns, Finite
<1>10. Numbered'
  BY <1>2, <1>3, <1>5, <1>6, <1>7 DEF MountsInv, Turns, Numbered, BootMounted, Busy,
     Coroutines
<1>11. Unshared'
  BY <1>2, <1>3 DEF MountsInv, Turns, Unshared, BootMounted, Busy, Mounting, Coroutines
<1>12. Answered'
  BY <1>2, <1>5 DEF MountsInv, Turns, Answered, Busy, Mounting
<1>13. Serving'
  BY <1>2, <1>5 DEF MountsInv, Turns, Serving, kind
<1>14. Published'
  BY <1>5, <1>6 DEF MountsInv, Published, kind
<1>15. Listed'
  BY <1>2, <1>3, <1>5, <1>6 DEF MountsInv, Turns, Listed, Unshared, Serving, Mounting,
     Coroutines
<1>16. AllOwned'
  BY <1>2, <1>3, <1>5, <1>6 DEF MountsInv, Turns, AllOwned, Serving, Held, BootMounted,
     Coroutines
<1>17. AllServed'
  BY <1>2, <1>3, <1>5, <1>6 DEF MountsInv, Turns, AllServed, Types, Answered
<1>18. Dialled'
  BY <1>5 DEF MountsInv, Dialled, kind
<1> QED
  BY <1>8, <1>9, <1>10, <1>11, <1>12, <1>13, <1>14, <1>15, <1>16, <1>17,
     <1>18 DEF MountsInv

\* An umount without an answer: the mount is loose, or the handle is still there.
LEMMA UnmountRaisesStep ==
    ASSUME MountsInv, NEW c \in Callers, UnmountRaises(c)
    PROVE  MountsInv'
<1>1. c \in Coroutines /\ c # Starter
  BY MountsAssumption DEF Coroutines
<1>2. Turns(c, "done", calls[c].mount, None, calls[c].done)
  BY <1>1, TurnAt DEF MountsInv, Types, UnmountRaises, Places, Busy, Mounting
<1>3. calls[c].at = "umount" /\ calls[c].answer = "raised"
  BY DEF UnmountRaises
<1>4. UNCHANGED <<session, running, alive, attached, table, config, file, handles, guest,
                  stuck, named, conns, loose, strays>>
  BY DEF UnmountRaises, sandbox, server, threads
<1>5. Named' = Named
  BY <1>4 DEF Named
<1>6. Types'
  BY <1>2, <1>4 DEF MountsInv, Turns, Types, Busy, Mounting
<1>7. Finite'
  BY <1>2 DEF MountsInv, Turns, Finite
<1>8. Numbered'
  BY <1>2, <1>4, <1>5 DEF MountsInv, Turns, Numbered, BootMounted, Busy, Mounting,
     Coroutines
<1>9. Unshared'
  BY <1>2, <1>4 DEF MountsInv, Turns, Unshared, BootMounted, Busy, Mounting, Coroutines
<1>10. Answered'
  BY <1>2, <1>4 DEF MountsInv, Turns, Answered, Busy, Mounting
<1>11. Serving'
  BY <1>2, <1>4 DEF MountsInv, Turns, Serving, kind
<1>12. Published'
  BY <1>4 DEF MountsInv, Published, kind
<1>13. Listed'
  BY <1>2, <1>4 DEF MountsInv, Turns, Listed, Mounting
<1>14. AllOwned'
  BY <1>2, <1>3, <1>4 DEF MountsInv, Turns, AllOwned, Listed, Held, BootMounted,
     Coroutines
<1>15. AllServed'
  BY <1>4 DEF MountsInv, AllServed
<1>16. Dialled'
  BY <1>4 DEF MountsInv, Dialled, kind
<1> QED
  BY <1>6, <1>7, <1>8, <1>9, <1>10, <1>11, <1>12, <1>13, <1>14, <1>15, <1>16 DEF MountsInv

\* _cleanup(): the handles and, unless join() has to be waited for, the server go.
LEMMA CleanupStep ==
    ASSUME MountsInv, NEW c \in Coroutines, Cleanup(c)
    PROVE  MountsInv'
<1>1. PICK place \in {"join", "close"} : calls' = At(c,
place) /\ (place = "join" => kind = "tcp")
  BY DEF Cleanup
<1>2. Turns(c, place, calls[c].mount, None, calls[c].done)
  BY <1>1, TurnAt DEF MountsInv, Types, Places
<1>3. running' = FALSE /\ handles' = {} /\ attached' \in {attached, FALSE}
  BY DEF Cleanup
<1>4. UNCHANGED <<session, alive, named, guest, conns, loose, strays>>
  BY DEF Cleanup
<1>5. /\ table' \subseteq table /\ config' \subseteq config
      /\ stuck' \subseteq stuck \cup config /\ file' \in BOOLEAN /\ Published'
      /\ attached' => config' = config
  <2>1. CASE UNCHANGED <<attached, table, config, file, stuck>>
    BY <1>4, <2>1 DEF MountsInv, Types, Published, kind
  <2>2. CASE StopServer /\ attached' = FALSE
    BY <1>4, <2>2, Stopping DEF MountsInv
  <2> QED
    BY <2>1, <2>2 DEF Cleanup
<1>6. Named' = Named
  BY <1>4 DEF Named
<1>7. Types'
  BY <1>1, <1>2, <1>3, <1>4, <1>5, <1>6 DEF MountsInv, Turns, Types, Busy, Mounting,
     Coroutines
<1>8. Finite'
  BY <1>2 DEF MountsInv, Turns, Finite
<1>9. Numbered'
  BY <1>2, <1>3, <1>4, <1>5, <1>6 DEF MountsInv, Turns, Numbered, BootMounted, Busy,
     Mounting, Coroutines
<1>10. Unshared'
  BY <1>2, <1>3 DEF MountsInv, Turns, Unshared, BootMounted, Busy, Mounting, Coroutines
<1>11. Answered'
  BY <1>2, <1>4 DEF MountsInv, Turns, Answered, Busy, Mounting
<1>12. Serving'
  BY <1>1, <1>2, <1>3, <1>4 DEF MountsInv, Turns, Serving, kind
<1>13. Published'
  BY <1>5
<1>14. Listed'
  BY <1>3 DEF Listed
<1>15. AllOwned'
  BY <1>3 DEF AllOwned
<1>16. AllServed'
  BY <1>1, <1>2, <1>3, <1>4, <1>5, <1>6 DEF MountsInv, Turns, AllServed, Types, Unshared,
     Answered, Published, Busy, Mounting
<1>17. Dialled'
  <2>1. ~attached => ~attached'
    BY <1>3
  <2> QED
    BY <2>1, <1>4 DEF MountsInv, Dialled, kind
<1> QED
  BY <1>7, <1>8, <1>9, <1>10, <1>11, <1>12, <1>13, <1>14, <1>15, <1>16,
     <1>17 DEF MountsInv

\* join() returns, and the TCP server's file goes.
LEMMA JoinedStep ==
    ASSUME MountsInv, NEW c \in Coroutines, Joined(c)
    PROVE  MountsInv'
<1>1. Turns(c, "close", calls[c].mount, None, calls[c].done)
  BY TurnAt DEF MountsInv, Types, Joined, Places
<1>2. calls[c].at = "join" /\ ~running /\ kind = "tcp"
  BY DEF MountsInv, Serving, Joined
<1>3. table' = {} /\ config' = {} /\ file' = FALSE /\ attached' = FALSE /\ stuck' = stuck
  BY DEF Joined, StopListed
<1>4. UNCHANGED <<session, running, alive, handles, guest, named, conns, loose, strays>>
  BY DEF Joined, StopListed, threads
<1>5. Named' = Named
  BY <1>4 DEF Named
<1>6. Types'
  BY <1>1, <1>2, <1>3, <1>4, <1>5 DEF MountsInv, Turns, Types, Busy, Mounting, Coroutines
<1>7. Finite'
  BY <1>1 DEF MountsInv, Turns, Finite
<1>8. Numbered'
  BY <1>1, <1>3, <1>4, <1>5 DEF MountsInv, Turns, Numbered, BootMounted, Busy, Mounting,
     Coroutines
<1>9. Unshared'
  BY <1>1, <1>4 DEF MountsInv, Turns, Unshared, BootMounted, Busy, Mounting, Coroutines
<1>10. Answered'
  BY <1>1, <1>4 DEF MountsInv, Turns, Answered, Busy, Mounting
<1>11. Serving'
  BY <1>2, <1>4 DEF Serving, kind
<1>12. Published'
  BY <1>3 DEF Published
<1>13. Listed'
  BY <1>2, <1>4 DEF Listed
<1>14. AllOwned'
  BY <1>3 DEF AllOwned
<1>15. AllServed'
  BY <1>3 DEF AllServed
<1>16. Dialled'
  BY <1>3, <1>4 DEF MountsInv, Dialled, kind
<1> QED
  BY <1>6, <1>7, <1>8, <1>9, <1>10, <1>11, <1>12, <1>13, <1>14, <1>15, <1>16 DEF MountsInv

\* QEMU is terminated, and whoever waits is told.
LEMMA CloseStep ==
    ASSUME MountsInv, NEW c \in Coroutines, Close(c)
    PROVE  MountsInv'
<1>1. /\ calls' \in [Coroutines -> Records] /\ calls'[c].at = "done"
      /\ \A d \in Coroutines :
          /\ d # c => calls'[d].at = calls[d].at
          /\ calls'[d].mount = calls[d].mount /\ calls'[d].done = calls[d].done
          /\ d # c => calls'[d].answer \in {calls[d].answer, "raised"}
  <2> DEFINE a == At(c, "done")
  <2>1. /\ a \in [Coroutines -> Records] /\ a[c].at = "done"
        /\ a[c].mount = calls[c].mount /\ a[c].done = calls[c].done
        /\ \A d \in Coroutines \ {c} : a[d] = calls[d]
    BY DEF At, MountsInv, Types, Records, Places
  <2>2. calls' = Unanswered(a)
    BY DEF Close
  <2> HIDE DEF a
  <2> QED
    BY <2>1, <2>2 DEF Unanswered, Records
<1>2. alive' = FALSE /\ guest' = {} /\ calls[c].at = "close"
  BY DEF Close
<1>3. UNCHANGED <<session, running, attached, table, config, file, handles, stuck, named,
                  conns, loose, strays>>
  BY DEF Close, sandbox, server, threads
<1>4. Named' = Named
  BY <1>3 DEF Named
<1>5. Types'
  BY <1>1, <1>2, <1>3, <1>4 DEF MountsInv, Turns, Types, Busy, Mounting, Coroutines
<1>6. Finite'
  BY <1>1 DEF MountsInv, Finite
<1>7. Numbered'
  BY <1>1, <1>2, <1>3, <1>4 DEF MountsInv, Numbered, BootMounted, Busy, Mounting,
     Coroutines
<1>8. Unshared'
  BY <1>1, <1>3 DEF MountsInv, Unshared, BootMounted, Busy, Mounting, Coroutines
<1>9. Answered'
  BY <1>1, <1>2, <1>3 DEF MountsInv, Answered
<1>10. Serving'
  BY <1>1, <1>3 DEF MountsInv, Serving, kind
<1>11. Published'
  BY <1>3 DEF MountsInv, Published, kind
<1>12. Listed'
  BY <1>1, <1>3 DEF MountsInv, Listed, Mounting
<1>13. AllOwned'
  BY <1>1, <1>2, <1>3 DEF MountsInv, AllOwned, Held, BootMounted, Busy, Mounting,
     Coroutines
<1>14. AllServed'
  BY <1>2 DEF AllServed
<1>15. Dialled'
  BY <1>3 DEF MountsInv, Dialled, kind
<1> QED
  BY <1>5, <1>6, <1>7, <1>8, <1>9, <1>10, <1>11, <1>12, <1>13, <1>14, <1>15 DEF MountsInv

\* start() names the share of the next boot-time mount; the one before is mounted.
LEMMA BootCifsStep ==
    ASSUME MountsInv, BootCifs
    PROVE  MountsInv'
<1>1. Starter \in Coroutines
  BY DEF Coroutines
<1>2. /\ Ready
      /\ \/ calls[Starter].at = "settle" /\ Sofar = {} /\ BootMounted = {}
         \/ /\ calls[Starter].at = "mount" /\ calls[Starter].answer = "ok"
            /\ Sofar = BootMounted \cup {calls[Starter].mount}
  BY DEF MountsInv, Unshared, BootCifs, Wants, More, Ready, Sofar, BootMounted
<1>3. /\ Sofar \subseteq Cifs \cup P9 /\ IsFiniteSet(Sofar)
  <2>1. BootMounted \subseteq Cifs \cup P9 /\ IsFiniteSet(BootMounted)
    BY <1>1 DEF MountsInv, Types, Finite, Records, BootMounted
  <2>2. calls[Starter].at = "mount" => calls[Starter].mount \in Cifs \cup P9
    BY <1>1 DEF MountsInv, Types, Busy, Mounting
  <2>3. IsFiniteSet({}) /\ IsFiniteSet(BootMounted \cup {calls[Starter].mount})
    BY <2>1, FS_EmptySet, FS_AddElement
  <2> QED
    BY <1>2, <2>1, <2>2, <2>3
<1>4. NewShare \in Cifs \ Named
  BY NamedFacts DEF MountsInv, Types
<1>5. Turns(Starter, "mkdir", NewShare, None, Sofar)
  BY <1>1, <1>3, <1>4, TurnNew DEF MountsInv, Types, BootCifs, Begin, Busy, Mounting
<1>6. running /\ attached
  BY DEF MountsInv, Serving, BootCifs, IsRunning
<1>7. UNCHANGED <<session, running, alive, attached, handles, guest, conns, loose, strays>>
  BY DEF BootCifs, sandbox, threads
<1>8. /\ table' = table \cup {NewShare} /\ named' = named + 1
      /\ Named' = Named \cup {NewShare}
      /\ config \subseteq config' /\ config' \subseteq config \cup {NewShare}
      /\ stuck' = stuck /\ file' = file /\ Published'
  BY <1>6, <1>7, Adding DEF MountsInv, BootCifs
<1>9. /\ handles \subseteq Cifs
      /\ Sofar \cap handles = {}
  <2>1. handles \subseteq Cifs
    BY NamedFacts DEF MountsInv, Types, Numbered
  <2> QED
    BY <1>1, <1>2, <2>1 DEF MountsInv, Unshared, Mounting
<1>10. Types'
  BY <1>4, <1>5, <1>7, <1>8 DEF MountsInv, Turns, Types
<1>11. Finite'
  BY <1>3, <1>5 DEF MountsInv, Turns, Finite
<1>12. Numbered'
  BY <1>2, <1>5, <1>7, <1>8 DEF MountsInv, Turns, Numbered, BootMounted, Busy, Mounting,
     Coroutines
<1>13. Unshared'
  BY <1>2, <1>4, <1>5, <1>7, <1>9 DEF MountsInv, Turns, Unshared, Numbered, BootMounted,
     Busy, Mounting, Coroutines
<1>14. Answered'
  BY <1>4, <1>5, <1>7, MountsAssumption DEF MountsInv, Turns, Answered, Numbered
<1>15. Serving'
  BY <1>5, <1>7 DEF MountsInv, Turns, Serving, kind
<1>16. Published'
  BY <1>8
<1>17. Listed'
  BY <1>4, <1>5, <1>7, <1>8 DEF MountsInv, Turns, Listed, Numbered, Busy
<1>18. AllOwned'
  BY <1>2, <1>5, <1>7, <1>8 DEF MountsInv, Turns, AllOwned, Held, BootMounted, Busy,
     Mounting, Coroutines
<1>19. AllServed'
  BY <1>7, <1>8 DEF MountsInv, AllServed
<1>20. Dialled'
  BY <1>7 DEF MountsInv, Dialled, kind
<1> QED
  BY <1>10, <1>11, <1>12, <1>13, <1>14, <1>15, <1>16, <1>17, <1>18, <1>19,
     <1>20 DEF MountsInv

\* start() begins with a 9p mount.
LEMMA Boot9pStep ==
    ASSUME MountsInv, Boot9p
    PROVE  MountsInv'
<1>1. Starter \in Coroutines
  BY DEF Coroutines
<1>2. /\ Ready
      /\ \/ calls[Starter].at = "settle" /\ Sofar = {} /\ BootMounted = {}
         \/ /\ calls[Starter].at = "mount" /\ calls[Starter].answer = "ok"
            /\ Sofar = BootMounted \cup {calls[Starter].mount}
  BY DEF MountsInv, Unshared, Boot9p, Wants, More, Ready, Sofar, BootMounted
<1>3. /\ Sofar \subseteq Cifs \cup P9 /\ IsFiniteSet(Sofar)
  <2>1. BootMounted \subseteq Cifs \cup P9 /\ IsFiniteSet(BootMounted)
    BY <1>1 DEF MountsInv, Types, Finite, Records, BootMounted
  <2>2. calls[Starter].at = "mount" => calls[Starter].mount \in Cifs \cup P9
    BY <1>1 DEF MountsInv, Types, Busy, Mounting
  <2>3. IsFiniteSet({}) /\ IsFiniteSet(BootMounted \cup {calls[Starter].mount})
    BY <2>1, FS_EmptySet, FS_AddElement
  <2> QED
    BY <1>2, <2>1, <2>2, <2>3
<1>4. <<"9p", Following>> \in P9
  BY <1>3, FS_CardinalityType DEF Following, P9
<1>5. Turns(Starter, "mkdir", <<"9p", Following>>, None, Sofar)
  BY <1>1, <1>3, <1>4, TurnNew DEF MountsInv, Types, Boot9p, Begin, Busy, Mounting
<1>6. <<"9p", Following>> \notin Cifs
  BY DEF Cifs
<1>7. UNCHANGED <<session, running, alive, attached, table, config, file, handles, guest,
                  stuck, named, conns, loose, strays>>
  BY DEF Boot9p, sandbox, server, threads
<1>8. Named' = Named
  BY <1>7 DEF Named
<1>9. /\ handles \subseteq Cifs
      /\ Sofar \cap handles = {}
  <2>1. handles \subseteq Cifs
    BY NamedFacts DEF MountsInv, Types, Numbered
  <2> QED
    BY <1>1, <1>2, <2>1 DEF MountsInv, Unshared, Mounting
<1>10. Types'
  BY <1>4, <1>5, <1>7 DEF MountsInv, Turns, Types
<1>11. Finite'
  BY <1>3, <1>5 DEF MountsInv, Turns, Finite
<1>12. Numbered'
  BY <1>1, <1>2, <1>5, <1>6, <1>7, <1>8, MountsAssumption DEF MountsInv, Turns, Numbered,
     BootMounted, Busy, Mounting, Coroutines
<1>13. Unshared'
  BY <1>2, <1>5, <1>6, <1>7, <1>9 DEF MountsInv, Turns, Unshared, BootMounted, Busy,
     Mounting, Coroutines
<1>14. Answered'
  BY <1>1, <1>5, <1>6, <1>7, MountsAssumption DEF MountsInv, Turns, Answered, Unshared
<1>15. Serving'
  BY <1>5, <1>7 DEF MountsInv, Turns, Serving, kind
<1>16. Published'
  BY <1>7 DEF MountsInv, Published, kind
<1>17. Listed'
  BY <1>5, <1>6, <1>7 DEF MountsInv, Turns, Listed
<1>18. AllOwned'
  BY <1>2, <1>5, <1>7 DEF MountsInv, Turns, AllOwned, Held, BootMounted, Busy, Mounting
<1>19. AllServed'
  BY <1>7 DEF MountsInv, AllServed
<1>20. Dialled'
  BY <1>7 DEF MountsInv, Dialled, kind
<1> QED
  BY <1>10, <1>11, <1>12, <1>13, <1>14, <1>15, <1>16, <1>17, <1>18, <1>19,
     <1>20 DEF MountsInv

\* The last boot-time mount is mounted.
LEMMA BootedStep ==
    ASSUME MountsInv, Booted
    PROVE  MountsInv'
<1>1. Starter \in Coroutines
  BY DEF Coroutines
<1>2. /\ Ready
      /\ \/ calls[Starter].at = "settle" /\ Sofar = {} /\ BootMounted = {}
         \/ /\ calls[Starter].at = "mount" /\ calls[Starter].answer = "ok"
            /\ Sofar = BootMounted \cup {calls[Starter].mount}
  BY DEF MountsInv, Unshared, Booted, Wants, More, Ready, Sofar, BootMounted
<1>3. /\ Sofar \subseteq Cifs \cup P9 /\ IsFiniteSet(Sofar)
  <2>1. BootMounted \subseteq Cifs \cup P9 /\ IsFiniteSet(BootMounted)
    BY <1>1 DEF MountsInv, Types, Finite, Records, BootMounted
  <2>2. calls[Starter].at = "mount" => calls[Starter].mount \in Cifs \cup P9
    BY <1>1 DEF MountsInv, Types, Busy, Mounting
  <2>3. IsFiniteSet({}) /\ IsFiniteSet(BootMounted \cup {calls[Starter].mount})
    BY <2>1, FS_EmptySet, FS_AddElement
  <2> QED
    BY <1>2, <2>1, <2>2, <2>3
<1>4. Turns(Starter, "done", calls[Starter].mount, None, Sofar)
  <2> DEFINE a == At(Starter, "done")
  <2>1. /\ a \in [Coroutines -> Records] /\ a[Starter].at = "done"
        /\ a[Starter].mount = calls[Starter].mount /\ a[Starter].answer = None
        /\ \A d \in Coroutines \ {Starter} : a[d] = calls[d]
    BY <1>1 DEF At, MountsInv, Types, Records, Places
  <2>2. calls' = [a EXCEPT ![Starter].done = Sofar]
    BY DEF Booted
  <2> HIDE DEF a
  <2> QED
    BY <1>1, <1>3, <2>1, <2>2 DEF Turns, Records
<1>5. UNCHANGED <<session, running, alive, attached, table, config, file, handles, guest,
                  stuck, named, conns, loose, strays>>
  BY DEF Booted, sandbox, server, threads
<1>6. Named' = Named
  BY <1>5 DEF Named
<1>7. /\ handles \subseteq Cifs
      /\ Sofar \cap handles = {}
  <2>1. handles \subseteq Cifs
    BY NamedFacts DEF MountsInv, Types, Numbered
  <2> QED
    BY <1>1, <1>2, <2>1 DEF MountsInv, Unshared, Mounting
<1>8. Types'
  BY <1>4, <1>5 DEF MountsInv, Turns, Types, Busy, Mounting
<1>9. Finite'
  BY <1>3, <1>4 DEF MountsInv, Turns, Finite
<1>10. Numbered'
  BY <1>2, <1>4, <1>5, <1>6 DEF MountsInv, Turns, Numbered, BootMounted, Busy, Mounting,
     Coroutines
<1>11. Unshared'
  BY <1>2, <1>4, <1>5, <1>7 DEF MountsInv, Turns, Unshared, BootMounted, Busy, Mounting,
     Coroutines
<1>12. Answered'
  BY <1>4, <1>5 DEF MountsInv, Turns, Answered, Busy, Mounting
<1>13. Serving'
  BY <1>4, <1>5 DEF MountsInv, Turns, Serving, kind
<1>14. Published'
  BY <1>5 DEF MountsInv, Published, kind
<1>15. Listed'
  BY <1>4, <1>5 DEF MountsInv, Turns, Listed, Mounting
<1>16. AllOwned'
  BY <1>2, <1>4, <1>5 DEF MountsInv, Turns, AllOwned, Held, BootMounted, Busy, Mounting
<1>17. AllServed'
  BY <1>5 DEF MountsInv, AllServed
<1>18. Dialled'
  BY <1>5 DEF MountsInv, Dialled, kind
<1> QED
  BY <1>8, <1>9, <1>10, <1>11, <1>12, <1>13, <1>14, <1>15, <1>16, <1>17,
     <1>18 DEF MountsInv

\* A share that start() names after stop(): it is a stray.
LEMMA BootStrayStep ==
    ASSUME MountsInv, BootStray
    PROVE  MountsInv'
<1>1. NewShare \in Cifs \ Named
  BY NamedFacts DEF MountsInv, Types
<1>2. Starter \in Coroutines
  BY DEF Coroutines
<1>3. Turns(Starter, "close", calls[Starter].mount, None, calls[Starter].done)
  BY <1>2, TurnAt DEF MountsInv, Types, BootStray, Places
<1>4. /\ calls[Starter].at = "mount" /\ ~attached /\ ~running
      /\ handles' = {} /\ strays' = strays \cup (config' \ config)
  BY DEF MountsInv, Serving, BootStray
<1>5. UNCHANGED <<session, running, alive, attached, guest, conns, loose>>
  BY DEF BootStray, threads
<1>6. /\ table' = table \cup {NewShare} /\ named' = named + 1
      /\ Named' = Named \cup {NewShare}
      /\ config \subseteq config' /\ config' \subseteq config \cup {NewShare}
      /\ stuck' = stuck /\ file' = file /\ Published'
  <2>1. kind = "windows" => NewShare \in strays'
    BY <1>1, <1>4 DEF MountsInv, Numbered, BootStray, AddShare, AddWindows
  <2> QED
    BY <1>4, <1>5, <2>1, Adding DEF MountsInv, BootStray
<1>7. Types'
  BY <1>3, <1>5, <1>6 DEF MountsInv, Turns, Types, Busy, Mounting
<1>8. Finite'
  BY <1>3 DEF MountsInv, Turns, Finite
<1>9. Numbered'
  BY <1>3, <1>4, <1>5, <1>6 DEF MountsInv, Turns, Numbered, BootMounted, Busy, Mounting,
     Coroutines
<1>10. Unshared'
  BY <1>3, <1>4 DEF MountsInv, Turns, Unshared, BootMounted, Busy, Mounting
<1>11. Answered'
  BY <1>3, <1>4, <1>5 DEF MountsInv, Turns, Answered, Busy, Mounting
<1>12. Serving'
  BY <1>3, <1>5 DEF MountsInv, Turns, Serving, kind
<1>13. Published'
  BY <1>6
<1>14. Listed'
  BY <1>4, <1>5 DEF Listed
<1>15. AllOwned'
  BY <1>4, <1>5 DEF AllOwned
<1>16. AllServed'
  BY <1>4, <1>5 DEF AllServed
<1>17. Dialled'
  BY <1>5 DEF MountsInv, Dialled, kind
<1> QED
  BY <1>7, <1>8, <1>9, <1>10, <1>11, <1>12, <1>13, <1>14, <1>15, <1>16,
     <1>17 DEF MountsInv

\* The rollback begins: the share of the mount that failed is loose.
LEMMA UndoFirstStep ==
    ASSUME MountsInv, calls[Starter].at \in Mounting, running, UndoNext(Rollback),
           loose' = loose \cup ({calls[Starter].mount} \ Rollback),
           UNCHANGED <<session, sandbox, server, guest, threads, strays>>
    PROVE  MountsInv'
<1>1. Starter \in Coroutines
  BY DEF Coroutines
<1>2. /\ Rollback \subseteq Cifs \cup P9 /\ IsFiniteSet(Rollback)
      /\ BootMounted \subseteq Rollback
      /\ Rollback \subseteq BootMounted \cup {calls[Starter].mount}
  <2>1. BootMounted \subseteq Cifs \cup P9 /\ IsFiniteSet(BootMounted)
    BY <1>1 DEF MountsInv, Types, Finite, Records, BootMounted
  <2>2. calls[Starter].mount \in Cifs \cup P9
    BY <1>1 DEF MountsInv, Types, Busy
  <2>3. IsFiniteSet(BootMounted \cup {calls[Starter].mount})
    BY <2>1, FS_AddElement
  <2>4. Rollback \in {BootMounted, BootMounted \cup {calls[Starter].mount}}
    BY DEF Rollback, Ready, Sofar, BootMounted, Mounting
  <2> QED
    BY <2>1, <2>2, <2>3, <2>4
<1>3. PICK m \in Rollback : Turns(Starter, "undo", m, None, Rollback \ {m})
  <2>1. PICK m \in Rollback :
          calls' = [calls EXCEPT ![Starter] = [Idle EXCEPT !.at = "undo", !.mount = m,
                                                     !.done = Rollback \ {m}]]
    BY DEF UndoNext
  <2> QED
    BY <1>1, <1>2, <2>1, TurnNew DEF MountsInv, Types, Busy
<1>4. UNCHANGED <<session, running, alive, attached, table, config, file, handles, guest,
                  stuck, named, conns, strays>>
  BY DEF sandbox, server, threads
<1>5. Named' = Named
  BY <1>4 DEF Named
<1>6. Types'
  BY <1>2, <1>3, <1>4 DEF MountsInv, Turns, Types
<1>7. Finite'
  BY <1>2, <1>3, FS_RemoveElement DEF MountsInv, Turns, Finite
<1>8. Numbered'
  BY <1>1, <1>2, <1>3, <1>4, <1>5, MountsAssumption DEF MountsInv, Turns, Numbered,
     BootMounted, Busy, Coroutines
<1>9. Unshared'
  <2>1. handles \subseteq Cifs
    BY NamedFacts DEF MountsInv, Types, Numbered
  <2>2. Rollback \cap handles = {}
    BY <1>1, <1>2, <2>1 DEF MountsInv, Unshared
  <2> QED
    BY <1>1, <1>2, <1>3, <1>4, <2>2 DEF MountsInv, Turns, Unshared, BootMounted, Busy,
       Mounting
<1>10. Answered'
  BY <1>3, <1>4, MountsAssumption DEF MountsInv, Turns, Answered, Mounting
<1>11. Serving'
  BY <1>3, <1>4 DEF MountsInv, Turns, Serving
<1>12. Published'
  BY <1>4 DEF MountsInv, Published, kind
<1>13. Listed'
  BY <1>3, <1>4 DEF MountsInv, Turns, Listed, Mounting
<1>14. AllOwned'
  BY <1>1, <1>2, <1>3, <1>4 DEF MountsInv, Turns, AllOwned, Held, BootMounted, Busy
<1>15. AllServed'
  BY <1>4 DEF MountsInv, AllServed
<1>16. Dialled'
  BY <1>4 DEF MountsInv, Dialled, kind
<1> QED
  BY <1>6, <1>7, <1>8, <1>9, <1>10, <1>11, <1>12, <1>13, <1>14, <1>15, <1>16 DEF MountsInv

\* The first failure of a boot-time mount.
LEMMA BootFailsStep ==
    ASSUME MountsInv, BootFails
    PROVE  MountsInv'
<1>1. CASE Cleanup(Starter)
  BY <1>1, CleanupStep DEF Coroutines
<1>2. CASE IsRunning /\ Rollback # {} /\ UndoNext(Rollback)
           /\ loose' = loose \cup ({calls[Starter].mount} \ Rollback)
           /\ UNCHANGED <<session, sandbox, server, guest, threads, strays>>
  <2>1. ~(Ready /\ calls[Starter].at = "settle")
    BY <1>2 DEF Rollback, Sofar
  <2>2. calls[Starter].at \in Mounting
    BY <2>1 DEF BootFails, BootRaises, Wants, More, Ready, MountRaises, Mounting
  <2> QED
    BY <1>2, <2>2, UndoFirstStep DEF IsRunning
<1> QED
  BY <1>1, <1>2 DEF BootFails

\* The rollback goes on: the share goes whatever the umount answered.
LEMMA UndoMoreStep ==
    ASSUME MountsInv, calls[Starter].at = "undo", calls[Starter].answer # None, running,
           RemoveShares({calls[Starter].mount}), UndoNext(BootMounted),
           UNCHANGED <<session, sandbox, named, guest, threads, loose, strays>>
    PROVE  MountsInv'
<1>1. Starter \in Coroutines
  BY DEF Coroutines
<1>2. PICK m \in BootMounted : Turns(Starter, "undo", m, None, BootMounted \ {m})
  <2>1. PICK m \in BootMounted :
          calls' = [calls EXCEPT ![Starter] = [Idle EXCEPT !.at = "undo", !.mount = m,
                                                     !.done = BootMounted \ {m}]]
    BY DEF UndoNext
  <2>2. BootMounted \subseteq Cifs \cup P9
    BY <1>1 DEF MountsInv, Types, Records, BootMounted
  <2> QED
    BY <1>1, <2>1, <2>2, TurnNew DEF MountsInv, Types, Busy
<1>3. m \in Cifs \cup P9
  BY <1>1 DEF MountsInv, Types, Records, BootMounted
<1>4. UNCHANGED <<session, running, alive, attached, handles, guest, named, conns, loose, strays>>
  BY DEF sandbox, threads
<1>5. /\ table' = table \ {calls[Starter].mount}
      /\ config' \subseteq config /\ config \ {calls[Starter].mount} \subseteq config'
      /\ stuck' \subseteq stuck \cup config /\ file' = file /\ Published'
  BY <1>4, Removing DEF MountsInv
<1>6. Named' = Named
  BY <1>4 DEF Named
<1>7. calls[Starter].answer \in {"ok", "bad", "raised"}
  BY <1>1 DEF MountsInv, Types, Records
<1>8. Types'
  BY <1>2, <1>3, <1>4, <1>5 DEF MountsInv, Turns, Types
<1>9. Finite'
  BY <1>2, FS_RemoveElement DEF MountsInv, Turns, Finite, BootMounted
<1>10. Numbered'
  BY <1>2, <1>4, <1>5, <1>6, MountsAssumption DEF MountsInv, Turns, Numbered,
     BootMounted, Coroutines
<1>11. Unshared'
  BY <1>2, <1>4 DEF MountsInv, Turns, Unshared, BootMounted, Mounting
<1>12. Answered'
  BY <1>2, <1>4, MountsAssumption DEF MountsInv, Turns, Answered, Mounting
<1>13. Serving'
  BY <1>2, <1>4 DEF MountsInv, Turns, Serving
<1>14. Published'
  BY <1>5
<1>15. Listed'
  BY <1>2, <1>4, <1>5 DEF MountsInv, Turns, Listed, Unshared, Busy, Mounting, Coroutines
<1>16. AllOwned'
  <2>1. table' \subseteq table \ {calls[Starter].mount}
    BY <1>5
  <2>2. \A t \in table' : Held(t) => Held(t)'
    BY <1>1, <1>2, <1>4, <2>1 DEF Held, Turns, BootMounted, Busy
  <2> QED
    BY <2>1, <2>2 DEF MountsInv, AllOwned
<1>17. AllServed'
  BY <1>2, <1>4, <1>5, <1>7 DEF MountsInv, Turns, AllServed, Types, Answered, Busy
<1>18. Dialled'
  BY <1>4 DEF MountsInv, Dialled, kind
<1> QED
  BY <1>8, <1>9, <1>10, <1>11, <1>12, <1>13, <1>14, <1>15, <1>16, <1>17,
     <1>18 DEF MountsInv

\* One umount of the rollback is over.
LEMMA UndoneStep ==
    ASSUME MountsInv, Undone
    PROVE  MountsInv'
<1>1. CASE Cleanup(Starter)
  BY <1>1, CleanupStep DEF Coroutines
<1>2. CASE ~Cleanup(Starter)
  BY <1>2, UndoMoreStep DEF Undone, IsRunning, BootMounted
<1> QED
  BY <1>1, <1>2

\* A step of the TCP server's threads touches its connections alone.
LEMMA QuietStep ==
    ASSUME MountsInv, Dialled',
           UNCHANGED <<session, running, alive, attached, table, config, file, handles,
                       guest, calls, stuck, named, loose, strays>>
    PROVE  MountsInv'
<1>1. Named' = Named /\ BootMounted' = BootMounted
  BY DEF Named, BootMounted
<1>2. Types'
  BY DEF MountsInv, Types
<1>3. Finite'
  BY DEF MountsInv, Finite
<1>4. Numbered'
  BY <1>1 DEF MountsInv, Numbered
<1>5. Unshared'
  BY <1>1 DEF MountsInv, Unshared
<1>6. Answered'
  BY DEF MountsInv, Answered
<1>7. Serving'
  BY DEF MountsInv, Serving, kind
<1>8. Published'
  BY DEF MountsInv, Published, kind
<1>9. Listed'
  BY DEF MountsInv, Listed
<1>10. AllOwned'
  BY <1>1 DEF MountsInv, AllOwned, Held
<1>11. AllServed'
  BY DEF MountsInv, AllServed
<1> QED
  BY <1>2, <1>3, <1>4, <1>5, <1>6, <1>7, <1>8, <1>9, <1>10, <1>11 DEF MountsInv

\* The threads of the TCP server.
LEMMA ThreadStep ==
    ASSUME MountsInv, NEW k \in Conns, Dial(k) \/ Accept(k) \/ Serve(k) \/ HangUp(k)
    PROVE  MountsInv'
<1>1. UNCHANGED <<session, running, alive, attached, table, config, file, handles,
                  guest, calls, stuck, named, loose, strays>>
  BY DEF Dial, Accept, Serve, HangUp, Threads, sandbox, server
<1>2. CASE Dial(k)
  BY <1>1, <1>2, QuietStep DEF MountsInv, Dialled, Dial, kind
<1>3. CASE Accept(k)
  BY <1>1, <1>3, QuietStep DEF MountsInv, Dialled, Accept, kind
<1>4. CASE Serve(k)
  BY <1>1, <1>4, QuietStep DEF MountsInv, Dialled, Serve, kind
<1>5. CASE HangUp(k)
  BY <1>1, <1>5, QuietStep DEF MountsInv, Dialled, HangUp, kind
<1> QED
  BY <1>2, <1>3, <1>4, <1>5

\* The accept thread ends.
LEMMA AcceptFailsStep ==
    ASSUME MountsInv, AcceptFails
    PROVE  MountsInv'
<1>1. UNCHANGED <<session, running, alive, attached, table, config, file, handles,
                  guest, calls, stuck, named, loose, strays>>
  BY DEF AcceptFails, Threads, sandbox, server
<1> QED
  BY <1>1, QuietStep DEF MountsInv, Dialled, AcceptFails, kind

(***************************************************************************)
(* The invariant holds throughout.                                         *)
(***************************************************************************)

\* When start() has connected, nothing is mounted and nobody shares anything.
LEMMA InitInv == ASSUME Init PROVE MountsInv
<1> DEFINE place == IF plan = <<>> THEN "done" ELSE "settle"
<1>1. /\ calls \in [Coroutines -> Records]
      /\ \A c \in Coroutines :
          calls[c].at \in {"idle", "done", "settle"} /\ calls[c].done = {}
  <2> DEFINE r == [Idle EXCEPT !.at = place]
  <2>1. Idle \in Records /\ Idle.at = "idle" /\ Idle.done = {}
    BY DEF Idle, Records, Places
  <2>2. place \in {"done", "settle"}
    OBVIOUS
  <2> HIDE DEF place
  <2>3. r \in Records /\ r.at = place /\ r.done = {}
    BY <2>1, <2>2 DEF Records, Places
  <2>4. calls = [c \in Coroutines |-> IF c # Starter THEN Idle ELSE r]
    BY DEF Init, place
  <2> HIDE DEF r
  <2> QED
    BY <2>1, <2>2, <2>3, <2>4
<1>2. Starter \in Coroutines
  BY DEF Coroutines
<1> USE <1>1, <1>2
<1>3. Types
  BY DEF Types, Init, Busy, Mounting
<1>4. Finite
  BY FS_EmptySet DEF Finite
<1>5. Numbered
  BY DEF Numbered, Init, BootMounted, Busy, Mounting, Coroutines
<1>6. Unshared
  BY DEF Unshared, Init, BootMounted, Busy, Mounting
<1>7. Answered
  BY DEF Answered, Init, Busy, Mounting
<1>8. Serving /\ Published /\ AllOwned /\ AllServed
  BY DEF Serving, Published, AllOwned, AllServed, Init
<1>9. Listed
  BY DEF Listed, Init, Mounting
<1>10. Dialled
  BY DEF Dialled, Init
<1> QED
  BY <1>3, <1>4, <1>5, <1>6, <1>7, <1>8, <1>9, <1>10 DEF MountsInv

\* Every step keeps the invariant.
LEMMA NextInv == ASSUME MountsInv, [Next]_vars PROVE MountsInv'
<1>1. CASE \E c \in Callers : Call(c)
  BY <1>1, MountStep, MountedStep, MountFailsStep, UnmountStep,
     UnmountedStep, UnmountRaisesStep, CleanupStep DEF Call, Stop, Coroutines
<1>2. CASE \E c \in Coroutines : Step(c) \/ Cancel(c)
  BY <1>2, NextTryStep, PauseStep, CloseStep, CancelStep DEF Step
<1>3. CASE Boot
  BY <1>3, BootCifsStep, Boot9pStep, BootedStep, BootStrayStep, BootFailsStep,
     UndoneStep DEF Boot
<1>4. CASE \E c \in Coroutines : GuestAnswers(c) \/ GuestRefuses(c) \/ AnswerLost(c) \/ Joined(c)
  BY <1>4, GuestAnswersStep, GuestRefusesStep, AnswerLostStep, JoinedStep
<1>5. CASE QemuDies
  BY <1>5, QemuDiesStep
<1>6. CASE \E k \in Conns : Dial(k) \/ Accept(k) \/ Serve(k) \/ HangUp(k)
  BY <1>6, ThreadStep
<1>7. CASE AcceptFails
  BY <1>7, AcceptFailsStep
<1>8. CASE UNCHANGED vars
  BY <1>8, QuietStep DEF vars, MountsInv, Dialled, kind
<1> QED
  BY <1>1, <1>2, <1>3, <1>4, <1>5, <1>6, <1>7, <1>8 DEF Next, Coroutine, Environment

\* MountsInv is an invariant of the specification, whatever the callers, the
\* sessions and the number of tries and failures.
THEOREM MountsInvariance == Spec => []MountsInv
<1>1. Init => MountsInv
  BY InitInv
<1>2. MountsInv /\ [Next]_vars => MountsInv'
  BY NextInv
<1> QED
  BY <1>1, <1>2, PTL DEF Spec

\* A share is held by somebody when it is among the owned ones.
LEMMA HeldOwned == ASSUME NEW s, Held(s) PROVE s \in Owned
<1>1. CASE s \in handles \cup BootMounted \cup loose
  BY <1>1 DEF Owned
<1>2. CASE \E c \in Coroutines : calls[c].at \in Busy /\ calls[c].mount = s
  <2>1. s \in InFlight
    BY <1>2 DEF InFlight, Busy, Mounting
  <2> QED
    BY <2>1 DEF Owned
<1> QED
  BY <1>1, <1>2 DEF Held

\* The table, what is served, the handles and the guest agree
\* (_mounts.py, smb.py): a share is somebody's, a handle is served, and nothing
\* is mounted over a share that is gone.
THEOREM SharesTheorem == Spec => []SharesMatchMounts
<1> SUFFICES ASSUME MountsInv PROVE SharesMatchMounts
  BY MountsInvariance, PTL
<1>1. SharesHaveOwners
  <2>1. ASSUME running PROVE table \subseteq Owned
    BY <2>1, HeldOwned DEF MountsInv, AllOwned
  <2>2. ASSUME ~attached PROVE config \subseteq stuck \cup strays
    BY <2>2 DEF MountsInv, Types, Published, kind
  <2> QED
    BY <2>1, <2>2 DEF SharesHaveOwners
<1>2. MountsAreServed
  <2>1. ASSUME running PROVE \A s \in handles : s \in table /\ s \in config
    BY <2>1 DEF MountsInv, Types, Serving, Listed, Published, kind
  <2>2. ASSUME attached PROVE \A s \in guest : s[1] = "cifs" => s \in config \cup loose
    BY <2>2 DEF MountsInv, Types, AllServed, Cifs, P9
  <2> QED
    BY <2>1, <2>2 DEF MountsAreServed
<1> QED
  BY <1>1, <1>2 DEF SharesMatchMounts

\* A connection accepted after the server was gone is closed unserved: the
\* configuration file its thread would read is gone too.
THEOREM LateTheorem == Spec => LateConnectionsRefused
<1>1. MountsInv /\ [Next]_vars =>
        [\A k \in Conns : conns[k] = "late" => conns'[k] \in {"late", "closed"}]_vars
  <2> SUFFICES ASSUME MountsInv, Next, NEW k \in Conns, conns[k] = "late"
               PROVE  conns'[k] \in {"late", "closed"}
    OBVIOUS
  <2>1. ~file /\ conns \in [Conns -> {"none", "backlog", "accepted", "late", "serving",
  "closed"}]
    BY DEF MountsInv, Types, Dialled, Published
  <2>2. CASE UNCHANGED conns
    BY <2>2
  <2>3. CASE \E j \in Conns : Dial(j) \/ Accept(j) \/ Serve(j) \/ HangUp(j)
    BY <2>1, <2>3 DEF Dial, Accept, Serve, HangUp
  <2>4. CASE AcceptFails
    BY <2>1, <2>4 DEF AcceptFails
  <2>5. ASSUME Coroutine PROVE UNCHANGED conns
    BY <2>5 DEF Coroutine, Call, Step, Boot, threads, Mount, Mounted, MountFails,
       Cancel,
       Unmount, Unmounted, UnmountRaises, Stop, Cleanup, NextTry, Pause, Close, BootCifs,
       Boot9p, Booted, BootStray, BootFails, Undone
  <2>6. ASSUME NEW c \in Coroutines,
               GuestAnswers(c) \/ GuestRefuses(c) \/ AnswerLost(c) \/ Joined(c) \/ QemuDies
        PROVE  UNCHANGED conns
    BY <2>6 DEF GuestAnswers, GuestRefuses, AnswerLost, Joined, QemuDies, threads
  <2> QED
    BY <2>2, <2>3, <2>4, <2>5, <2>6 DEF Next, Environment, Coroutines
<1> QED
  BY <1>1, MountsInvariance, PTL DEF Spec, LateConnectionsRefused

=============================================================================
