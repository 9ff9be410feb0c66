-------------------------- MODULE SmbServer_proofs --------------------------
(***************************************************************************)
(* What holds of a connection of the SMB server for any shares, names,     *)
(* bounds and requests.                                                    *)
(*                                                                         *)
(* ServerInv has a part for each promise.  Descriptors and Kept: who has   *)
(* which descriptor, and what a handle nobody interfered with leads to.    *)
(* TreeInv: ids of trees that handles remember are below the next one.     *)
(* ChainInv: the id a compound hands on is younger than its frame.         *)
(* ScanInv: what a client has seen of a listing is what lies before the    *)
(* offset of the handle.                                                   *)
(*                                                                         *)
(* A step is about one handle or none: FileKept and ScanKept say what it   *)
(* leaves to the others, and a lemma for each command what becomes of its  *)
(* own.                                                                    *)
(***************************************************************************)
EXTENDS SmbServer, FiniteSetTheorems, SequenceTheorems, WellFoundedInduction, TLAPS

HandleRecords ==
    [path : Paths, fd : Nat, isDir : BOOLEAN, tree : Nat, readonly : BOOLEAN,
     deletes : BOOLEAN, entries : {None} \cup Seq(Entries), offset : Nat]

\* The shared directories are where they are; the rest comes and goes.
Places == {d \in [Paths -> Nat \cup Shares \cup {None}] : \A s \in Shares : d[TopOf(s)] = s}

HostTypes == bound \in Bounds /\ dir \in Places /\ made \in Nat /\ config \subseteq Shares

HandleTypes ==
    /\ counter \in Nat /\ counter <= bound.handles
    /\ DOMAIN handles \subseteq 1..counter
    /\ handles \in [DOMAIN handles -> HandleRecords]

Holders == {f \in DOMAIN handles : handles[f].fd # 0}

\* The descriptors of the process are those of the handles, one each.
Descriptors ==
    /\ DOMAIN fds = {handles[f].fd : f \in Holders}
    /\ \A f, g \in Holders : f # g => handles[f].fd # handles[g].fd

\* A handle nobody interfered with is on the file it was opened on.
KeptAt(f) ==
    f \notin stale =>
        /\ dir[handles[f].path] = opened[f]
        /\ handles[f].fd # 0 => fds[handles[f].fd].what = opened[f]
Kept == DOMAIN opened = DOMAIN handles /\ \A f \in DOMAIN handles : KeptAt(f)

\* Trees have ids that were given out, and those of the handles are theirs.
TreeInv ==
    /\ shares \subseteq Shares /\ nextTree \in Nat
    /\ DOMAIN trees \subseteq Nat /\ \A t \in DOMAIN trees : t < nextTree
    /\ \A f \in DOMAIN handles :
        LET t == handles[f].tree
        IN  t < nextTree /\ (t \in DOMAIN trees => trees[t] = handles[f].path[1])

\* What a frame hands on was made in it.
Frames == [left : Nat, file : Nat, tree : Nat, base : Nat]
ChainInv ==
    /\ frame \in Frames
    /\ frame.base <= counter /\ frame.file <= counter
    /\ frame.file # 0 => Serving /\ frame.base < frame.file

\* A listing of the shared directory has each name once; the client has seen
\* names up to the offset, and of those all that are there since.
Follows(place, share, list, offset, sc) ==
    /\ IsInjective(list)
    /\ sc.seen \in [Entries -> Nat] /\ sc.stay \subseteq Names
    /\ \A n \in sc.stay : place[<<share, n>>] # None
    /\ \A n \in sc.stay \cup {".", ".."} : \E i \in 1..Len(list) : list[i] = n
    /\ \A n \in Entries : /\ sc.seen[n] <= 1
                          /\ sc.seen[n] = 1 => \E i \in 1..offset : list[i] = n
    /\ sc.known => \A i \in 1..offset : list[i] \in sc.stay \cup {".", ".."} => sc.seen[list[i]] = 1

Scanned == {f \in DOMAIN handles : handles[f].entries # None /\ handles[f].path[2] = Top}
ScanAt(f) ==
    /\ Follows(dir, handles[f].path[1], handles[f].entries, handles[f].offset, scan[f])
    /\ last.file = f /\ last.status = "NO_MORE_FILES" =>
            handles[f].offset = Len(handles[f].entries)
ScanInv ==
    /\ \A f \in DOMAIN handles :
            handles[f].entries # None => handles[f].offset <= Len(handles[f].entries)
    /\ DOMAIN scan = Scanned
    /\ \A f \in Scanned : ScanAt(f)

Types == HostTypes /\ HandleTypes
ServerInv == Types /\ Descriptors /\ Kept /\ TreeInv /\ ChainInv /\ ScanInv

-----------------------------------------------------------------------------
(* The operators.                                                           *)

\* A set of natural numbers has a least element.
LEMMA LeastOf ==
  ASSUME NEW S \in SUBSET Nat, S # {}
  PROVE  Min(S) \in S /\ \A x \in S : Min(S) <= x
<1>1. PICK i \in S : \A j \in S : ~(<<j, i>> \in OpToRel(<, Nat))
  BY NatLessThanWellFounded, WFMin
<1>2. \A j \in S : i <= j
  <2> SUFFICES ASSUME NEW j \in S, ~(i <= j) PROVE FALSE
    OBVIOUS
  <2>1. j < i
    OBVIOUS
  <2>2. <<j, i>> \in OpToRel(<, Nat)
    BY <2>1 DEF OpToRel
  <2> QED
    BY <1>1, <2>2
<1> QED
  BY <1>2 DEF Min

\* The refusal that is answered applies, and none does when none is answered.
LEMMA FirstRefuses ==
  ASSUME NEW refusals, NEW n \in Nat, Len(refusals) = n
  PROVE  /\ \/ First(refusals) = "SUCCESS"
            \/ \E i \in 1..n : refusals[i][1] /\ First(refusals) = refusals[i][2]
         /\ First(refusals) = "SUCCESS" /\ (\A i \in 1..n : refusals[i][2] # "SUCCESS")
               => \A i \in 1..n : ~refusals[i][1]
<1> DEFINE I == {i \in 1..Len(refusals) : refusals[i][1]}
<1>1. SelectInSeq(refusals, LAMBDA c : c[1]) = IF I # {} THEN Min(I) ELSE 0
  BY DEF SelectInSeq
<1>2. CASE I = {}
  BY <1>1, <1>2 DEF First
<1>3. CASE I # {}
  <2>1. I \subseteq Nat
    OBVIOUS
  <2>2. Min(I) \in I
    BY <1>3, <2>1, LeastOf
  <2> QED
    BY <1>1, <1>3, <2>2 DEF First
<1> QED
  BY <1>2, <1>3

\* The lowest number that is free, while there is one.
LEMMA LowestIsFree ==
  ASSUME bound.handles \in Nat, NEW S, IsFiniteSet(S), Cardinality(S) <= bound.handles
  PROVE  LowestFd(S) \in Nat \ {0} /\ LowestFd(S) \notin S
<1> DEFINE All == 1..(bound.handles + 1)
<1>1. All \ S # {}
  <2> SUFFICES ASSUME All \subseteq S PROVE FALSE
    OBVIOUS
  <2>1. Cardinality(All) = bound.handles + 1
    BY FS_Interval
  <2>2. Cardinality(All) <= Cardinality(S) /\ Cardinality(S) \in Nat
    BY FS_Subset, FS_CardinalityType
  <2> QED
    BY <2>1, <2>2
<1>2. Min(All \ S) \in All \ S
  BY <1>1, LeastOf
<1> QED
  BY <1>2 DEF LowestFd

\* What an answer holds of what was found: that up to where it stops.
LEMMA StopFacts ==
  ASSUME NEW end \in Nat, NEW from \in 0..end, NEW found \in SUBSET ((from + 1)..end),
         NEW single \in BOOLEAN, NEW room \in Nat
  PROVE  LET given == Given(found, single, room)
             stop == ListStops(end, found, given, single)
         IN  /\ stop \in from..end
             /\ given = {i \in found : i <= stop}
             /\ found = {} => stop = end
<1> DEFINE Upto(i) == {j \in found : j <= i}
           n == IF single /\ room > 1 THEN 1 ELSE room
           given == Given(found, single, room)
           stop == ListStops(end, found, given, single)
           whole == found = given /\ (~single \/ found = {})
<1> SUFFICES /\ stop \in from..end
             /\ given = {i \in found : i <= stop}
             /\ found = {} => stop = end
  OBVIOUS
<1>1. given = {i \in found : Cardinality(Upto(i)) <= n}
  BY DEF Given
<1>2. stop = IF whole THEN end
             ELSE IF single /\ given # {} THEN Min(given) ELSE Min(found \ given) - 1
  BY DEF ListStops
<1>3. \A i \in found : i \in Nat /\ from < i /\ i <= end
  OBVIOUS
<1>4. IsFiniteSet(found)
  <2>1. IsFiniteSet((from + 1)..end) /\ found \subseteq (from + 1)..end
    BY FS_Interval
  <2> QED
    BY <2>1, FS_Subset
<1>5. \A i \in found : IsFiniteSet(Upto(i)) /\ Cardinality(Upto(i)) \in Nat
  <2> TAKE i \in found
  <2>1. Upto(i) \subseteq found
    OBVIOUS
  <2> QED
    BY <1>4, <2>1, FS_Subset, FS_CardinalityType
<1>6. given \subseteq found
  BY <1>1
<1>7. \A i \in found : i \in given <=> Cardinality(Upto(i)) <= n
  BY <1>1
<1>8. \A i, j \in found : i <= j => Upto(i) \subseteq Upto(j)
  <2> TAKE i \in found, j \in found
  <2> SUFFICES ASSUME i <= j, NEW k \in found, k <= i PROVE k <= j
    OBVIOUS
  <2>1. i \in Nat /\ j \in Nat /\ k \in Nat
    BY <1>3
  <2> QED
    BY <2>1
<1>9. \A i, j \in found : i < j => i \in Upto(j) /\ j \in Upto(j)
  BY <1>3
<1>10. single => n <= 1
  OBVIOUS
<1>11. n \in Nat
  OBVIOUS
<1> HIDE DEF given, Upto, stop, n
<1>12. \A i \in given, j \in found \ given : i < j
  <2> SUFFICES ASSUME NEW i \in given, NEW j \in found \ given, j <= i PROVE FALSE
    BY <1>3, <1>6
  <2>1. Cardinality(Upto(j)) <= Cardinality(Upto(i))
    BY <1>5, <1>6, <1>8, FS_Subset
  <2> QED
    BY <1>5, <1>6, <1>7, <1>11, <2>1
<1>13. single => \A i, j \in given : i = j
  <2> SUFFICES ASSUME single, NEW i \in given, NEW j \in given, i < j PROVE FALSE
    BY <1>3, <1>6
  <2>1. Cardinality({i, j}) = 2
    <3>1. IsFiniteSet({i}) /\ Cardinality({i}) = 1
      BY FS_Singleton
    <3>2. j \notin {i} /\ {i} \cup {j} = {i, j}
      BY <1>3, <1>6
    <3> QED
      BY <3>1, <3>2, FS_AddElement
  <2>2. {i, j} \subseteq Upto(j)
    BY <1>6, <1>9
  <2>3. Cardinality({i, j}) <= Cardinality(Upto(j))
    BY <1>5, <1>6, <2>2, FS_Subset
  <2>4. Cardinality(Upto(j)) <= n
    BY <1>6, <1>7
  <2> QED
    BY <1>5, <1>6, <1>10, <1>11, <2>1, <2>3, <2>4
<1>14. CASE whole
  <2>1. stop = end /\ found = given
    BY <1>2, <1>14
  <2>2. \A i \in found : i \in given <=> i <= stop
    BY <1>3, <2>1
  <2>3. given = {i \in found : i <= stop}
    BY <1>6, <2>2
  <2> QED
    BY <2>1, <2>3
<1>15. CASE ~whole /\ single /\ given # {}
  <2>1. stop \in given
    <3>1. given \subseteq Nat
      BY <1>3, <1>6
    <3> QED
      BY <1>2, <1>15, <3>1, LeastOf
  <2>2. \A i \in given : i = stop
    BY <1>13, <1>15, <2>1
  <2>3. \A i \in found \ given : stop < i
    BY <1>12, <2>1
  <2>4. \A i \in found : i \in given <=> i <= stop
    BY <1>3, <1>6, <2>1, <2>2, <2>3
  <2>5. stop \in from..end /\ found # {}
    BY <1>3, <1>6, <2>1
  <2> QED
    BY <1>6, <2>4, <2>5
<1>16. CASE ~whole /\ ~(single /\ given # {})
  <2>1. found \ given # {}
    BY <1>6, <1>16
  <2>2. PICK m \in found \ given : stop = m - 1 /\ \A i \in found \ given : m <= i
    <3>1. found \ given \subseteq Nat
      BY <1>3
    <3> QED
      BY <1>2, <1>16, <2>1, <3>1, LeastOf
  <2>3. \A i \in given : i < m
    BY <1>12
  <2>4. \A i \in found : i \in given <=> i <= stop
    BY <1>3, <1>6, <2>2, <2>3
  <2>5. stop \in from..end /\ found # {}
    BY <1>3, <2>2
  <2> QED
    BY <1>6, <2>4, <2>5
<1> QED
  BY <1>14, <1>15, <1>16

\* How often a list has a name among some of its positions; at most once when
\* it is injective.
Times(list, given, n) == Cardinality({i \in given : list[i] = n})

\* What Times is of an injective list.
LEMMA Counted ==
  ASSUME NEW list, NEW given \in SUBSET (1..Len(list)), Len(list) \in Nat,
         IsInjective(list), DOMAIN list = 1..Len(list),
         NEW n
  PROVE  /\ (\E i \in given : list[i] = n) => Times(list, given, n) = 1
         /\ ~(\E i \in given : list[i] = n) => Times(list, given, n) = 0
<1>1. ASSUME NEW i \in given, list[i] = n PROVE {j \in given : list[j] = n} = {i}
  BY <1>1 DEF IsInjective
<1>2. ASSUME ~(\E i \in given : list[i] = n) PROVE {j \in given : list[j] = n} = {}
  BY <1>2
<1> QED
  BY <1>1, <1>2, FS_Singleton, FS_EmptySet DEF Times

\* SetToSeq puts a finite set in a list that has each element once.
LEMMA SetListed ==
  ASSUME NEW S, IsFiniteSet(S)
  PROVE  LET list == SetToSeq(S)
         IN  /\ list \in Seq(S) /\ IsInjective(list)
             /\ \A x \in S : \E i \in 1..Len(list) : list[i] = x
<1> DEFINE n == Cardinality(S)
           list == SetToSeq(S)
<1>1. n \in Nat /\ \E f \in [1..n -> S] : IsInjective(f)
  BY FS_CardinalityType DEF ExistsBijection, Bijection, Injection
<1>2. list \in [1..n -> S] /\ IsInjective(list)
  BY <1>1 DEF SetToSeq
<1> HIDE DEF list, n
<1>3. list \in Seq(S) /\ Len(list) = n /\ DOMAIN list = 1..n
  BY <1>1, <1>2
<1> DEFINE R == {list[i] : i \in 1..n}
<1>4. R \subseteq S
  BY <1>2
<1>5. list \in Bijection(1..n, R)
  BY <1>2 DEF Bijection, Injection, Surjection
<1>6. Cardinality(R) = n
  <2>1. IsFiniteSet(1..n) /\ Cardinality(1..n) = n
    BY <1>1, FS_Interval
  <2>2. ExistsBijection(1..n, R)
    BY <1>5 DEF ExistsBijection
  <2> HIDE DEF R
  <2> QED
    BY <2>1, <2>2, FS_Bijection
<1>7. R = S
  <2> HIDE DEF R
  <2> QED
    BY <1>4, <1>6, FS_Subset DEF n
<1> QED
  BY <1>2, <1>3, <1>7 DEF list

\* A fresh listing has the two dots and what there is, each once.
LEMMA ListingFacts ==
  ASSUME NEW p
  PROVE  LET list == Listing(p)
         IN  /\ list \in Seq(Entries) /\ IsInjective(list)
             /\ \A n \in Children(p) \cup {".", ".."} : \E i \in 1..Len(list) : list[i] = n
<1> DEFINE dots == <<"..", ".">>
           rest == SetToSeq(Children(p))
           list == Listing(p)
<1>1. Children(p) \subseteq Names /\ IsFiniteSet(Children(p))
  <2>1. Children(p) \subseteq Names
    BY DEF Children
  <2> QED
    BY <2>1, ServerAssumption, FS_Subset
<1>2. /\ rest \in Seq(Children(p)) /\ IsInjective(rest)
      /\ \A n \in Children(p) : \E i \in 1..Len(rest) : rest[i] = n
  BY <1>1, SetListed
<1> HIDE DEF rest
<1>3. rest \in Seq(Entries) /\ dots \in Seq(Entries) /\ Len(dots) = 2
  <2>1. Children(p) \subseteq Entries /\ ".." \in Entries /\ "." \in Entries
    BY <1>1 DEF Entries
  <2> HIDE DEF list
  <2>2. rest \in Seq(Entries)
    BY <1>2, <2>1
  <2> QED
    BY <2>1, <2>2
<1>4. list = dots \o rest
  BY DEF Listing, rest
<1> HIDE DEF list
<1>5. /\ list \in Seq(Entries) /\ Len(list) = 2 + Len(rest)
      /\ \A i \in 1..Len(list) : list[i] = IF i <= 2 THEN dots[i] ELSE rest[i - 2]
  <2> HIDE DEF dots
  <2>1. /\ dots \o rest \in Seq(Entries) /\ Len(dots \o rest) = Len(dots) + Len(rest)
        /\ \A i \in 1..Len(dots) + Len(rest) :
              (dots \o rest)[i] = IF i <= Len(dots) THEN dots[i] ELSE rest[i - Len(dots)]
    BY <1>3, ConcatProperties
  <2> QED
    BY <1>3, <1>4, <2>1
<1>6. list[1] = ".." /\ list[2] = "." /\ \A i \in 3..Len(list) : list[i] = rest[i - 2]
  BY <1>3, <1>5
<1>7. \A i \in 1..Len(rest) : rest[i] \in Children(p) /\ i + 2 \in 3..Len(list) /\ list[i + 2] = rest[i]
  BY <1>2, <1>3, <1>5, <1>6
<1>8. \A i \in 3..Len(list) : list[i] = rest[i - 2] /\ i - 2 \in 1..Len(rest) /\ list[i] \in Names
  BY <1>1, <1>2, <1>3, <1>5, <1>6
<1>9. IsInjective(list)
  <2> SUFFICES ASSUME NEW i \in 1..Len(list), NEW j \in 1..Len(list), list[i] = list[j]
               PROVE  i = j
    BY <1>5 DEF IsInjective
  <2>1. CASE i \in 3..Len(list) /\ j \in 3..Len(list)
    <3>1. rest[i - 2] = rest[j - 2] /\ i - 2 \in DOMAIN rest /\ j - 2 \in DOMAIN rest
      BY <1>3, <1>8, <2>1
    <3>2. i - 2 = j - 2
      BY <1>2, <3>1 DEF IsInjective
    <3> QED
      BY <3>2
  <2>2. CASE i \in 1..2 /\ j \in 1..2
    BY <1>6, <2>2
  <2>3. CASE (i \in 1..2) # (j \in 1..2)
    BY <1>6, <1>8, <2>3, ServerAssumption
  <2> QED
    BY <1>5, <2>1, <2>2, <2>3
<1>10. \A n \in Children(p) \cup {".", ".."} : \E i \in 1..Len(list) : list[i] = n
  <2>1. 1 \in 1..Len(list) /\ 2 \in 1..Len(list)
    BY <1>3, <1>5
  <2>2. \A n \in Children(p) : \E i \in 1..Len(list) : list[i] = n
    <3> TAKE n \in Children(p)
    <3>1. PICK i \in 1..Len(rest) : rest[i] = n
      BY <1>2
    <3>2. i + 2 \in 1..Len(list) /\ list[i + 2] = n
      BY <1>7, <3>1
    <3> QED
      BY <3>2
  <2>3. \A n \in {".", ".."} : \E i \in 1..Len(list) : list[i] = n
    BY <1>6, <2>1
  <2> QED
    BY <2>2, <2>3
<1> QED
  BY <1>5, <1>9, <1>10 DEF list

-----------------------------------------------------------------------------
(* What a step leaves to the handles it is not about.                       *)

\* The answer says nothing of a listing.
Plain == last'.names = NoNames /\ ~last'.fresh /\ last'.known /\ last'.status # "NO_MORE_FILES"

\* The history of a step, handle by handle.
LEMMA HistoryFacts ==
  ASSUME History
  PROVE  /\ DOMAIN opened' = DOMAIN handles'
         /\ \A f \in DOMAIN handles' :
               /\ opened'[f] = IF f \in DOMAIN opened THEN opened[f] ELSE dir'[handles'[f].path]
               /\ f \in stale' <=> \/ f \in stale
                                   \/ /\ f \in DOMAIN handles /\ f # last'.file
                                      /\ dir'[handles[f].path] # dir[handles[f].path]
         /\ DOMAIN scan' = Scanned'
         /\ \A f \in Scanned' : scan'[f] = Seen(f)
<1>1. DOMAIN scan' = Scanned' /\ \A f \in Scanned' : scan'[f] = Seen(f)
  BY DEF History, Scanned, Listed
<1> QED
  BY <1>1 DEF History

\* A handle whose path, descriptor and files stay is where it was.
LEMMA FileKept ==
  ASSUME Types, Kept, History, NEW f \in DOMAIN handles, f \in DOMAIN handles',
         handles'[f].path = handles[f].path, handles'[f].fd = handles[f].fd,
         f # last'.file \/ dir' = dir,
         handles[f].fd # 0 => fds'[handles[f].fd].what = fds[handles[f].fd].what
  PROVE  KeptAt(f)'
<1>1. opened'[f] = opened[f] /\ (f \notin stale' => f \notin stale /\ dir'[handles[f].path] = dir[handles[f].path])
  BY HistoryFacts DEF Kept
<1> QED
  BY <1>1 DEF Kept, KeptAt

\* A listing goes on as it was while the request answered is another's.
LEMMA ScanKept ==
  ASSUME Types, ScanInv, History, NEW f \in DOMAIN handles, f \in DOMAIN handles',
         handles'[f].path[1] = handles[f].path[1],
         handles'[f].path[2] = Top <=> handles[f].path[2] = Top,
         handles'[f].entries = handles[f].entries, handles'[f].offset = handles[f].offset,
         f # last'.file \/ Plain
  PROVE  f \in Scanned' => ScanAt(f)'
<1> SUFFICES ASSUME f \in Scanned' PROVE ScanAt(f)'
  OBVIOUS
<1>1. f \in Scanned /\ f \in DOMAIN scan /\ ScanAt(f)
  BY DEF Scanned, ScanInv
<1>2. scan'[f] = Seen(f)
  BY HistoryFacts
<1> DEFINE share == handles[f].path[1]
           gain(n) == IF f = last'.file THEN last'.names[n] ELSE 0
<1>3. scan[f].seen \in [Entries -> Nat] /\ \A n \in Entries : scan[f].seen[n] \in Nat
  BY <1>1 DEF ScanAt, Follows
<1>4. Seen(f) = [seen |-> [n \in Entries |-> scan[f].seen[n] + gain(n)],
                 stay |-> {n \in scan[f].stay : dir'[<<handles'[f].path[1], n>>] # None},
                 known |-> scan[f].known /\ (f = last'.file => last'.known)]
  BY <1>1 DEF Seen, Plain
<1>5. \A n \in Entries : gain(n) = 0
  BY DEF Plain, NoNames
<1>6. /\ scan'[f].stay = {n \in scan[f].stay : dir'[<<share, n>>] # None}
      /\ scan'[f].known => scan[f].known
      /\ scan'[f].seen = [n \in Entries |-> scan[f].seen[n] + gain(n)]
  <2>1. scan'[f].stay = {n \in scan[f].stay : dir'[<<handles'[f].path[1], n>>] # None}
    BY <1>2, <1>4
  <2>2. scan'[f].known = (scan[f].known /\ (f = last'.file => last'.known))
    BY <1>2, <1>4
  <2>3. scan'[f].seen = [n \in Entries |-> scan[f].seen[n] + gain(n)]
    BY <1>2, <1>4
  <2> QED
    BY <2>1, <2>2, <2>3
<1> HIDE DEF gain
<1>7. scan'[f].seen \in [Entries -> Nat] /\ \A n \in Entries : scan'[f].seen[n] = scan[f].seen[n]
  BY <1>3, <1>5, <1>6
<1> DEFINE list == handles[f].entries
           offset == handles[f].offset
           was == scan[f]
           is == scan'[f]
<1>8. Follows(dir, share, list, offset, was)
  BY <1>1 DEF ScanAt
<1> HIDE DEF share, list, offset, was, is
<1>9. Follows(dir', share, list, offset, is)
  <2>1. \A n \in is.stay \cup {".", ".."} : n \in Entries /\ n \in was.stay \cup {".", ".."}
    BY <1>6, <1>8 DEF Follows, Entries, is, was
  <2>2. is.seen \in [Entries -> Nat] /\ \A n \in Entries : is.seen[n] = was.seen[n]
    BY <1>7 DEF is, was
  <2>3. is.stay = {n \in was.stay : dir'[<<share, n>>] # None} /\ (is.known => was.known)
    BY <1>6 DEF is, was
  <2> QED
    BY <1>8, <2>1, <2>2, <2>3 DEF Follows
<1>10. /\ share = handles'[f].path[1] /\ list = handles'[f].entries /\ offset = handles'[f].offset
       /\ is = scan'[f]
  BY DEF share, list, offset, is
<1>11. last'.file = f => last'.status # "NO_MORE_FILES"
  BY DEF Plain
<1> QED
  BY <1>9, <1>10, <1>11 DEF ScanAt

-----------------------------------------------------------------------------
(* The host, the trees and the frame.                                       *)

\* What an instance gives.
LEMMA BoundFacts ==
  ASSUME HostTypes
  PROVE  /\ bound.names \subseteq Names /\ bound.shares \subseteq SUBSET Shares
         /\ bound.handles \in Nat /\ bound.trees \in Nat /\ bound.frame \in Nat
         /\ \A r \in bound.creates :
               r.writes \in BOOLEAN /\ r.folder \in BOOLEAN /\ r.deletes \in BOOLEAN
         /\ \A q \in bound.lists : Room(q.class, 1, q.buffer) \in Nat
  BY ServerAssumption DEF HostTypes

\* A place other than a shared directory can be given a file or emptied.
LEMMA PlacePut ==
  ASSUME NEW d \in Places, NEW p \in Paths, NEW x \in Nat \cup {None},
         p[2] # Top \/ d[p] = None \/ d[p] = x
  PROVE  [d EXCEPT ![p] = x] \in Places
<1>1. \A s \in Shares : TopOf(s) \in Paths /\ d[TopOf(s)] = s
  BY DEF Places, Paths, TopOf
<1>2. \A s \in Shares : TopOf(s)[2] = Top /\ s # None
  BY ServerAssumption DEF TopOf
<1>3. \A s \in Shares : s = d[p] /\ p = TopOf(s) => x = s
  BY <1>2, <1>1
<1> QED
  BY <1>1, <1>2, <1>3 DEF Places

\* What a tree id leads to is a share, or nothing.
LEMMA ShareFacts ==
  ASSUME TreeInv, NEW t, ShareOf(t) # None
  PROVE  t \in DOMAIN trees /\ t \in Nat /\ trees[t] = ShareOf(t) /\ ShareOf(t) \in Shares
  BY DEF ShareOf, TreeInv

\* What is left of a frame when a request of it is answered.
LEMMA RestFacts ==
  ASSUME NEW r \in Frames, r.left > 0
  PROVE  /\ Rest(r) \in Frames
         /\ \/ Rest(r) = NoFrame
            \/ Rest(r).left > 0 /\ Rest(r).file = r.file /\ Rest(r).base = r.base
  BY DEF Rest, Frames, NoFrame

\* An answer leaves the file of the frame alone.
LEMMA ReplyKeepsChain ==
  ASSUME ChainInv, counter \in Nat, counter' = counter, NEW tid \in Nat, NEW reply, Replied(tid, reply)
  PROVE  ChainInv'
<1> DEFINE r == [frame EXCEPT !.tree = tid]
<1>1. r \in Frames /\ r.left > 0 /\ r.file = frame.file /\ r.base = frame.base
  BY DEF ChainInv, Frames, Replied, Serving
<1>2. frame' = Rest(r)
  BY DEF Replied
<1> HIDE DEF r
<1> QED
  BY <1>1, <1>2, RestFacts DEF ChainInv, Serving, NoFrame

\* The tree id of an answer is a number.
LEMMA TreeOfNat ==
  ASSUME ChainInv, HandleTypes, NEW f, NEW chain
  PROVE  TreeOf(f, chain) \in Nat
  BY DEF TreeOf, ChainInv, Frames, HandleTypes, HandleRecords, Known

-----------------------------------------------------------------------------
(* The steps, command by command.                                           *)

\* The host has its types after a step that leaves its directories alone.
LEMMA HostSame ==
  ASSUME HostTypes, UNCHANGED <<bound, hostVars, config>>
  PROVE  HostTypes'
  BY DEF HostTypes, hostVars

\* A step that leaves paths, descriptors and listings of the handles alone
\* keeps what is known of them.
LEMMA SameHandles ==
  ASSUME ServerInv, History, bound' = bound, DOMAIN handles' = DOMAIN handles, fds' = fds,
         \A f \in DOMAIN handles :
            /\ handles'[f].path = handles[f].path /\ handles'[f].fd = handles[f].fd
            /\ handles'[f].entries = handles[f].entries /\ handles'[f].offset = handles[f].offset,
         (dir' = dir /\ Plain) \/ last'.file = 0
  PROVE  Descriptors' /\ Kept' /\ ScanInv'
<1>1. Holders' = Holders /\ \A f \in Holders : f \in DOMAIN handles /\ handles'[f].fd = handles[f].fd
  BY DEF Holders
<1>2. Descriptors'
  BY <1>1 DEF ServerInv, Descriptors
<1>3. \A f \in DOMAIN handles : f # 0
  BY DEF ServerInv, Types, HandleTypes
<1>4. Kept'
  <2>1. \A f \in DOMAIN handles : KeptAt(f)'
    BY <1>3, FileKept DEF ServerInv
  <2> QED
    BY <2>1, HistoryFacts DEF Kept
<1>5. \A f \in Scanned' : ScanAt(f)'
  <2>1. \A f \in DOMAIN handles : f \in Scanned' => ScanAt(f)'
    BY <1>3, ScanKept DEF ServerInv
  <2> QED
    BY <2>1 DEF Scanned
<1> QED
  BY <1>2, <1>4, <1>5, HistoryFacts DEF ServerInv, ScanInv

\* An answer of one status says nothing of a listing.
LEMMA PlainAnswer ==
  ASSUME NEW tid, NEW status, NEW f, NEW chain, Answered(tid, status, f, chain),
         status # "NO_MORE_FILES"
  PROVE  Plain /\ last'.file = f /\ last'.chain = chain
  BY DEF Answered, Replied, Plain, NoRequest

\* A step that answers nothing says nothing either.
LEMMA PlainNothing ==
  ASSUME last' = NoRequest
  PROVE  Plain /\ last'.file = 0 /\ last'.chain = FALSE
  BY DEF Plain, NoRequest

\* A step that leaves the handles and the descriptors keeps the invariant
\* where it keeps the host, the trees and the frame.
LEMMA QuietKeeps ==
  ASSUME ServerInv, History, bound' = bound, UNCHANGED handleVars,
         HostTypes', TreeInv', ChainInv', (dir' = dir /\ Plain) \/ last'.file = 0
  PROVE  ServerInv'
<1>1. handles' = handles /\ counter' = counter /\ fds' = fds
  BY DEF handleVars
<1>2. Descriptors' /\ Kept' /\ ScanInv'
  BY <1>1, SameHandles
<1>3. HandleTypes'
  BY <1>1 DEF ServerInv, Types, HandleTypes
<1> QED
  BY <1>2, <1>3 DEF ServerInv, Types

\* Trees and handles that stay keep what is known of the trees.
LEMMA TreesSame ==
  ASSUME TreeInv, UNCHANGED treeVars, UNCHANGED handles
  PROVE  TreeInv'
  BY DEF TreeInv, treeVars

\* The loop.
LEMMA LoopKeeps ==
  ASSUME ServerInv, History, bound' = bound,
         \/ \E n \in 1..bound.frame : FrameArrives(n)
         \/ DispatchRaises \/ BadHeader \/ \E status \in Stateless : Other(status)
  PROVE  ServerInv'
<1>1. /\ UNCHANGED <<bound, hostVars, config>> /\ UNCHANGED treeVars /\ UNCHANGED handleVars
      /\ UNCHANGED handles /\ UNCHANGED counter /\ UNCHANGED dir
  BY DEF FrameArrives, DispatchRaises, BadHeader, Other, handleVars, hostVars
<1>2. HostTypes' /\ TreeInv'
  BY <1>1, HostSame, TreesSame DEF ServerInv, Types
<1>3. Plain
  <2>1. CASE \E status \in Stateless : Other(status)
    <3>1. \A status \in Stateless : status # "NO_MORE_FILES"
      BY DEF Stateless, SessionSetup
    <3> QED
      BY <2>1, <3>1, PlainAnswer DEF Other
  <2>2. CASE DispatchRaises
    BY <2>2 DEF DispatchRaises, Plain, NoRequest
  <2> QED
    BY <2>1, <2>2, PlainNothing DEF FrameArrives, BadHeader
<1>4. ChainInv'
  <2>1. counter \in Nat /\ frame \in Frames /\ ChainInv
    BY DEF ServerInv, Types, HandleTypes, ChainInv
  <2>2. ASSUME NEW n \in 1..bound.frame, FrameArrives(n) PROVE ChainInv'
    <3>1. n \in Nat /\ n > 0
      BY BoundFacts DEF ServerInv, Types
    <3>2. frame.file = 0
      BY <2>1, <2>2 DEF FrameArrives, ChainInv
    <3>3. frame' \in Frames /\ frame'.base = counter /\ frame'.file = 0
      BY <2>1, <2>2, <3>1, <3>2 DEF FrameArrives, Frames
    <3> QED
      BY <1>1, <2>1, <3>3 DEF ChainInv
  <2>3. CASE BadHeader
    BY <1>1, <2>1, <2>3 DEF BadHeader, ChainInv, NoFrame, Frames
  <2>4. CASE DispatchRaises
    <3>1. frame' = Rest(frame) /\ frame.left > 0
      BY <2>4 DEF DispatchRaises, Serving
    <3> QED
      BY <1>1, <2>1, <3>1, RestFacts DEF ChainInv, NoFrame, Serving
  <2>5. CASE \E status \in Stateless : Other(status)
    BY <1>1, <2>1, <2>5, ReplyKeepsChain DEF Other, Answered
  <2> QED
    BY <2>2, <2>3, <2>4, <2>5
<1> QED
  BY <1>1, <1>2, <1>3, <1>4, QuietKeeps

\* The ids of trees that can be asked for are numbers.
LEMMA TreeNat ==
  ASSUME ServerInv, NEW t \in TreeIds, NEW chain
  PROVE  t \in Nat /\ Tree(t, chain) \in Nat
  BY BoundFacts DEF ServerInv, Types, TreeInv, ChainInv, Frames, TreeIds, Tree

\* Trees.
LEMMA TreesKeep ==
  ASSUME ServerInv, History, bound' = bound,
         \/ \E s \in Shares \cup {Ipc} : TreeConnect(s)
         \/ \E t \in TreeIds : TreeDisconnect(t)
  PROVE  ServerInv'
<1>1. /\ UNCHANGED <<bound, hostVars, config>> /\ UNCHANGED handleVars
      /\ UNCHANGED handles /\ UNCHANGED counter /\ UNCHANGED dir
  BY DEF TreeConnect, TreeDisconnect, handleVars, hostVars
<1>2. HostTypes' /\ TreeInv /\ ChainInv /\ counter \in Nat /\ config \subseteq Shares
  BY <1>1, HostSame DEF ServerInv, Types, HostTypes, HandleTypes
<1>3. ASSUME NEW s \in Shares \cup {Ipc}, TreeConnect(s) PROVE TreeInv' /\ ChainInv' /\ Plain
  <2>1. \/ trees' = trees /\ nextTree' = nextTree
        \/ trees' = Put(trees, nextTree, s) /\ nextTree' = nextTree + 1
    BY <1>3 DEF TreeConnect, NewTree
  <2>2. shares' \subseteq Shares
    BY <1>2, <1>3 DEF TreeConnect, Reloaded
  <2>3. nextTree \in Nat /\ nextTree \notin DOMAIN trees
    BY <1>2 DEF TreeInv
  <2>4. /\ DOMAIN trees \subseteq DOMAIN trees' /\ DOMAIN trees' \subseteq DOMAIN trees \cup {nextTree}
        /\ \A t \in DOMAIN trees : trees'[t] = trees[t]
        /\ nextTree \in DOMAIN trees' => nextTree' = nextTree + 1
        /\ nextTree' \in Nat /\ nextTree <= nextTree'
    BY <2>1, <2>3 DEF Put
  <2>5. TreeInv'
    <3>1. \A f \in DOMAIN handles : handles[f].tree # nextTree /\ handles[f].tree < nextTree'
      BY <1>2, <2>3, <2>4 DEF TreeInv, ServerInv, Types, HandleTypes, HandleRecords
    <3>2. DOMAIN trees' \subseteq Nat /\ \A t \in DOMAIN trees' : t < nextTree'
      BY <1>2, <2>3, <2>4 DEF TreeInv
    <3> QED
      BY <1>1, <1>2, <2>2, <2>4, <3>1, <3>2 DEF TreeInv
  <2>6. CASE s \in Reloaded \cup {Ipc}
    <3>1. Answered(nextTree, "SUCCESS", 0, FALSE)
      BY <1>3, <2>6 DEF TreeConnect, NewTree
    <3> QED
      BY <1>1, <1>2, <2>3, <2>5, <3>1, PlainAnswer, ReplyKeepsChain DEF Answered
  <2>7. CASE s \notin Reloaded \cup {Ipc}
    <3>1. Answered(0, "BAD_NETWORK_NAME", 0, FALSE)
      BY <1>3, <2>7 DEF TreeConnect
    <3> QED
      BY <1>1, <1>2, <2>5, <3>1, PlainAnswer, ReplyKeepsChain DEF Answered
  <2> QED
    BY <2>6, <2>7
<1>4. ASSUME NEW t \in TreeIds, TreeDisconnect(t) PROVE TreeInv' /\ ChainInv' /\ Plain
  <2>1. /\ DOMAIN trees' \subseteq DOMAIN trees
        /\ \A i \in DOMAIN trees' : trees'[i] = trees[i]
    BY <1>4 DEF TreeDisconnect, Restrict
  <2>2. TreeInv'
    BY <1>1, <1>2, <1>4, <2>1 DEF TreeInv, TreeDisconnect
  <2>3. t \in Nat /\ Answered(t, "SUCCESS", 0, FALSE)
    BY <1>4, TreeNat DEF TreeDisconnect
  <2> QED
    BY <1>1, <1>2, <2>2, <2>3, PlainAnswer, ReplyKeepsChain DEF Answered
<1> QED
  BY <1>1, <1>2, <1>3, <1>4, QuietKeeps

\* The host.
LEMMA HostKeeps ==
  ASSUME ServerInv, History, bound' = bound, Host
  PROVE  ServerInv'
<1>1. HostOnly
  BY DEF Host, HostMakes, HostRemoves, HostShares
<1>2. /\ Plain /\ last'.file = 0 /\ UNCHANGED handleVars /\ UNCHANGED handles
      /\ UNCHANGED treeVars /\ frame' = frame /\ counter' = counter
  BY <1>1, PlainNothing DEF HostOnly, handleVars
<1>3. TreeInv' /\ ChainInv'
  BY <1>2, TreesSame DEF ServerInv, ChainInv, Serving
<1>4. HostTypes /\ bound.names \subseteq Names /\ bound.shares \subseteq SUBSET Shares
  BY BoundFacts DEF ServerInv, Types
<1>5. \A p \in Shares \X bound.names : p \in Paths /\ p[2] # Top
  BY <1>4, ServerAssumption DEF Paths
<1>6. HostTypes'
  <2>1. ASSUME NEW p \in Shares \X bound.names, HostMakes(p) \/ HostRemoves(p)
        PROVE  HostTypes'
    <3>1. PICK x \in Nat \cup {None} : dir' = [dir EXCEPT ![p] = x]
      <4>1. CASE HostMakes(p)
        <5>1. made + 1 \in Nat /\ dir' = [dir EXCEPT ![p] = made + 1]
          BY <1>4, <4>1 DEF HostMakes, HostTypes
        <5> QED
          BY <5>1
      <4>2. CASE HostRemoves(p)
        BY <4>2 DEF HostRemoves
      <4> QED
        BY <2>1, <4>1, <4>2
    <3>2. dir' \in Places
      BY <1>4, <1>5, <3>1, PlacePut DEF HostTypes
    <3> QED
      BY <1>4, <2>1, <3>2 DEF HostTypes, HostMakes, HostRemoves
  <2>2. ASSUME NEW set \in bound.shares, HostShares(set) PROVE HostTypes'
    BY <1>4, <2>2 DEF HostShares, HostTypes, hostVars
  <2> QED
    BY <2>1, <2>2 DEF Host
<1> QED
  BY <1>2, <1>3, <1>6, QuietKeeps

\* Requests on a file that are refused or only look, and the pending deletion.
LEMMA AccessKeeps ==
  ASSUME ServerInv, History, bound' = bound, NEW f, NEW chain,
         \/ Access(f, chain)
         \/ \E pending \in BOOLEAN : Known(f) /\ SetDisposition(f, chain, pending)
         \/ \E n \in bound.names, replace \in BOOLEAN : RenameRefused(f, chain, n, replace)
         \/ \E restart \in BOOLEAN : ListRefused(f, chain, restart)
         \/ CloseUnknown(f, chain)
  PROVE  ServerInv'
<1>1. PICK status : OnFile(f, chain, status) /\ status # "NO_MORE_FILES"
  <2>1. \A s \in ReadStatus(f) \cup {WriteStatus(f), FlushStatus(f), SetStatus(f)}
                 \cup {QueryStatus(f, q) : q \in QueryRequests} : s # "NO_MORE_FILES"
    <3>1. \A q : InfoStatus(q) # "NO_MORE_FILES"
      BY DEF InfoStatus
    <3>2. \A q \in QueryRequests : QueryStatus(f, q) # "NO_MORE_FILES"
      BY <3>1 DEF QueryStatus
    <3> QED
      BY <3>2 DEF ReadStatus, WriteStatus, FlushStatus, SetStatus
  <2>2. ASSUME NEW n, NEW replace PROVE RenameRefusal(f, n, replace) # "NO_MORE_FILES"
    <3> DEFINE refusals ==
            << <<~Known(f), "INVALID_HANDLE">>,
               <<Known(f) /\ handles[f].readonly, "ACCESS_DENIED">>,
               <<Known(f) /\ ShareOf(handles[f].tree) = None, "ACCESS_DENIED">>,
               <<Known(f) /\ Exists(<<handles[f].path[1], n>>) /\ ~replace,
                 "OBJECT_NAME_COLLISION">> >>
    <3>1. Len(refusals) = 4 /\ \A i \in 1..4 : refusals[i][2] # "NO_MORE_FILES"
      OBVIOUS
    <3>2. RenameRefusal(f, n, replace) = First(refusals)
      BY DEF RenameRefusal
    <3> HIDE DEF refusals
    <3> QED
      BY <3>1, <3>2, FirstRefuses
  <2> QED
    BY <2>1, <2>2 DEF Access, SetDisposition, RenameRefused, ListRefused, CloseUnknown
<1>2. /\ UNCHANGED <<bound, hostVars, config>> /\ UNCHANGED treeVars /\ dir' = dir
      /\ Answered(TreeOf(f, chain), status, f, chain)
  BY <1>1 DEF OnFile, hostVars
<1>3. Plain /\ counter' = counter /\ fds' = fds
  BY <1>1, <1>2, PlainAnswer
     DEF Access, SetDisposition, RenameRefused, ListRefused, CloseUnknown, handleVars
<1>4. HostTypes' /\ ChainInv'
  <2>1. TreeOf(f, chain) \in Nat
    BY TreeOfNat DEF ServerInv, Types
  <2> QED
    BY <1>2, <1>3, <2>1, HostSame, ReplyKeepsChain DEF Answered, ServerInv, Types, HandleTypes
<1>5. CASE UNCHANGED handleVars
  <2>1. TreeInv'
    BY <1>2, <1>5, TreesSame DEF ServerInv, handleVars
  <2> QED
    BY <1>2, <1>3, <1>4, <1>5, <2>1, QuietKeeps
<1>6. ASSUME NEW pending \in BOOLEAN, Known(f), SetDisposition(f, chain, pending)
      PROVE  ServerInv'
  <2>1. handles' = [handles EXCEPT ![f].deletes = pending] /\ f \in DOMAIN handles /\ HandleTypes
    BY <1>6 DEF SetDisposition, Known, ServerInv, Types
  <2>2. handles' \in [DOMAIN handles -> HandleRecords] /\ DOMAIN handles' = DOMAIN handles
    BY <2>1 DEF HandleTypes, HandleRecords
  <2>3. \A g \in DOMAIN handles :
            /\ handles'[g].path = handles[g].path /\ handles'[g].fd = handles[g].fd
            /\ handles'[g].entries = handles[g].entries /\ handles'[g].offset = handles[g].offset
            /\ handles'[g].tree = handles[g].tree
    BY <2>1 DEF HandleTypes, HandleRecords
  <2>4. HandleTypes'
    BY <1>2, <1>3, <2>1, <2>2 DEF HandleTypes
  <2>5. TreeInv'
    BY <1>2, <2>2, <2>3 DEF ServerInv, TreeInv, treeVars
  <2>6. Descriptors' /\ Kept' /\ ScanInv'
    BY <1>2, <1>3, <2>2, <2>3, SameHandles
  <2> QED
    BY <1>4, <2>4, <2>5, <2>6 DEF ServerInv, Types
<1> QED
  BY <1>5, <1>6 DEF Access, RenameRefused, ListRefused, CloseUnknown

\* CREATE, refused or failing half way.
LEMMA RefusedKeeps ==
  ASSUME ServerInv, History, bound' = bound, NEW r, NEW t \in Nat,
         NEW n \in bound.names \cup {Top}, NEW chain,
         CreateRefused(r, t, n, chain) \/ CreateFails(r, t, n, chain)
  PROVE  ServerInv'
<1>1. PICK status : Answered(t, status, 0, chain)
  BY DEF CreateRefused, CreateFails, Refused
<1>2. /\ last'.file = 0 /\ UNCHANGED handleVars /\ UNCHANGED treeVars /\ UNCHANGED handles
      /\ counter' = counter /\ config' = config
  BY <1>1 DEF CreateRefused, CreateFails, Refused, Answered, Replied, NoRequest, handleVars
<1>3. TreeInv' /\ ChainInv'
  BY <1>1, <1>2, TreesSame, ReplyKeepsChain DEF ServerInv, Types, HandleTypes, Answered
<1>4. HostTypes'
  <2>1. HostTypes /\ bound.names \subseteq Names
    BY BoundFacts DEF ServerInv, Types
  <2>2. CASE UNCHANGED hostVars
    BY <1>2, <2>1, <2>2, HostSame
  <2>3. CASE ~UNCHANGED hostVars
    <3> DEFINE p == <<ShareOf(t), n>>
    <3>1. /\ CreateFails(r, t, n, chain) /\ ShareOf(t) # None
          /\ dir' = [dir EXCEPT ![p] = made + 1] /\ made' = made + 1 /\ dir[p] = None
      BY <2>3 DEF CreateRefused, CreateFails, Refused, Makes, Exists, hostVars
    <3>2. p \in Paths
      BY <2>1, <3>1, ShareFacts DEF ServerInv, Paths
    <3>3. made + 1 \in Nat /\ dir \in Places
      BY <2>1 DEF HostTypes
    <3>4. dir' \in Places
      BY <3>1, <3>2, <3>3, PlacePut
    <3> QED
      BY <1>2, <2>1, <3>1, <3>3, <3>4 DEF HostTypes
  <2> QED
    BY <2>2, <2>3
<1> QED
  BY <1>2, <1>3, <1>4, QuietKeeps

\* The lowest number is free: there are no more descriptors than handles.
LEMMA NewDescriptor ==
  ASSUME HostTypes, HandleTypes, Descriptors, NEW S \in SUBSET (DOMAIN fds)
  PROVE  LowestFd(S) \in Nat \ {0} /\ LowestFd(S) \notin S
<1> DEFINE numbers == {handles[f].fd : f \in Holders}
<1>1. IsFiniteSet(1..counter) /\ Cardinality(1..counter) = counter /\ counter \in Nat
      /\ counter <= bound.handles /\ bound.handles \in Nat
  <2>1. counter \in Nat /\ counter <= bound.handles /\ bound.handles \in Nat
    BY BoundFacts DEF HandleTypes
  <2>2. IsFiniteSet(1..counter) /\ Cardinality(1..counter) = counter
    BY <2>1, FS_Interval
  <2> QED
    BY <2>1, <2>2
<1>2. IsFiniteSet(Holders) /\ Cardinality(Holders) <= counter
  <2>1. Holders \subseteq 1..counter
    BY DEF Holders, HandleTypes
  <2> QED
    BY <1>1, <2>1, FS_Subset
<1>3. IsFiniteSet(DOMAIN fds) /\ Cardinality(DOMAIN fds) <= Cardinality(Holders)
  <2>1. [f \in Holders |-> handles[f].fd] \in Surjection(Holders, numbers)
    BY DEF Surjection
  <2>2. IsFiniteSet(numbers) /\ Cardinality(numbers) <= Cardinality(Holders)
    BY <1>2, <2>1, FS_Surjection
  <2> QED
    BY <2>2 DEF Descriptors
<1>4. /\ IsFiniteSet(S) /\ Cardinality(S) <= Cardinality(DOMAIN fds)
      /\ Cardinality(S) \in Nat /\ Cardinality(DOMAIN fds) \in Nat /\ Cardinality(Holders) \in Nat
  BY <1>2, <1>3, FS_Subset, FS_CardinalityType
<1>5. Cardinality(S) <= bound.handles
  BY <1>1, <1>2, <1>3, <1>4
<1> QED
  BY <1>1, <1>4, <1>5, LowestIsFree

\* CREATE: the new handle is on what its path leads to.
LEMMA CreateKeeps ==
  ASSUME ServerInv, History, bound' = bound, NEW r \in bound.creates, NEW t \in Nat,
         NEW n \in bound.names \cup {Top}, NEW chain, Create(r, t, n, chain)
  PROVE  ServerInv'
<1>0. PICK f \in Nat \ {0} : f = counter + 1
  BY DEF ServerInv, Types, HandleTypes
<1> DEFINE p == <<ShareOf(t), n>>
           folder == IF Makes(r, p) THEN MakesFolder(r, p) ELSE IsFolder(p)
           fd == IF folder THEN 0 ELSE LowestFd(DOMAIN fds)
           what == IF Makes(r, p) THEN made + 1 ELSE dir[p]
           new == NewHandle(r, t, p, fd, folder)
<1>1. HostTypes /\ HandleTypes /\ Descriptors /\ TreeInv /\ ChainInv /\ bound.names \subseteq Names
      /\ r.deletes \in BOOLEAN /\ r.folder \in BOOLEAN /\ bound.handles \in Nat
  BY BoundFacts DEF ServerInv, Types
<1>2. t \in DOMAIN trees /\ trees[t] = p[1] /\ p \in Paths /\ ShareOf(t) # None
  BY <1>1, ShareFacts DEF Create, Paths
<1>3. fd \in Nat /\ (fd # 0 => fd \notin DOMAIN fds) /\ folder \in BOOLEAN
  <2>1. LowestFd(DOMAIN fds) \in Nat \ {0} /\ LowestFd(DOMAIN fds) \notin DOMAIN fds
    BY <1>1, NewDescriptor
  <2>2. folder \in BOOLEAN
    <3>1. MakesFolder(r, p) \in BOOLEAN
      BY <1>1 DEF MakesFolder, Makes
    <3>2. IsFolder(p) \in BOOLEAN
      BY DEF IsFolder
    <3> QED
      BY <3>1, <3>2
  <2> HIDE DEF folder
  <2> QED
    BY <2>1, <2>2
<1>4. new \in HandleRecords
  <2> HIDE DEF folder, fd, p
  <2> QED
    BY <1>1, <1>2, <1>3 DEF NewHandle, HandleRecords
<1>5. /\ handles' = Put(handles, f, new) /\ counter' = f /\ counter < bound.handles
      /\ fds' = IF folder THEN fds
                ELSE Put(fds, fd, [what |-> what, writes |-> r.writes /\ ShareOf(t) \notin ReadOnly])
      /\ dir' = [dir EXCEPT ![p] = what] /\ made' = (IF Makes(r, p) THEN made + 1 ELSE made)
      /\ frame' = Rest([frame EXCEPT !.tree = t, !.file = f]) /\ frame.left > 0
      /\ last'.file = f
      /\ UNCHANGED <<config, treeVars>>
  BY <1>0 DEF Create, Serving, NoRequest
<1>6. new.path = p /\ new.fd = fd /\ new.entries = None /\ new.tree = t
  BY DEF NewHandle
<1>7. dir' \in Places /\ dir'[p] = what
  <2>1. what = dir[p] \/ (what \in Nat /\ dir[p] = None)
    BY <1>1 DEF HostTypes, Makes, Exists
  <2>2. dir \in Places /\ dir \in [Paths -> Nat \cup Shares \cup {None}]
    BY <1>1 DEF HostTypes, Places
  <2> HIDE DEF what, p
  <2>3. dir' \in Places
    <3>1. CASE what = dir[p]
      <4>1. dir' = dir
        BY <1>2, <1>5, <2>2, <3>1
      <4> QED
        BY <2>2, <4>1
    <3>2. CASE what \in Nat /\ dir[p] = None
      BY <1>2, <1>5, <2>2, <3>2, PlacePut
    <3> QED
      BY <2>1, <3>1, <3>2
  <2> QED
    BY <1>2, <1>5, <2>2, <2>3
<1>8. HostTypes'
  <2>1. made' \in Nat
    BY <1>1, <1>5 DEF HostTypes
  <2> QED
    BY <1>1, <1>5, <1>7, <2>1 DEF HostTypes
<1>9. fd = 0 => fds' = fds
  BY <1>3, <1>5, <1>1, NewDescriptor
<1>10. fd # 0 => /\ DOMAIN fds' = DOMAIN fds \cup {fd} /\ fds'[fd].what = what
                 /\ \A d \in DOMAIN fds : fds'[d] = fds[d]
  <2> SUFFICES ASSUME fd # 0 PROVE /\ DOMAIN fds' = DOMAIN fds \cup {fd} /\ fds'[fd].what = what
                                   /\ \A d \in DOMAIN fds : fds'[d] = fds[d]
    OBVIOUS
  <2>1. fds' = Put(fds, fd, [what |-> what, writes |-> r.writes /\ ShareOf(t) \notin ReadOnly])
    BY <1>5
  <2> HIDE DEF what, fd
  <2> QED
    BY <1>3, <2>1 DEF Put
<1> HIDE DEF new, fd, what, folder, p
<1>11. /\ f \notin DOMAIN handles /\ DOMAIN handles' = DOMAIN handles \cup {f}
       /\ handles'[f] = new /\ \A g \in DOMAIN handles : handles'[g] = handles[g]
       /\ \A g \in DOMAIN handles : g <= counter
  BY <1>0, <1>1, <1>5 DEF HandleTypes, Put
<1>12. HandleTypes'
  <2>1. \A g \in DOMAIN handles' : handles'[g] \in HandleRecords
    BY <1>1, <1>4, <1>11 DEF HandleTypes
  <2>2. counter' \in Nat /\ counter' <= bound'.handles /\ DOMAIN handles' \subseteq 1..counter'
    BY <1>0, <1>1, <1>5, <1>11 DEF HandleTypes
  <2>3. handles' = [g \in DOMAIN handles' |-> handles'[g]]
    BY <1>5 DEF Put
  <2> QED
    BY <2>1, <2>2, <2>3 DEF HandleTypes
<1>13. TreeInv'
  <2>1. shares' = shares /\ nextTree' = nextTree /\ trees' = trees
    BY <1>5 DEF treeVars
  <2> QED
    BY <1>1, <1>2, <1>6, <1>11, <2>1 DEF TreeInv
<1>14. ChainInv'
  <2> DEFINE w == [frame EXCEPT !.tree = t, !.file = f]
  <2>1. w \in Frames /\ w.left > 0 /\ w.file = f /\ w.base = frame.base
    BY <1>1, <1>5, <1>11 DEF ChainInv, Frames
  <2>2. frame' = Rest(w)
    BY <1>5
  <2>3. frame.base < f /\ frame.base \in Nat /\ counter' = f
    BY <1>0, <1>1, <1>5 DEF ChainInv, Frames, HandleTypes
  <2> HIDE DEF w
  <2>4. Rest(w) \in Frames
    BY <2>1, RestFacts
  <2>5. CASE Rest(w) = NoFrame
    BY <1>11, <2>2, <2>3, <2>4, <2>5 DEF ChainInv, NoFrame
  <2>6. CASE Rest(w).left > 0 /\ Rest(w).file = f /\ Rest(w).base = frame.base
    BY <1>11, <2>2, <2>3, <2>4, <2>6 DEF ChainInv, Serving
  <2> QED
    BY <2>1, <2>5, <2>6, RestFacts
<1>15. Descriptors'
  <2>1. \A g \in Holders : handles[g].fd \in DOMAIN fds
    BY <1>1 DEF Descriptors
  <2>2. CASE fd = 0
    <3>1. Holders' = Holders /\ \A g \in Holders : handles'[g].fd = handles[g].fd
      BY <1>6, <1>11, <2>2 DEF Holders
    <3> QED
      BY <1>1, <1>9, <2>2, <3>1 DEF Descriptors
  <2>3. CASE fd # 0
    <3>1. Holders' = Holders \cup {f} /\ \A g \in Holders : handles'[g].fd = handles[g].fd /\ g # f
      BY <1>6, <1>11, <2>3 DEF Holders
    <3>2. handles'[f].fd = fd
      BY <1>6, <1>11
    <3> QED
      BY <1>1, <1>3, <1>10, <2>1, <2>3, <3>1, <3>2 DEF Descriptors
  <2> QED
    BY <2>2, <2>3
<1>16. \A g \in DOMAIN handles : KeptAt(g)' /\ (g \in Scanned' => ScanAt(g)')
  <2> TAKE g \in DOMAIN handles
  <2>1. g # last'.file /\ handles'[g] = handles[g] /\ g \in DOMAIN handles'
    BY <1>5, <1>11
  <2>2. handles[g].fd # 0 => fds'[handles[g].fd].what = fds[handles[g].fd].what
    BY <1>1, <1>9, <1>10 DEF Descriptors, Holders
  <2> QED
    BY <2>1, <2>2, FileKept, ScanKept DEF ServerInv
<1>17. KeptAt(f)' /\ f \notin Scanned'
  <2>1. f \notin DOMAIN opened
    BY <1>11 DEF ServerInv, Kept
  <2>2. opened'[f] = what
    BY <1>6, <1>7, <1>11, <2>1, HistoryFacts
  <2> QED
    BY <1>6, <1>7, <1>10, <1>11, <2>2 DEF KeptAt, Scanned
<1>18. Kept'
  BY <1>11, <1>16, <1>17, HistoryFacts DEF Kept
<1>19. ScanInv'
  <2>1. \A g \in DOMAIN handles' :
            handles'[g].entries # None => handles'[g].offset <= Len(handles'[g].entries)
    BY <1>6, <1>11 DEF ServerInv, ScanInv
  <2>2. \A g \in Scanned' : ScanAt(g)'
    BY <1>11, <1>16, <1>17 DEF Scanned
  <2> QED
    BY <2>1, <2>2, HistoryFacts DEF ScanInv
<1> QED
  BY <1>8, <1>12, <1>13, <1>14, <1>15, <1>18, <1>19 DEF ServerInv, Types

\* The handle of a rename that is not refused is known.
LEMMA RenamesKnown ==
  ASSUME NEW f, NEW n, NEW replace, RenameRefusal(f, n, replace) = "SUCCESS"
  PROVE  Known(f)
<1> DEFINE refusals ==
        << <<~Known(f), "INVALID_HANDLE">>,
           <<Known(f) /\ handles[f].readonly, "ACCESS_DENIED">>,
           <<Known(f) /\ ShareOf(handles[f].tree) = None, "ACCESS_DENIED">>,
           <<Known(f) /\ Exists(<<handles[f].path[1], n>>) /\ ~replace,
             "OBJECT_NAME_COLLISION">> >>
<1>1. Len(refusals) = 4 /\ (\A i \in 1..4 : refusals[i][2] # "SUCCESS") /\ refusals[1][1] = ~Known(f)
  OBVIOUS
<1>2. First(refusals) = "SUCCESS"
  BY DEF RenameRefusal
<1> HIDE DEF refusals
<1>3. \A i \in 1..4 : ~refusals[i][1]
  BY <1>1, <1>2, FirstRefuses
<1>4. ~refusals[1][1]
  BY <1>3
<1> QED
  BY <1>4 DEF refusals

\* SET_INFO of the name: what the old path led to is where the handle is now.
LEMMA RenameKeeps ==
  ASSUME ServerInv, History, bound' = bound, NEW f, NEW chain \in BOOLEAN, NEW n \in bound.names,
         NEW replace \in BOOLEAN, NEW moves \in BOOLEAN, NEW reopens \in BOOLEAN,
         SetName(f, chain, n, replace, moves, reopens)
  PROVE  ServerInv'
<1>1. f \in DOMAIN handles /\ Rename(f, chain, n, moves, reopens)
  BY RenamesKnown DEF SetName, Known
<1>2. HostTypes /\ HandleTypes /\ Descriptors /\ TreeInv /\ ChainInv /\ bound.names \subseteq Names
      /\ dir \in Places
  BY BoundFacts DEF ServerInv, Types, HostTypes
<1> DEFINE h == handles[f]
           target == <<h.path[1], n>>
           lands == Lands(h.path, target, moves)
           place == IF moves THEN Moved(h.path, target) ELSE dir
           file == ~h.isDir /\ place[lands] # None /\ place[lands] \notin folders
           fd == IF file /\ reopens THEN LowestFd(DOMAIN Without(h.fd)) ELSE 0
<1>3. h \in HandleRecords /\ h.path \in Paths /\ h.fd \in Nat
  BY <1>1, <1>2 DEF HandleTypes, HandleRecords
<1>4. target \in Paths /\ n # Top /\ target[1] = h.path[1] /\ target[2] = n
  BY <1>2, <1>3, ServerAssumption DEF Paths
<1>5. DOMAIN Without(h.fd) = DOMAIN fds \ {h.fd} /\ \A d \in DOMAIN fds \ {h.fd} : Without(h.fd)[d] = fds[d]
  BY DEF Without, Restrict
<1>6. fd \in Nat /\ (fd # 0 => fd \notin DOMAIN fds \ {h.fd})
  <2>1. LowestFd(DOMAIN Without(h.fd)) \in Nat \ {0} /\ LowestFd(DOMAIN Without(h.fd)) \notin DOMAIN fds \ {h.fd}
    <3> DEFINE S == DOMAIN Without(h.fd)
    <3>1. S \subseteq DOMAIN fds
      BY <1>5
    <3> HIDE DEF S
    <3>2. LowestFd(S) \in Nat \ {0} /\ LowestFd(S) \notin S
      BY <1>2, <3>1, NewDescriptor
    <3> QED
      BY <1>5, <3>2 DEF S
  <2> QED
    BY <2>1
<1>7. /\ moves => Movable(h.path, target)
      /\ dir' = place /\ handles' = [handles EXCEPT ![f].path = lands, ![f].fd = fd]
      /\ fds' = IF fd = 0 THEN Without(h.fd)
                ELSE Put(Without(h.fd), fd, [what |-> place[lands], writes |-> TRUE])
      /\ UNCHANGED <<made, config, treeVars, counter>>
  BY <1>1 DEF Rename
<1>8. \E status : status # "NO_MORE_FILES" /\ Answered(TreeOf(f, chain), status, f, chain)
  <2>1. Answered(TreeOf(f, chain), IF moves /\ (h.isDir \/ fd # 0) THEN "SUCCESS" ELSE "ACCESS_DENIED",
                 f, chain)
    BY <1>1 DEF Rename
  <2> HIDE DEF h, fd
  <2> QED
    BY <2>1
<1>9. Plain /\ last'.file = f /\ ChainInv'
  <2>1. TreeOf(f, chain) \in Nat /\ counter' = counter /\ counter \in Nat
    BY <1>2, <1>7, TreeOfNat DEF HandleTypes
  <2> QED
    BY <1>2, <1>8, <2>1, PlainAnswer, ReplyKeepsChain DEF Answered
<1>10. /\ dir' \in Places /\ lands \in Paths /\ dir'[lands] = dir[h.path]
       /\ lands[1] = h.path[1] /\ (lands[2] = Top <=> h.path[2] = Top)
  <2>1. CASE moves
    <3>1. h.path[2] # Top /\ lands = target /\ dir' = Moved(h.path, target)
      BY <1>7, <2>1 DEF Movable, Lands
    <3>2. \A s \in Shares : TopOf(s) \in Paths /\ TopOf(s) # h.path /\ TopOf(s) # target
      BY <1>4, <3>1 DEF TopOf, Paths
    <3>3. dir' \in Places
      BY <1>2, <1>3, <3>1, <3>2 DEF Places, Moved
    <3> QED
      BY <1>4, <3>1, <3>3 DEF Moved
  <2>2. CASE ~moves
    BY <1>2, <1>3, <1>7, <2>2 DEF Lands
  <2> QED
    BY <2>1, <2>2
<1>11. fd = 0 => fds' = Without(h.fd)
  BY <1>7
<1>12. fd # 0 => fds' = Put(Without(h.fd), fd, [what |-> dir'[lands], writes |-> TRUE])
  BY <1>7
<1>13. handles' = [handles EXCEPT ![f].path = lands, ![f].fd = fd]
  BY <1>7
<1> HIDE DEF h, target, lands, place, file, fd
<1>14. /\ DOMAIN handles' = DOMAIN handles
       /\ \A g \in DOMAIN handles \ {f} : handles'[g] = handles[g]
       /\ handles'[f] = [h EXCEPT !.path = lands, !.fd = fd]
  BY <1>1, <1>13 DEF h
<1>15. /\ handles'[f] \in HandleRecords
       /\ handles'[f].path = lands /\ handles'[f].fd = fd
       /\ handles'[f].entries = h.entries /\ handles'[f].offset = h.offset /\ handles'[f].tree = h.tree
  BY <1>3, <1>6, <1>10, <1>14 DEF HandleRecords
<1>16. HostTypes' /\ HandleTypes'
  <2>1. \A g \in DOMAIN handles' : handles'[g] \in HandleRecords
    BY <1>2, <1>14, <1>15 DEF HandleTypes
  <2>2. handles' = [g \in DOMAIN handles' |-> handles'[g]]
    BY <1>2, <1>13 DEF HandleTypes
  <2> QED
    BY <1>2, <1>7, <1>10, <1>14, <2>1, <2>2 DEF HostTypes, HandleTypes
<1>17. \A g \in DOMAIN handles :
          handles'[g].tree = handles[g].tree /\ handles'[g].path[1] = handles[g].path[1]
  BY <1>10, <1>14, <1>15 DEF h
<1>18. TreeInv'
  BY <1>2, <1>7, <1>14, <1>17 DEF TreeInv, treeVars
<1>19. /\ DOMAIN fds' = IF fd = 0 THEN DOMAIN fds \ {h.fd} ELSE (DOMAIN fds \ {h.fd}) \cup {fd}
       /\ fd # 0 => fds'[fd].what = dir'[lands]
       /\ \A d \in DOMAIN fds \ {h.fd} : fds'[d] = fds[d]
  BY <1>5, <1>6, <1>11, <1>12 DEF Put
<1>20. \A g \in Holders \ {f} : handles[g].fd \in DOMAIN fds \ {h.fd}
  BY <1>1, <1>2 DEF Descriptors, Holders, h
<1>21. Descriptors'
  <2>1. DOMAIN fds \ {h.fd} = {handles[g].fd : g \in Holders \ {f}}
    BY <1>1, <1>2 DEF Descriptors, Holders, h
  <2>2. Holders' = IF fd = 0 THEN Holders \ {f} ELSE (Holders \ {f}) \cup {f}
    BY <1>1, <1>14, <1>15 DEF Holders
  <2>3. \A g \in Holders \ {f} : handles'[g].fd = handles[g].fd
    BY <1>14 DEF Holders
  <2>4. DOMAIN fds' = {handles'[g].fd : g \in Holders'}
    <3>1. CASE fd = 0
      BY <1>19, <2>1, <2>2, <2>3, <3>1
    <3>2. CASE fd # 0
      BY <1>15, <1>19, <2>1, <2>2, <2>3, <3>2
    <3> QED
      BY <3>1, <3>2
  <2>5. \A g, k \in Holders' : g # k => handles'[g].fd # handles'[k].fd
    <3>1. \A g, k \in Holders \ {f} : g # k => handles[g].fd # handles[k].fd
      BY <1>2 DEF Descriptors
    <3>2. fd # 0 => \A g \in Holders \ {f} : handles[g].fd # fd
      BY <1>6, <1>20
    <3> QED
      BY <1>15, <2>2, <2>3, <3>1, <3>2
  <2> QED
    BY <2>4, <2>5 DEF Descriptors
<1>22. \A g \in DOMAIN handles \ {f} : KeptAt(g)'
  <2> TAKE g \in DOMAIN handles \ {f}
  <2>1. g # last'.file /\ handles'[g] = handles[g] /\ g \in DOMAIN handles'
    BY <1>9, <1>14
  <2>2. handles[g].fd # 0 => fds'[handles[g].fd].what = fds[handles[g].fd].what
    BY <1>19, <1>20 DEF Holders
  <2> QED
    BY <2>1, <2>2, FileKept DEF ServerInv
<1>23. KeptAt(f)'
  <2>1. opened'[f] = opened[f] /\ (f \notin stale' => f \notin stale)
    BY <1>1, <1>14, HistoryFacts DEF ServerInv, Kept
  <2>2. f \notin stale => dir[h.path] = opened[f]
    BY <1>1 DEF ServerInv, Kept, KeptAt, h
  <2> QED
    BY <1>10, <1>15, <1>19, <2>1, <2>2 DEF KeptAt
<1>24. Kept'
  BY <1>14, <1>22, <1>23, HistoryFacts DEF Kept
<1>25. ScanInv'
  <2>1. \A g \in DOMAIN handles :
           /\ handles'[g].path[2] = Top <=> handles[g].path[2] = Top
           /\ handles'[g].entries = handles[g].entries /\ handles'[g].offset = handles[g].offset
    BY <1>10, <1>14, <1>15 DEF h
  <2>2. \A g \in DOMAIN handles : g \in Scanned' => ScanAt(g)'
    BY <1>9, <1>14, <1>17, <2>1, ScanKept DEF ServerInv
  <2>3. \A g \in Scanned' : ScanAt(g)'
    BY <1>14, <2>2 DEF Scanned
  <2> QED
    BY <1>14, <2>1, <2>3, HistoryFacts DEF ServerInv, ScanInv
<1> QED
  BY <1>9, <1>16, <1>18, <1>21, <1>24, <1>25 DEF ServerInv, Types

\* CLOSE: the handle goes, and with it its descriptor.
LEMMA CloseKeeps ==
  ASSUME ServerInv, History, bound' = bound, NEW f, NEW chain, Close(f, chain)
  PROVE  ServerInv'
<1> DEFINE h == handles[f]
<1>1. HostTypes /\ HandleTypes /\ Descriptors /\ TreeInv /\ ChainInv /\ dir \in Places
      /\ f \in DOMAIN handles
  BY DEF Close, Known, ServerInv, Types, HostTypes
<1>2. h \in HandleRecords /\ h.path \in Paths /\ h.fd \in Nat
  BY <1>1 DEF HandleTypes, HandleRecords
<1>3. /\ Answered(TreeOf(f, chain), "SUCCESS", f, chain)
      /\ handles' = Restrict(handles, DOMAIN handles \ {f}) /\ fds' = Without(h.fd)
      /\ UNCHANGED <<made, config, treeVars, counter>>
  BY DEF Close
<1>4. /\ DOMAIN handles' = DOMAIN handles \ {f} /\ handles' = [g \in DOMAIN handles' |-> handles'[g]]
      /\ \A g \in DOMAIN handles' : handles'[g] = handles[g]
  BY <1>3 DEF Restrict
<1>5. DOMAIN fds' = DOMAIN fds \ {h.fd} /\ \A d \in DOMAIN fds \ {h.fd} : fds'[d] = fds[d]
  BY <1>3 DEF Without, Restrict
<1>6. Plain /\ last'.file = f /\ ChainInv'
  <2>1. TreeOf(f, chain) \in Nat /\ counter' = counter /\ counter \in Nat
    BY <1>1, <1>3, TreeOfNat DEF HandleTypes
  <2> QED
    BY <1>1, <1>3, <2>1, PlainAnswer, ReplyKeepsChain DEF Answered
<1>7. dir' \in Places
  <2>1. CASE dir' = dir
    BY <1>1, <2>1
  <2>2. CASE dir' # dir
    <3>1. dir' = [dir EXCEPT ![h.path] = None] /\ h.path[2] # Top
      BY <2>2 DEF Close, Removable
    <3> QED
      BY <1>1, <1>2, <3>1, PlacePut
  <2> QED
    BY <2>1, <2>2
<1>8. HostTypes' /\ HandleTypes'
  BY <1>1, <1>3, <1>4, <1>7 DEF HostTypes, HandleTypes
<1>9. TreeInv'
  BY <1>1, <1>3, <1>4 DEF TreeInv, treeVars
<1>10. \A g \in Holders \ {f} : handles[g].fd \in DOMAIN fds \ {h.fd}
  BY <1>1 DEF Descriptors, Holders
<1>11. Descriptors'
  <2>1. DOMAIN fds \ {h.fd} = {handles[g].fd : g \in Holders \ {f}}
    BY <1>1 DEF Descriptors, Holders
  <2>2. Holders' = Holders \ {f} /\ \A g \in Holders \ {f} : handles'[g].fd = handles[g].fd
    BY <1>4 DEF Holders
  <2>3. DOMAIN fds' = {handles'[g].fd : g \in Holders'}
    BY <1>5, <2>1, <2>2
  <2>4. \A g, k \in Holders' : g # k => handles'[g].fd # handles'[k].fd
    BY <1>1, <2>2 DEF Descriptors
  <2> QED
    BY <2>3, <2>4 DEF Descriptors
<1>12. Kept'
  <2>1. ASSUME NEW g \in DOMAIN handles' PROVE KeptAt(g)'
    <3>1. g # last'.file /\ handles'[g] = handles[g] /\ g \in DOMAIN handles
      BY <1>4, <1>6
    <3>2. handles[g].fd # 0 => fds'[handles[g].fd].what = fds[handles[g].fd].what
      BY <1>4, <1>5, <1>10 DEF Holders
    <3> QED
      BY <3>1, <3>2, FileKept DEF ServerInv
  <2> QED
    BY <2>1, HistoryFacts DEF Kept
<1>13. ScanInv'
  <2>1. \A g \in DOMAIN handles' : g \in Scanned' => ScanAt(g)'
    BY <1>4, <1>6, ScanKept DEF ServerInv
  <2>2. \A g \in Scanned' : ScanAt(g)'
    BY <2>1 DEF Scanned
  <2> QED
    BY <1>4, <2>2, HistoryFacts DEF ServerInv, ScanInv
<1> QED
  BY <1>6, <1>8, <1>9, <1>11, <1>12, <1>13 DEF ServerInv, Types

\* The end of the connection: nothing is left.
LEMMA EndKeeps ==
  ASSUME ServerInv, History, bound' = bound, ConnectionEnds
  PROVE  ServerInv'
<1>1. /\ UNCHANGED <<bound, hostVars, config>> /\ config \subseteq Shares
      /\ handles' = <<>> /\ counter' = 0 /\ trees' = <<>> /\ nextTree' = 1 /\ shares' = config
      /\ fds' = Restrict(fds, DOMAIN fds \ {handles[f].fd : f \in DOMAIN handles})
      /\ frame' = NoFrame /\ last' = NoRequest /\ bound.handles \in Nat
  BY BoundFacts DEF ConnectionEnds, hostVars, ServerInv, Types, HostTypes
<1>2. DOMAIN handles' = {} /\ DOMAIN trees' = {} /\ handles' = [f \in {} |-> handles'[f]]
  BY <1>1
<1>3. HostTypes' /\ HandleTypes' /\ TreeInv' /\ ChainInv'
  <2>1. HostTypes'
    BY <1>1, HostSame DEF ServerInv, Types
  <2>2. HandleTypes'
    BY <1>1, <1>2 DEF HandleTypes
  <2>3. TreeInv'
    BY <1>1, <1>2 DEF TreeInv
  <2>4. ChainInv'
    BY <1>1 DEF ChainInv, NoFrame, Frames
  <2> QED
    BY <2>1, <2>2, <2>3, <2>4
<1>4. Holders' = {} /\ Scanned' = {}
  BY <1>2 DEF Holders, Scanned
<1>5. Descriptors'
  <2>1. DOMAIN fds \ {handles[f].fd : f \in DOMAIN handles} = {}
    BY DEF ServerInv, Descriptors, Holders
  <2>2. DOMAIN fds' = {}
    BY <1>1, <2>1 DEF Restrict
  <2> QED
    BY <1>4, <2>2 DEF Descriptors
<1>6. Kept' /\ ScanInv'
  BY <1>2, <1>4, HistoryFacts DEF Kept, ScanInv
<1> QED
  BY <1>3, <1>5, <1>6 DEF ServerInv, Types

\* QUERY_DIRECTORY: what is handed out is what comes next in the listing.
LEMMA ListKeeps ==
  ASSUME ServerInv, History, bound' = bound, NEW f, NEW chain \in BOOLEAN, NEW q \in bound.lists,
         NEW restart \in BOOLEAN, NEW single \in BOOLEAN,
         List(f, chain, q.class, restart, single, q.buffer)
  PROVE  ServerInv'
<1> DEFINE h == handles[f]
           share == h.path[1]
           fresh == h.entries = None \/ restart
           list == IF fresh THEN Listing(h.path) ELSE h.entries
           from == IF fresh THEN 0 ELSE h.offset
           known == Listable(q.class)
           room == Room(q.class, 1, q.buffer)
           found == {i \in (from + 1)..Len(list) : Describable(h.path, list[i], known)}
           given == Given(found, single, room)
           stop == ListStops(Len(list), found, given, single)
           names == [n \in Entries |-> Cardinality({i \in given : list[i] = n})]
           status == IF found = {} THEN "NO_MORE_FILES"
                     ELSE IF room = 0 THEN "BUFFER_TOO_SMALL" ELSE "SUCCESS"
<1>1. HostTypes /\ HandleTypes /\ Descriptors /\ TreeInv /\ ChainInv /\ dir \in Places
      /\ room \in Nat /\ f \in DOMAIN handles
  BY BoundFacts DEF List, Known, ServerInv, Types, HostTypes
<1>2. /\ handles' = [handles EXCEPT ![f].entries = list, ![f].offset = stop]
      /\ Replied(TreeOf(f, chain), [file |-> f, chain |-> chain, fresh |-> fresh, known |-> known,
                                    names |-> names, status |-> status])
      /\ UNCHANGED <<hostVars, config, treeVars, counter, fds>>
  BY DEF List, QueryDirectory
<1>3. h \in HandleRecords /\ h.path \in Paths /\ h.offset \in Nat
      /\ (h.entries # None => h.entries \in Seq(Entries) /\ h.offset <= Len(h.entries))
  BY <1>1 DEF HandleTypes, HandleRecords, ServerInv, ScanInv
<1>4. list \in Seq(Entries) /\ from \in 0..Len(list) /\ Len(list) \in Nat
  <2>1. CASE fresh
    BY <2>1, ListingFacts
  <2>2. CASE ~fresh
    BY <1>3, <2>2
  <2> QED
    BY <2>1, <2>2
<1>5. found \subseteq (from + 1)..Len(list)
  OBVIOUS
<1>6. /\ stop \in from..Len(list) /\ given = {i \in found : i <= stop}
      /\ found = {} => stop = Len(list)
  <2> HIDE DEF list, from, found, room
  <2>1. found \in SUBSET ((from + 1)..Len(list)) /\ room \in Nat /\ single \in BOOLEAN
    BY <1>1, <1>5
  <2>2. \A end \in Nat : \A o \in 0..end : \A s \in SUBSET ((o + 1)..end) :
            LET g == Given(s, single, room)
                z == ListStops(end, s, g, single)
            IN  z \in o..end /\ g = {i \in s : i <= z} /\ (s = {} => z = end)
    BY <2>1, StopFacts
  <2> QED
    BY <1>4, <2>1, <2>2
<1>7. /\ last'.file = f /\ last'.fresh = fresh /\ last'.known = known
      /\ last'.names = names /\ last'.status = status /\ ChainInv'
  <2> DEFINE reply == [file |-> f, chain |-> chain, fresh |-> fresh, known |-> known,
                       names |-> names, status |-> status]
  <2>1. reply.file = f /\ reply.chain = chain /\ reply.fresh = fresh /\ reply.known = known
        /\ reply.names = names /\ reply.status = status
    OBVIOUS
  <2>2. Replied(TreeOf(f, chain), reply) /\ last' = reply
    BY <1>2 DEF Replied
  <2> HIDE DEF reply, fresh, known, names, status
  <2>3. TreeOf(f, chain) \in Nat /\ counter' = counter /\ counter \in Nat
    BY <1>1, <1>2, TreeOfNat DEF HandleTypes
  <2> QED
    BY <1>1, <2>1, <2>2, <2>3, ReplyKeepsChain
<1>8. /\ \A i \in found : from < i /\ i <= Len(list) /\ i \in Nat
      /\ \A i \in 1..Len(list) : from < i /\ Describable(h.path, list[i], known) => i \in found
  BY <1>4
<1>9. status = "NO_MORE_FILES" => found = {}
  OBVIOUS
<1>10. fresh \in BOOLEAN /\ (~fresh => h.entries # None /\ list = h.entries /\ from = h.offset)
       /\ (fresh => list = Listing(h.path) /\ from = 0)
  OBVIOUS
<1>11. \A n \in Entries : names[n] = Times(list, given, n)
  BY DEF Times
<1> HIDE DEF h, share, fresh, list, from, known, room, found, given, stop, names, status
<1>12. /\ DOMAIN handles' = DOMAIN handles
       /\ \A g \in DOMAIN handles \ {f} : handles'[g] = handles[g]
       /\ handles'[f] = [h EXCEPT !.entries = list, !.offset = stop]
  BY <1>1, <1>2 DEF h
<1>13. /\ handles'[f] \in HandleRecords
       /\ handles'[f].path = h.path /\ handles'[f].fd = h.fd
       /\ handles'[f].entries = list /\ handles'[f].offset = stop /\ handles'[f].tree = h.tree
  <2>1. list \in {None} \cup Seq(Entries) /\ stop \in Nat
    BY <1>4, <1>6
  <2> QED
    BY <1>3, <1>12, <2>1 DEF HandleRecords
<1>14. \A g \in DOMAIN handles :
          /\ handles'[g].tree = handles[g].tree /\ handles'[g].path = handles[g].path
          /\ handles'[g].fd = handles[g].fd
  BY <1>12, <1>13 DEF h
<1>15. HostTypes' /\ HandleTypes'
  <2>1. \A g \in DOMAIN handles' : handles'[g] \in HandleRecords
    BY <1>1, <1>12, <1>13 DEF HandleTypes
  <2>2. handles' = [g \in DOMAIN handles' |-> handles'[g]]
    BY <1>1, <1>2 DEF HandleTypes
  <2>3. HostTypes'
    BY <1>1, <1>2, HostSame
  <2> QED
    BY <1>1, <1>2, <1>12, <2>1, <2>2, <2>3 DEF HandleTypes
<1>16. TreeInv'
  BY <1>1, <1>2, <1>12, <1>14 DEF TreeInv, treeVars
<1>17. Descriptors'
  <2>1. Holders' = Holders /\ fds' = fds
    BY <1>2, <1>12, <1>14 DEF Holders
  <2> QED
    BY <1>1, <1>12, <1>14, <2>1 DEF Descriptors, Holders
<1>18. Kept'
  <2>1. dir' = dir /\ fds' = fds
    BY <1>2 DEF hostVars
  <2>2. \A g \in DOMAIN handles : KeptAt(g)'
    BY <1>12, <1>14, <2>1, FileKept DEF ServerInv
  <2> QED
    BY <1>12, <2>2, HistoryFacts DEF Kept
<1>19. ASSUME f \in Scanned' PROVE ScanAt(f)'
  <2> DEFINE before == IF f \in DOMAIN scan THEN scan[f] ELSE Unlisted
             here == {n \in Names : dir[<<share, n>>] # None}
             start == IF fresh THEN [Unlisted EXCEPT !.stay = here] ELSE before
             is == scan'[f]
  <2>1. h.path[2] = Top /\ h.path = <<share, Top>> /\ share \in Shares
    BY <1>3, <1>13, <1>19 DEF Scanned, Paths, share
  <2>2. Children(h.path) = here /\ Exists(h.path)
    <3>1. dir[TopOf(share)] = share /\ share # None
      BY <1>1, <2>1, ServerAssumption DEF Places
    <3> QED
      BY <2>1, <3>1 DEF Children, Exists, TopOf
  <2>3. \A n \in here \cup {".", ".."} : known => Describable(h.path, n, known)
    BY <2>2 DEF Describable
  <2>4. Follows(dir, share, list, from, start)
    <3>1. CASE fresh
      <4>1. IsInjective(list) /\ \A n \in here \cup {".", ".."} : \E i \in 1..Len(list) : list[i] = n
        BY <1>10, <2>2, <3>1, ListingFacts
      <4>2. start.seen = NoNames /\ start.stay = here
        BY <3>1 DEF Unlisted
      <4>3. start.seen \in [Entries -> Nat] /\ \A n \in Entries : start.seen[n] = 0
        BY <4>2 DEF NoNames
      <4> HIDE DEF start
      <4> QED
        BY <1>10, <3>1, <4>1, <4>2, <4>3 DEF Follows
    <3>2. CASE ~fresh
      <4>1. f \in Scanned /\ f \in DOMAIN scan
        BY <1>1, <1>10, <2>1, <3>2 DEF Scanned, ServerInv, ScanInv, h
      <4>2. Follows(dir, share, h.entries, h.offset, scan[f])
        BY <4>1 DEF ServerInv, ScanInv, ScanAt, h, share
      <4> QED
        BY <1>10, <3>2, <4>1, <4>2
    <3> QED
      BY <3>1, <3>2
  <2>5. is = Seen(f) /\ dir' = dir /\ handles'[f].path[1] = share
    BY <1>2, <1>13, <1>19, HistoryFacts DEF hostVars, share
  <2>6. Seen(f) = [seen |-> [n \in Entries |-> start.seen[n] + names[n]],
                   stay |-> {n \in start.stay : dir'[<<handles'[f].path[1], n>>] # None},
                   known |-> start.known /\ (f = last'.file => last'.known)]
    BY <1>7 DEF Seen, h, share
  <2> HIDE DEF start, is
  <2>7. /\ is.seen = [n \in Entries |-> start.seen[n] + names[n]]
        /\ is.stay = {n \in start.stay : dir[<<share, n>>] # None}
        /\ is.known => start.known /\ known
    <3>1. is.seen = [n \in Entries |-> start.seen[n] + names[n]]
      BY <2>5, <2>6
    <3>2. is.stay = {n \in start.stay : dir'[<<handles'[f].path[1], n>>] # None}
      BY <2>5, <2>6
    <3>3. is.known = (start.known /\ (f = last'.file => last'.known))
      BY <2>5, <2>6
    <3> QED
      BY <1>7, <2>5, <3>1, <3>2, <3>3
  <2>8. is.stay \subseteq here /\ is.stay \subseteq start.stay
        /\ \A n \in is.stay \cup {".", ".."} : n \in Entries
    BY <2>4, <2>7 DEF Follows, Entries
  <2>9. \A n \in Entries : /\ (\E i \in given : list[i] = n) => names[n] = 1
                           /\ ~(\E i \in given : list[i] = n) => names[n] = 0
    <3>1. given \subseteq 1..Len(list) /\ DOMAIN list = 1..Len(list) /\ IsInjective(list)
      BY <1>4, <1>6, <1>8, <2>4 DEF Follows
    <3> TAKE n \in Entries
    <3>2. names[n] = Times(list, given, n)
      BY <1>11
    <3>3. given \in SUBSET (1..Len(list)) /\ Len(list) \in Nat
      BY <1>4, <3>1
    <3> QED
      BY <3>1, <3>2, <3>3, Counted
  <2>10. \A i, j \in 1..Len(list) : list[i] = list[j] => i = j
    BY <1>4, <2>4 DEF Follows, IsInjective
  <2>11. \A n \in Entries :
            /\ is.seen[n] = start.seen[n] + names[n] /\ start.seen[n] \in Nat /\ start.seen[n] <= 1
            /\ start.seen[n] = 1 => \E i \in 1..from : list[i] = n
    BY <2>4, <2>7 DEF Follows
  <2>12. is.seen \in [Entries -> Nat]
    BY <2>7, <2>9, <2>11
  <2>13. \A i \in given : i \in 1..stop /\ i \in 1..Len(list) /\ from < i
    BY <1>4, <1>6, <1>8
  <2>14. \A i \in 1..from : i \in 1..stop /\ i \in 1..Len(list) /\ i \in Nat
    BY <1>4, <1>6
  <2>15. ASSUME NEW n \in Entries
         PROVE  is.seen[n] <= 1 /\ (is.seen[n] = 1 => \E i \in 1..stop : list[i] = n)
    <3>1. CASE start.seen[n] = 1
      <4>1. PICK i \in 1..from : list[i] = n
        BY <2>11, <3>1
      <4>2. ~\E j \in given : list[j] = n
        <5> SUFFICES ASSUME NEW j \in given, list[j] = n PROVE FALSE
          OBVIOUS
        <5>1. i = j
          BY <2>10, <2>13, <2>14, <4>1
        <5>2. from < j /\ i <= from /\ i \in Nat /\ from \in Nat
          BY <1>4, <2>13, <2>14, <4>1
        <5> QED
          BY <5>1, <5>2
      <4> QED
        BY <2>9, <2>11, <2>14, <3>1, <4>1, <4>2
    <3>2. CASE start.seen[n] = 0
      BY <2>9, <2>11, <2>13, <3>2
    <3> QED
      BY <2>11, <3>1, <3>2
  <2>16. ASSUME is.known, NEW i \in 1..stop, list[i] \in is.stay \cup {".", ".."}
         PROVE  is.seen[list[i]] = 1
    <3> DEFINE n == list[i]
    <3>1. n \in Entries /\ n \in start.stay \cup {".", ".."} /\ n \in here \cup {".", ".."}
      BY <2>8, <2>16
    <3>2. CASE i <= from
      <4>1. i \in 1..from
        BY <1>4, <1>6, <3>2
      <4>2. start.seen[n] = 1
        BY <2>4, <2>7, <2>16, <3>1, <4>1 DEF Follows
      <4>3. names[n] = 0 \/ names[n] = 1
        BY <2>9, <3>1
      <4> QED
        BY <2>11, <2>15, <3>1, <4>2, <4>3
    <3>3. CASE ~(i <= from)
      <4>1. i \in 1..Len(list) /\ from < i /\ i <= stop
        BY <1>4, <1>6, <3>3
      <4>2. Describable(h.path, n, known)
        BY <2>3, <2>7, <2>16, <3>1
      <4>3. i \in given
        BY <1>6, <1>8, <4>1, <4>2
      <4>4. names[n] = 1
        BY <2>9, <3>1, <4>3
      <4>5. start.seen[n] \in Nat /\ is.seen[n] = start.seen[n] + 1 /\ is.seen[n] <= 1
        BY <2>11, <2>15, <3>1, <4>4
      <4> QED
        BY <4>5
    <3> QED
      BY <3>2, <3>3
  <2>17. Follows(dir', share, list, stop, is)
    <3>1. \A n \in is.stay : dir'[<<share, n>>] # None
      BY <2>5, <2>7
    <3>2. \A n \in is.stay \cup {".", ".."} : \E i \in 1..Len(list) : list[i] = n
      BY <2>4, <2>8 DEF Follows
    <3>3. IsInjective(list) /\ is.stay \subseteq Names
      BY <2>4, <2>8 DEF Follows
    <3> QED
      BY <2>12, <2>15, <2>16, <3>1, <3>2, <3>3 DEF Follows
  <2>18. last'.status = "NO_MORE_FILES" => stop = Len(list)
    BY <1>6, <1>7, <1>9
  <2> QED
    BY <1>13, <2>5, <2>17, <2>18 DEF ScanAt, is
<1>20. ScanInv'
  <2>1. \A g \in DOMAIN handles' :
            handles'[g].entries # None => handles'[g].offset <= Len(handles'[g].entries)
    <3>1. stop <= Len(list)
      BY <1>4, <1>6
    <3> QED
      BY <1>12, <1>13, <3>1 DEF ServerInv, ScanInv
  <2>2. \A g \in DOMAIN handles \ {f} : g \in Scanned' => ScanAt(g)'
    BY <1>7, <1>12, ScanKept DEF ServerInv
  <2>3. \A g \in Scanned' : ScanAt(g)'
    BY <1>12, <1>19, <2>2 DEF Scanned
  <2> QED
    BY <2>1, <2>3, HistoryFacts DEF ScanInv
<1> QED
  BY <1>7, <1>15, <1>16, <1>17, <1>18, <1>20 DEF ServerInv, Types

-----------------------------------------------------------------------------
(* The theorems.                                                            *)

\* The first states have no handles, trees or frame.
LEMMA InitServer == Init => ServerInv
<1> SUFFICES ASSUME Init PROVE ServerInv
  OBVIOUS
<1>1. DOMAIN handles = {} /\ handles = [f \in {} |-> handles[f]] /\ DOMAIN fds = {}
      /\ DOMAIN trees = {} /\ DOMAIN opened = {} /\ DOMAIN scan = {}
  BY DEF Init
<1>2. bound.handles \in Nat /\ HostTypes
  <2>1. dir \in Places
    BY DEF Init, Places, Paths, TopOf
  <2>2. HostTypes
    BY <2>1 DEF Init, HostTypes
  <2> QED
    BY <2>2, BoundFacts
<1>3. HandleTypes
  BY <1>1, <1>2 DEF Init, HandleTypes
<1>4. TreeInv
  BY <1>1 DEF Init, TreeInv
<1>5. ChainInv
  BY DEF Init, ChainInv, NoFrame, Frames
<1>6. Holders = {} /\ Scanned = {}
  BY <1>1 DEF Holders, Scanned
<1>7. Descriptors /\ Kept /\ ScanInv
  BY <1>1, <1>6 DEF Descriptors, Kept, ScanInv
<1> QED
  BY <1>2, <1>3, <1>4, <1>5, <1>7 DEF ServerInv, Types

\* A request keeps the invariant, whichever it is.
LEMMA RequestKeeps ==
  ASSUME ServerInv, History, bound' = bound, Request
  PROVE  ServerInv'
<1>1. ASSUME NEW f, NEW chain \in BOOLEAN, FileStep(f, chain) PROVE ServerInv'
  <2>1. CASE \E n \in bound.names, replace, moves, reopens \in BOOLEAN :
                SetName(f, chain, n, replace, moves, reopens)
    BY <2>1, RenameKeeps
  <2>2. CASE \E restart, single \in BOOLEAN, q \in bound.lists :
                List(f, chain, q.class, restart, single, q.buffer)
    BY <2>2, ListKeeps
  <2>3. CASE Close(f, chain)
    BY <2>3, CloseKeeps
  <2> QED
    BY <1>1, <2>1, <2>2, <2>3, AccessKeeps DEF FileStep
<1>2. ASSUME NEW r \in bound.creates, NEW t \in TreeIds, NEW n \in bound.names \cup {Top},
             NEW chain \in BOOLEAN, CreateStep(r, Tree(t, chain), n, chain)
      PROVE  ServerInv'
  <2>1. Tree(t, chain) \in Nat
    BY TreeNat
  <2> QED
    BY <1>2, <2>1, CreateKeeps, RefusedKeeps DEF CreateStep
<1> QED
  BY <1>1, <1>2, LoopKeeps, TreesKeep DEF Request

\* The invariant holds of every reachable state of the server.
THEOREM ServerInvariant == Spec => []ServerInv
<1>1. ServerInv /\ [Next]_vars => ServerInv'
  <2> SUFFICES ASSUME ServerInv, [Next]_vars PROVE ServerInv'
    OBVIOUS
  <2>1. CASE Next
    BY <2>1, LoopKeeps, RequestKeeps, EndKeeps, HostKeeps DEF Next
  <2>2. CASE UNCHANGED vars
    <3>1. /\ UNCHANGED <<bound, dir, folders, made, config, fds, shares, trees, nextTree>>
          /\ UNCHANGED <<handles, counter, frame, faults, last, opened, stale, scan>>
      BY <2>2 DEF vars, hostVars, treeVars, handleVars, history
    <3>2. Types' /\ TreeInv' /\ ChainInv'
      BY <3>1 DEF ServerInv, Types, HostTypes, HandleTypes, TreeInv, ChainInv, Serving
    <3>3. Descriptors' /\ Kept'
      BY <3>1 DEF ServerInv, Descriptors, Holders, Kept, KeptAt
    <3>4. ScanInv'
      BY <3>1 DEF ServerInv, ScanInv, Scanned, ScanAt
    <3> QED
      BY <3>2, <3>3, <3>4 DEF ServerInv
  <2> QED
    BY <2>1, <2>2
<1> QED
  BY InitServer, <1>1, PTL DEF Spec

\* Every descriptor of the process belongs to exactly one open handle, and a
\* handle nobody interfered with is on the file it was opened on, as its
\* descriptor is, whatever was renamed, closed, deleted or failed half way.
THEOREM HandlesTheorem == Spec => []HandlesKeepTheirFiles
<1>1. ServerInv => HandlesKeepTheirFiles
  <2> SUFFICES ASSUME ServerInv PROVE HandlesKeepTheirFiles
    OBVIOUS
  <2>1. \A f \in DOMAIN handles \ stale :
            /\ dir[handles[f].path] = opened[f]
            /\ f \in Holders => fds[handles[f].fd].what = opened[f]
    BY DEF ServerInv, Kept, KeptAt, Holders
  <2> QED
    BY <2>1 DEF ServerInv, Descriptors, HandlesKeepTheirFiles, Holders
<1> QED
  BY ServerInvariant, <1>1, PTL

\* When the server says that there is no more, the client has seen every name
\* that was there all the time, and none twice, however the listing was cut
\* into pieces, restarted, or changed under it.
THEOREM ListingTheorem == Spec => ListingIsExact
<1>1. ServerInv' => \A f \in DOMAIN scan' : Exact(f)'
  <2> SUFFICES ASSUME ServerInv', NEW f \in DOMAIN scan' PROVE Exact(f)'
    OBVIOUS
  <2>1. f \in Scanned' /\ ScanAt(f)'
    BY DEF ServerInv, ScanInv
  <2> DEFINE list == handles'[f].entries
             offset == handles'[f].offset
             sc == scan'[f]
  <2>2. Follows(dir', handles'[f].path[1], list, offset, sc)
        /\ (last'.file = f /\ last'.status = "NO_MORE_FILES" => offset = Len(list))
    BY <2>1 DEF ScanAt
  <2> HIDE DEF list, offset, sc
  <2>3. \A n \in Entries : sc.seen[n] <= 1
    BY <2>2 DEF Follows
  <2>4. ASSUME last'.file = f, last'.status = "NO_MORE_FILES", sc.known,
               NEW n \in sc.stay \cup {".", ".."}
        PROVE  sc.seen[n] = 1
    BY <2>2, <2>4 DEF Follows
  <2> QED
    BY <2>3, <2>4 DEF Exact, sc
<1>2. ServerInv' => [\A f \in DOMAIN scan' : Exact(f)']_vars
  BY <1>1
<1> QED
  BY ServerInvariant, <1>2, PTL DEF ListingIsExact

\* A request of a chain that names no file is given a handle that its own
\* frame opened.
THEOREM ChainTheorem == Spec => ChainStaysInFrame
<1>1. ASSUME NEW f, NEW chain, FileStep(f, chain) PROVE last'.file = f /\ last'.chain = chain
  <2>1. \A tid, status : Answered(tid, status, f, chain) => last'.file = f /\ last'.chain = chain
    BY DEF Answered, Replied, NoRequest
  <2>2. CASE \E restart, single \in BOOLEAN, q \in bound.lists :
                List(f, chain, q.class, restart, single, q.buffer)
    BY <2>2 DEF List, QueryDirectory, Replied
  <2>3. CASE \E n \in bound.names, replace, moves, reopens \in BOOLEAN :
                SetName(f, chain, n, replace, moves, reopens)
    <3>1. PICK n, moves, reopens : Rename(f, chain, n, moves, reopens)
      BY <2>3 DEF SetName
    <3> QED
      BY <2>1, <3>1 DEF Rename
  <2>4. CASE Close(f, chain)
    BY <2>1, <2>4 DEF Close
  <2>5. CASE \/ Access(f, chain) \/ CloseUnknown(f, chain)
             \/ \E pending \in BOOLEAN : Known(f) /\ SetDisposition(f, chain, pending)
             \/ \E n \in bound.names, replace \in BOOLEAN : RenameRefused(f, chain, n, replace)
             \/ \E restart \in BOOLEAN : ListRefused(f, chain, restart)
    <3>1. \E status : OnFile(f, chain, status)
      BY <2>5 DEF Access, CloseUnknown, SetDisposition, RenameRefused, ListRefused
    <3> QED
      BY <3>1, <2>1 DEF OnFile
  <2> QED
    BY <1>1, <2>2, <2>3, <2>4, <2>5 DEF FileStep
<1>2. Next => (last'.chain /\ last'.file # 0 => last'.file = frame.file)
  <2>1. ASSUME NEW r, NEW t, NEW n, NEW chain, CreateStep(r, t, n, chain)
        PROVE  ~last'.chain \/ last'.file = 0
    BY <2>1 DEF CreateStep, CreateRefused, CreateFails, Create, Refused, Answered, Replied, NoRequest
  <2>2. Request => (last'.chain /\ last'.file # 0 => last'.file = frame.file)
    <3> SUFFICES ASSUME Request, last'.chain, last'.file # 0 PROVE last'.file = frame.file
      OBVIOUS
    <3>1. ~DispatchRaises /\ ~BadHeader /\ \A status : ~Other(status)
      <4>1. ~DispatchRaises /\ ~BadHeader
        BY DEF DispatchRaises, BadHeader, NoRequest
      <4>2. \A status : ~Other(status)
        BY DEF Other, Answered, Replied, NoRequest
      <4> QED
        BY <4>1, <4>2
    <3>2. \A s : ~TreeConnect(s) /\ ~TreeDisconnect(s)
      BY DEF TreeConnect, TreeDisconnect, Answered, Replied, NoRequest
    <3>3. \A f : ~FileStep(f, FALSE)
      BY <1>1
    <3>4. FileStep(ChainFile, TRUE)
      BY <2>1, <3>1, <3>2, <3>3 DEF Request
    <3> QED
      BY <1>1, <3>4 DEF ChainFile
  <2>3. ~Request /\ Next => last' = NoRequest
    BY DEF Next, FrameArrives, ConnectionEnds, Host, HostMakes, HostRemoves, HostShares, HostOnly
  <2> QED
    BY <2>2, <2>3 DEF NoRequest
<1>3. ServerInv /\ [Next]_vars => [last'.chain /\ last'.file # 0 => last'.file > frame.base]_vars
  <2>1. ServerInv => (frame.file # 0 => frame.file > frame.base)
    BY DEF ServerInv, ChainInv, Frames
  <2> QED
    BY <1>2, <2>1
<1> QED
  BY ServerInvariant, <1>3, PTL DEF Spec, ChainStaysInFrame

\* A tree id that a handle remembers never leads to another share.
THEOREM TreesTheorem == Spec => TreesKeepTheirShare
<1>1. Next => \A t \in DOMAIN trees' : (t \in DOMAIN trees /\ trees'[t] = trees[t]) \/ t = nextTree
  <2> SUFFICES ASSUME Next
               PROVE  \A t \in DOMAIN trees' :
                          (t \in DOMAIN trees /\ trees'[t] = trees[t]) \/ t = nextTree
    OBVIOUS
  <2>1. \/ UNCHANGED treeVars \/ ConnectionEnds
        \/ \E s \in Shares \cup {Ipc} : TreeConnect(s)
        \/ \E t \in TreeIds : TreeDisconnect(t)
    <3>1. ASSUME NEW f, NEW chain, FileStep(f, chain) PROVE UNCHANGED treeVars
      <4>1. CASE \/ Access(f, chain) \/ CloseUnknown(f, chain)
                 \/ \E pending \in BOOLEAN : Known(f) /\ SetDisposition(f, chain, pending)
                 \/ \E n \in bound.names, replace \in BOOLEAN : RenameRefused(f, chain, n, replace)
                 \/ \E restart \in BOOLEAN : ListRefused(f, chain, restart)
        BY <4>1 DEF Access, CloseUnknown, SetDisposition, RenameRefused, ListRefused, OnFile
      <4>2. CASE \E restart, single \in BOOLEAN, q \in bound.lists :
                    List(f, chain, q.class, restart, single, q.buffer)
        BY <4>2 DEF List, QueryDirectory
      <4>3. CASE \E n \in bound.names, replace, moves, reopens \in BOOLEAN :
                    SetName(f, chain, n, replace, moves, reopens)
        <5>1. PICK n, moves, reopens : Rename(f, chain, n, moves, reopens)
          BY <4>3 DEF SetName
        <5> QED
          BY <5>1 DEF Rename
      <4>4. CASE Close(f, chain)
        BY <4>4 DEF Close
      <4> QED
        BY <3>1, <4>1, <4>2, <4>3, <4>4 DEF FileStep
    <3>2. ASSUME NEW r, NEW t, NEW n, NEW chain, CreateStep(r, t, n, chain) PROVE UNCHANGED treeVars
      BY <3>2 DEF CreateStep, CreateRefused, CreateFails, Create, Refused
    <3> QED
      BY <3>1, <3>2 DEF Next, Request, FrameArrives, DispatchRaises, BadHeader, Other, Host,
                        HostMakes, HostRemoves, HostShares, HostOnly
  <2>2. CASE UNCHANGED treeVars
    BY <2>2 DEF treeVars
  <2>3. CASE ConnectionEnds
    BY <2>3 DEF ConnectionEnds
  <2>4. CASE \E s \in Shares \cup {Ipc} : TreeConnect(s)
    <3>1. PICK s : trees' = trees \/ trees' = Put(trees, nextTree, s)
      BY <2>4 DEF TreeConnect, NewTree
    <3> QED
      BY <3>1 DEF Put
  <2>5. CASE \E t \in TreeIds : TreeDisconnect(t)
    BY <2>5 DEF TreeDisconnect, Restrict
  <2> QED
    BY <2>1, <2>2, <2>3, <2>4, <2>5
<1>2. ServerInv /\ [Next]_vars =>
        [\A f \in DOMAIN handles \cap DOMAIN handles' :
            LET t == handles[f].tree
            IN  t \in DOMAIN trees' => trees'[t] = handles[f].path[1]]_vars
  <2> SUFFICES ASSUME ServerInv, Next, NEW f \in DOMAIN handles, handles[f].tree \in DOMAIN trees'
               PROVE  trees'[handles[f].tree] = handles[f].path[1]
    OBVIOUS
  <2>1. handles[f].tree # nextTree
    BY DEF ServerInv, Types, TreeInv, HandleTypes, HandleRecords
  <2> QED
    BY <1>1, <2>1 DEF ServerInv, TreeInv
<1> QED
  BY ServerInvariant, <1>2, PTL DEF Spec, TreesKeepTheirShare

=============================================================================
