-------------------------- MODULE PlaylistsProofs ---------------------------
(***************************************************************************)
(* Proofs about StoredPlaylists and LoadTracks: how the playlists are      *)
(* loaded and cached, for every number of playlists, revisions and faults, *)
(* and how the tracks of one of them are loaded, for all lists, all        *)
(* redirections and batches of every length.                               *)
(***************************************************************************)
EXTENDS StoredPlaylists, LoadTracks, FiniteSetTheorems, SequenceTheorems, TLAPS

-----------------------------------------------------------------------------
(* StoredPlaylists: the inductive invariant. *)

\* Nothing is newer than the server: no file, no stored revision, no expectation.
ServerIsNewest ==
  /\ localRev <= srvRev
  /\ \A p \in Lists : changed[p] <= srvRev /\ file[p] <= changed[p] /\ asOf[p] <= changed[p]

\* A refresh loads all lists of the meta playlist past the cache, stores them, and
\* parses them as playlists.
RefreshIsWhole ==
  refresh => call = "walk" /\ n = NumLists /\ store /\ ~useCache /\ ~listOfLists

\* What the cache holds of the lists still to load is as new as the caller expects.
CacheIsExpected ==
  call = "walk" /\ useCache =>
    \A p \in Lists : p >= i /\ p <= n =>
      file[p] = NoFile \/ file[p] >= asOf[p] \/ spoilt[p]

\* The lists already returned are not loaded again in this call.
ResultIsPast ==
  /\ call = "meta" => result = <<>>
  /\ call = "walk" => \A k \in DOMAIN result : result[k].list < i

IInv ==
  /\ TypeOK
  /\ ServerIsNewest
  /\ RefreshIsWhole
  /\ CacheMatchesRevision
  /\ CacheIsExpected
  /\ ResultIsPast
  /\ Fresh
  /\ ModeKept

-----------------------------------------------------------------------------
(* Helpers. *)

\* What is charged in a step stays within the bound.
LEMMA ChargeType ==
  ASSUME faults \in 0..MaxFaults, NEW k \in Nat, Charge(k)
  PROVE  faults' \in 0..MaxFaults
BY StoredAssumption DEF Charge

\* One is a number.
LEMMA OneType == \A b \in BOOLEAN : One(b) \in {0, 1} /\ (b => One(b) = 1) /\ (~b => One(b) = 0)
BY DEF One

\* The list being loaded is one of the lists.
LEMMA LoadingType ==
  ASSUME DataTypes, Loading
  PROVE  i \in Lists /\ i <= n /\ call = "walk"
BY StoredAssumption DEF DataTypes, Loading, Lists

\* What a write leaves is a revision, Cut or no file; and no newer than both.
LEMMA WrittenType ==
  ASSUME NEW old \in Nat \cup {NoFile}, NEW new \in Nat, NEW w \in Writes
  PROVE  /\ Written(old, new, w) \in Nat \cup {NoFile}
         /\ Written(old, new, w) \in {old, new, Cut}
         /\ w = "ok" => Written(old, new, w) = new
         /\ w = "unopened" => Written(old, new, w) = old
         /\ old # NoFile => Written(old, new, w) # NoFile
BY DEF Written, Writes, NoFile, Cut

\* The result of a list that is loaded, or not, keeps its type.
LEMMA LoadedType ==
  ASSUME DataTypes, FlagTypes, i \in Lists, NEW v \in Nat, Loaded(v)
  PROVE  /\ result' \in Seq([list : Lists, rev : Nat])
         /\ i' \in Nat \ {0} /\ last' = TRUE
<1>1. [list |-> i, rev |-> v] \in [list : Lists, rev : Nat]
  OBVIOUS
<1>2. (IF last THEN result ELSE <<>>) \in Seq([list : Lists, rev : Nat])
  BY DEF DataTypes
<1>3. result' \in Seq([list : Lists, rev : Nat])
  BY <1>1, <1>2 DEF Loaded
<1>4. QED
  BY <1>3 DEF Loaded, DataTypes

LEMMA NotLoadedType ==
  ASSUME DataTypes, FlagTypes, i \in Lists, NotLoaded
  PROVE  /\ result' \in Seq([list : Lists, rev : Nat])
         /\ i' \in Nat \ {0} /\ last' = FALSE
BY DEF DataTypes, NotLoaded

\* Both ends of a load.
LEMMA LoadTracksType ==
  ASSUME DataTypes, FlagTypes, i \in Lists, NEW v \in Nat, NEW k \in Nat, LoadTracks(v, k)
  PROVE  /\ result' \in Seq([list : Lists, rev : Nat])
         /\ i' \in Nat \ {0} /\ last' \in BOOLEAN
         /\ up' \in BOOLEAN /\ faults' \in 0..MaxFaults
<1>1. CASE Loaded(v) /\ up' = up /\ Charge(k)
  <2>1. faults' \in 0..MaxFaults
    BY <1>1, ChargeType DEF DataTypes
  <2>2. up' \in BOOLEAN
    BY <1>1 DEF FlagTypes
  <2>3. QED
    BY <1>1, <2>1, <2>2, LoadedType
<1>2. CASE NotLoaded /\ up' \in {up, FALSE} /\ Charge(k + One(up))
  <2>1. k + One(up) \in Nat
    BY DEF One
  <2>2. faults' \in 0..MaxFaults
    BY <1>2, <2>1, ChargeType DEF DataTypes
  <2>3. up' \in BOOLEAN
    BY <1>2 DEF FlagTypes
  <2>4. QED
    BY <1>2, <2>2, <2>3, NotLoadedType
<1>3. QED
  BY <1>1, <1>2 DEF LoadTracks

\* A stored answer keeps the types of the files.
LEMMA StoredType ==
  ASSUME DataTypes, FlagTypes, i \in Lists, NEW whole \in BOOLEAN, NEW w \in Writes, Stored(whole, w)
  PROVE  file' \in [Lists -> Nat \cup {NoFile}] /\ spoilt' \in [Lists -> BOOLEAN]
<1>1. CASE ~store
  BY <1>1 DEF Stored, DataTypes, FlagTypes
<1>2. CASE store
  <2>1. (IF whole THEN changed[i] ELSE Cut) \in Nat
    BY DEF DataTypes, Cut
  <2>2. Written(file[i], IF whole THEN changed[i] ELSE Cut, w) \in Nat \cup {NoFile}
    BY <2>1, WrittenType DEF DataTypes
  <2>3. (IF w = "unopened" THEN spoilt[i] \/ refresh ELSE ~whole \/ w = "short") \in BOOLEAN
    BY DEF FlagTypes
  <2>4. file' \in [Lists -> Nat \cup {NoFile}]
    BY <1>2, <2>2 DEF Stored, DataTypes
  <2>5. spoilt' \in [Lists -> BOOLEAN]
    BY <1>2, <2>3 DEF Stored, FlagTypes
  <2>6. QED
    BY <2>4, <2>5
<1>3. QED
  BY <1>1, <1>2 DEF FlagTypes

-----------------------------------------------------------------------------
(* Type correctness. *)

LEMMA InitTypes == Init => TypeOK
<1> SUFFICES ASSUME Init PROVE TypeOK
  OBVIOUS
<1>1. FlagTypes
  BY DEF Init, FlagTypes
<1>2. <<>> \in Seq([list : Lists, rev : Nat])
  OBVIOUS
<1>3. DataTypes
  BY <1>2, StoredAssumption DEF Init, DataTypes
<1>4. QED
  BY <1>1, <1>3 DEF Init, TypeOK

\* An empty result.
LEMMA EmptyType == <<>> \in Seq([list : Lists, rev : Nat])
OBVIOUS

LEMMA TypeStep ==
  ASSUME TypeOK, [Next]_vars
  PROVE  TypeOK'
<1> USE StoredAssumption DEF TypeOK, Lists
<1>1. CASE GetStored
  BY <1>1, EmptyType DEF GetStored, FlagTypes, DataTypes, server, disk, walk, counts
<1>2. CASE MetaAnswered
  <2>1. PICK w \in Writes : /\ localRev' = IF Newer THEN Written(localRev, srvRev, w) ELSE localRev
                            /\ Charge(One(w # "ok"))
    BY <1>2 DEF MetaAnswered
  <2>2. faults' \in 0..MaxFaults
    BY <2>1, OneType, ChargeType DEF DataTypes
  <2>3. localRev' \in Nat
    BY <2>1, WrittenType DEF DataTypes, Cut
  <2>4. FlagTypes'
    BY <1>2 DEF MetaAnswered, StartWalk, Parsed, Newer, FlagTypes, answer
  <2>5. DataTypes'
    BY <1>2, <2>2, <2>3 DEF MetaAnswered, StartWalk, DataTypes, server, answer, counts
  <2>6. QED
    BY <1>2, <2>4, <2>5 DEF MetaAnswered, StartWalk
<1>3. CASE MetaCut
  <2>1. PICK lists \in 0..NumLists : StartWalk(lists)
    BY <1>3 DEF MetaCut
  <2>2. faults' \in 0..MaxFaults
    BY <1>3, ChargeType DEF MetaCut, DataTypes
  <2>3. FlagTypes'
    BY <1>3, <2>1 DEF MetaCut, StartWalk, Parsed, FlagTypes, answer
  <2>4. DataTypes'
    BY <1>3, <2>1, <2>2 DEF MetaCut, StartWalk, DataTypes, server, answer, counts
  <2>5. QED
    BY <2>1, <2>3, <2>4 DEF StartWalk
<1>4. CASE MetaLost
  <2>1. One(up) \in {0, 1}
    BY OneType DEF FlagTypes
  <2>2. faults' \in 0..MaxFaults
    BY <1>4, <2>1, ChargeType DEF MetaLost, DataTypes
  <2>3. FlagTypes'
    BY <1>4 DEF MetaLost, FlagTypes, client, walk, answer
  <2>4. lost' \in Nat
    BY <1>4, <2>1 DEF MetaLost, DataTypes
  <2>5. DataTypes'
    BY <1>4, <2>2, <2>4 DEF MetaLost, DataTypes, server, disk, walk, answer
  <2>6. QED
    BY <1>4, <2>3, <2>5 DEF MetaLost
<1>5. CASE Return
  BY <1>5 DEF Return, FlagTypes, DataTypes, server, disk, answer, counts
<1>6. CASE GetPlaylist
  <2>1. PICK p \in Lists, link \in BOOLEAN, stored \in {FALSE, setting} :
          /\ i' = p /\ n' = p
          /\ useCache' = (useCache /\ ~link)
          /\ store' = IF link THEN useCache ELSE stored
          /\ asOf' = [q \in Lists |-> IF link /\ q = p THEN changed[p] ELSE 0]
    BY <1>6 DEF GetPlaylist
  <2>2. asOf' \in [Lists -> Nat]
    BY <2>1 DEF DataTypes
  <2>3. FlagTypes'
    BY <1>6, <2>1 DEF GetPlaylist, FlagTypes
  <2>4. DataTypes'
    BY <1>6, <2>1, <2>2, EmptyType DEF GetPlaylist, DataTypes, server, disk, counts
  <2>5. QED
    BY <1>6, <2>3, <2>4 DEF GetPlaylist
<1>7. CASE Cached
  <2>1. i \in Lists /\ file[i] \in Nat
    BY <1>7, LoadingType DEF Cached, InCache, DataTypes
  <2>2. LoadTracks(file[i], 0)
    BY <1>7 DEF Cached
  <2>3. /\ result' \in Seq([list : Lists, rev : Nat])
        /\ i' \in Nat \ {0} /\ last' \in BOOLEAN
        /\ up' \in BOOLEAN /\ faults' \in 0..MaxFaults
    BY <2>1, <2>2, LoadTracksType
  <2>4. FlagTypes'
    BY <1>7, <2>3 DEF Cached, FlagTypes, client
  <2>5. DataTypes'
    BY <1>7, <2>3 DEF Cached, DataTypes, server, disk, counts
  <2>6. QED
    BY <1>7, <2>4, <2>5 DEF Cached
<1>8. CASE Fetched
  <2>0. i \in Lists
    BY <1>8, LoadingType DEF Fetched
  <2>1. PICK whole \in BOOLEAN, w \in Writes :
          /\ Stored(whole, w)
          /\ asOf' = IF whole THEN asOf ELSE [asOf EXCEPT ![i] = 0]
          /\ LoadTracks(IF whole THEN changed[i] ELSE Cut, One(~whole) + One(w # "ok") + One(InCache))
    BY <1>8 DEF Fetched
  <2>2. (IF whole THEN changed[i] ELSE Cut) \in Nat
    BY <2>0 DEF DataTypes, Cut
  <2>3. One(~whole) + One(w # "ok") + One(InCache) \in Nat
    BY DEF One
  <2>4. /\ result' \in Seq([list : Lists, rev : Nat])
        /\ i' \in Nat \ {0} /\ last' \in BOOLEAN
        /\ up' \in BOOLEAN /\ faults' \in 0..MaxFaults
    BY <2>0, <2>1, <2>2, <2>3, LoadTracksType
  <2>5. file' \in [Lists -> Nat \cup {NoFile}] /\ spoilt' \in [Lists -> BOOLEAN]
    BY <2>0, <2>1, StoredType
  <2>6. asOf' \in [Lists -> Nat]
    BY <2>0, <2>1 DEF DataTypes
  <2>7. FlagTypes'
    BY <1>8, <2>4, <2>5 DEF Fetched, FlagTypes, client
  <2>8. DataTypes'
    BY <1>8, <2>4, <2>5, <2>6 DEF Fetched, DataTypes, server, counts
  <2>9. QED
    BY <1>8, <2>7, <2>8 DEF Fetched
<1>9. CASE FetchedAsLists
  <2>0. i \in Lists
    BY <1>9, LoadingType DEF FetchedAsLists
  <2>1. PICK whole \in BOOLEAN, w \in Writes :
          /\ Stored(whole, w)
          /\ \/ LoadTracks(Cut, One(~whole) + One(w # "ok") + One(InCache)) /\ call' = call
             \/ /\ call' = "hung"
                /\ Charge(One(~whole) + One(w # "ok") + One(InCache))
                /\ UNCHANGED <<i, answer, up>>
    BY <1>9 DEF FetchedAsLists
  <2>3. One(~whole) + One(w # "ok") + One(InCache) \in Nat
    BY DEF One
  <2>4. /\ result' \in Seq([list : Lists, rev : Nat])
        /\ i' \in Nat \ {0} /\ last' \in BOOLEAN
        /\ up' \in BOOLEAN /\ faults' \in 0..MaxFaults
    <3>1. CASE LoadTracks(Cut, One(~whole) + One(w # "ok") + One(InCache))
      BY <3>1, <2>0, <2>3, LoadTracksType DEF Cut
    <3>2. CASE /\ Charge(One(~whole) + One(w # "ok") + One(InCache))
               /\ UNCHANGED <<i, answer, up>>
      BY <3>2, <2>3, ChargeType DEF DataTypes, FlagTypes, answer
    <3>3. QED
      BY <2>1, <3>1, <3>2
  <2>5. file' \in [Lists -> Nat \cup {NoFile}] /\ spoilt' \in [Lists -> BOOLEAN]
    BY <2>0, <2>1, StoredType
  <2>6. asOf' \in [Lists -> Nat]
    BY <1>9, <2>0 DEF FetchedAsLists, DataTypes
  <2>7. FlagTypes'
    BY <1>9, <2>4, <2>5 DEF FetchedAsLists, Parsed, FlagTypes
  <2>8. DataTypes'
    BY <1>9, <2>4, <2>5, <2>6 DEF FetchedAsLists, DataTypes, server
  <2>9. QED
    BY <2>1, <2>7, <2>8
<1>10. CASE Unanswered
  <2>1. i \in Lists
    BY <1>10, LoadingType DEF Unanswered
  <2>2. One(up) + One(InCache) \in Nat
    BY DEF One
  <2>3. faults' \in 0..MaxFaults
    BY <1>10, <2>2, ChargeType DEF Unanswered, DataTypes
  <2>4. /\ result' \in Seq([list : Lists, rev : Nat])
        /\ i' \in Nat \ {0} /\ last' = FALSE
    BY <1>10, <2>1, NotLoadedType DEF Unanswered
  <2>5. FlagTypes'
    BY <1>10, <2>1, <2>4 DEF Unanswered, FlagTypes, client
  <2>6. DataTypes'
    BY <1>10, <2>3, <2>4 DEF Unanswered, DataTypes, server, disk, counts
  <2>7. QED
    BY <1>10, <2>5, <2>6 DEF Unanswered
<1>11. CASE Kill
  <2>1. PICK writing \in BOOLEAN :
          /\ writing => Loading
          /\ file' = IF writing THEN [file EXCEPT ![i] = Cut] ELSE file
          /\ spoilt' = [p \in Lists |-> \/ spoilt[p]
                                        \/ refresh /\ p \in i..n
                                        \/ writing /\ p = i]
    BY <1>11 DEF Kill
  <2>2. file' \in [Lists -> Nat \cup {NoFile}]
    BY <2>1 DEF DataTypes, Cut
  <2>3. spoilt' \in [Lists -> BOOLEAN]
    BY <2>1 DEF FlagTypes
  <2>4. faults' \in 0..MaxFaults
    BY <1>11, ChargeType DEF Kill, DataTypes
  <2>5. FlagTypes'
    BY <1>11, <2>3 DEF Kill, FlagTypes, client, answer
  <2>6. DataTypes'
    BY <1>11, <2>2, <2>4 DEF Kill, DataTypes, server, answer, counts
  <2>7. QED
    BY <1>11, <2>5, <2>6 DEF Kill
<1>12. CASE Quit
  BY <1>12 DEF Quit, FlagTypes, DataTypes, server, disk, client, walk, answer, counts
<1>13. CASE Restart
  BY <1>13, EmptyType DEF Restart, FlagTypes, DataTypes, server, disk, walk
<1>14. CASE Change
  BY <1>14 DEF Change, FlagTypes, DataTypes, disk, client, walk, answer, counts
<1>15. CASE UNCHANGED vars
  BY <1>15 DEF vars, FlagTypes, DataTypes, server, disk, client, walk, answer, counts
<1>16. QED
  BY <1>1, <1>2, <1>3, <1>4, <1>5, <1>6, <1>7, <1>8, <1>9, <1>10, <1>11, <1>12, <1>13, <1>14, <1>15
  DEF Next

\* The variables keep their types.
THEOREM StoredTypeCorrect == Spec => []TypeOK
<1>1. Init => TypeOK
  BY InitTypes
<1>2. TypeOK /\ [Next]_vars => TypeOK'
  BY TypeStep
<1>3. QED
  BY <1>1, <1>2, PTL DEF Spec

-----------------------------------------------------------------------------
(* What the steps do to the files and to the result. *)

\* Storing an answer touches the file of list i only: it is what the server has, or
\* spoilt, or as before; in a refresh it is not just as before.
LEMMA StoredFacts ==
  ASSUME TypeOK, i \in Lists, NEW whole \in BOOLEAN, NEW w \in Writes, Stored(whole, w),
         file[i] <= changed[i]
  PROVE  /\ \A p \in Lists : p # i => file'[p] = file[p] /\ spoilt'[p] = spoilt[p]
         /\ file'[i] <= changed[i]
         /\ \/ file'[i] = changed[i]
            \/ spoilt'[i]
            \/ file'[i] = file[i] /\ spoilt'[i] = spoilt[i] /\ ~(refresh /\ store)
<1>1. CASE ~store
  BY <1>1 DEF Stored
<1>2. CASE store
  <2> DEFINE new == IF whole THEN changed[i] ELSE Cut
             bad == IF w = "unopened" THEN spoilt[i] \/ refresh ELSE ~whole \/ w = "short"
  <2>1. new \in Nat /\ new <= changed[i]
    BY DEF TypeOK, DataTypes, Cut
  <2>2. file' = [file EXCEPT ![i] = Written(file[i], new, w)] /\ spoilt' = [spoilt EXCEPT ![i] = bad]
    BY <1>2 DEF Stored
  <2>3. file'[i] = Written(file[i], new, w) /\ (spoilt'[i] <=> bad)
    BY <2>2 DEF TypeOK, DataTypes, FlagTypes
  <2>4. Written(file[i], new, w) \in {file[i], new, Cut}
    BY <2>1, WrittenType DEF TypeOK, DataTypes
  <2>5. file'[i] <= changed[i]
    BY <2>1, <2>3, <2>4 DEF TypeOK, DataTypes, Cut
  <2>6. CASE w = "ok"
    BY <2>1, <2>2, <2>3, <2>5, <2>6, WrittenType DEF TypeOK, DataTypes, FlagTypes
  <2>7. CASE w = "short"
    BY <2>2, <2>3, <2>5, <2>7 DEF TypeOK, DataTypes, FlagTypes
  <2>8. CASE w = "unopened"
    <3> HIDE DEF new
    <3>1. file'[i] = file[i]
      BY <2>3, <2>8 DEF Written
    <3>2. spoilt'[i] <=> (spoilt[i] \/ refresh)
      BY <2>3, <2>8
    <3>3. spoilt'[i] \in BOOLEAN /\ spoilt[i] \in BOOLEAN
      BY StoredType DEF TypeOK, FlagTypes
    <3>4. CASE refresh
      BY <2>2, <2>5, <3>2, <3>4 DEF TypeOK, DataTypes, FlagTypes
    <3>5. CASE ~refresh
      BY <2>2, <2>5, <3>1, <3>2, <3>3, <3>5 DEF TypeOK, DataTypes, FlagTypes
    <3>6. QED
      BY <3>4, <3>5
  <2>9. QED
    BY <2>6, <2>7, <2>8 DEF Writes
<1>3. QED
  BY <1>1, <1>2

\* A load moves to the next list; what it returns is what was there, and the list.
LEMMA LoadedFacts ==
  ASSUME TypeOK, i \in Lists, NEW v \in Nat, Loaded(v) \/ NotLoaded
  PROVE  /\ i' = i + 1
         /\ \A k \in DOMAIN result' :
              \/ k \in DOMAIN result /\ result'[k] = result[k]
              \/ result'[k] = [list |-> i, rev |-> v] /\ Loaded(v)
<1> DEFINE before == IF last THEN result ELSE <<>>
<1>1. before \in Seq([list : Lists, rev : Nat])
  BY DEF TypeOK, DataTypes
<1>2. \A k \in DOMAIN before : k \in DOMAIN result /\ before[k] = result[k]
  OBVIOUS
<1>3. CASE Loaded(v)
  <2>1. result' = Append(before, [list |-> i, rev |-> v]) /\ i' = i + 1
    BY <1>3 DEF Loaded
  <2>2. \A k \in DOMAIN result' : \/ k \in DOMAIN before /\ result'[k] = before[k]
                                 \/ result'[k] = [list |-> i, rev |-> v]
    <3> HIDE DEF before
    <3>1. DOMAIN result' = 1..(Len(before) + 1)
      BY <1>1, <2>1
    <3>2. QED
      BY <1>1, <2>1, <3>1
  <2>3. QED
    BY <1>2, <1>3, <2>1, <2>2
<1>4. CASE NotLoaded
  BY <1>2, <1>4 DEF NotLoaded
<1>5. QED
  BY <1>3, <1>4

LEMMA LoadTracksFacts ==
  ASSUME TypeOK, i \in Lists, NEW v \in Nat, NEW k0, LoadTracks(v, k0)
  PROVE  /\ i' = i + 1
         /\ \A k \in DOMAIN result' :
              \/ k \in DOMAIN result /\ result'[k] = result[k]
              \/ result'[k] = [list |-> i, rev |-> v]
BY LoadedFacts DEF LoadTracks

\* The elements of a sequence.
LEMMA ElementType ==
  ASSUME NEW S, NEW s \in Seq(S)
  PROVE  \A k \in 1..Len(s) : s[k] \in S
OBVIOUS

\* What is returned are lists, with a revision.
LEMMA ResultLists ==
  ASSUME DataTypes
  PROVE  \A k \in DOMAIN result : result[k].list \in Lists /\ result[k].rev \in Nat
<1>1. result \in Seq([list : Lists, rev : Nat])
  BY DEF DataTypes
<1>2. DOMAIN result = 1..Len(result)
  BY <1>1
<1>3. \A k \in 1..Len(result) : result[k] \in [list : Lists, rev : Nat]
  BY <1>1, ElementType
<1>4. QED
  BY <1>2, <1>3

\* The lists a refresh has still to load.
LEMMA ToDoFacts ==
  ASSUME TypeOK
  PROVE  \A p \in Lists : p \in ToDo <=> refresh /\ i <= p /\ p <= n
BY StoredAssumption DEF TypeOK, DataTypes, FlagTypes, ToDo, Lists

-----------------------------------------------------------------------------
(* The invariant. *)

LEMMA InitInv == Init => IInv
<1> SUFFICES ASSUME Init PROVE IInv
  OBVIOUS
<1>1. TypeOK
  BY InitTypes
<1>2. ServerIsNewest /\ RefreshIsWhole /\ CacheMatchesRevision /\ CacheIsExpected /\ ResultIsPast /\ Fresh
  BY DEF Init, ServerIsNewest, RefreshIsWhole, CacheMatchesRevision, CacheIsExpected, ResultIsPast,
         Fresh, NoFile
<1>3. ModeKept
  BY DEF Init, ModeKept
<1>4. QED
  BY <1>1, <1>2, <1>3 DEF IInv

LEMMA ServerStep ==
  ASSUME IInv, [Next]_vars
  PROVE  ServerIsNewest'
<1> USE DEF IInv, ServerIsNewest
<1> TypeOK /\ DataTypes
  BY DEF TypeOK
<1>1. CASE MetaAnswered
  <2>1. PICK w \in Writes : localRev' = IF Newer THEN Written(localRev, srvRev, w) ELSE localRev
    BY <1>1 DEF MetaAnswered
  <2>2. localRev' \in {localRev, srvRev, Cut}
    BY <2>1, WrittenType DEF DataTypes
  <2>3. localRev' <= srvRev
    BY <2>2 DEF DataTypes, Cut
  <2>4. QED
    BY <1>1, <2>3 DEF MetaAnswered, StartWalk, server, DataTypes
<1>2. CASE MetaCut
  BY <1>2 DEF MetaCut, StartWalk, server, DataTypes
<1>3. CASE GetPlaylist
  <2>1. PICK p \in Lists, link \in BOOLEAN :
          asOf' = [q \in Lists |-> IF link /\ q = p THEN changed[p] ELSE 0]
    BY <1>3 DEF GetPlaylist
  <2>2. QED
    BY <1>3, <2>1 DEF GetPlaylist, server, disk, DataTypes
<1>4. CASE Fetched
  <2>1. i \in Lists
    BY <1>4, LoadingType DEF Fetched
  <2>2. PICK whole \in BOOLEAN, w \in Writes :
          Stored(whole, w) /\ asOf' = IF whole THEN asOf ELSE [asOf EXCEPT ![i] = 0]
    BY <1>4 DEF Fetched
  <2>3. file'[i] <= changed[i] /\ \A p \in Lists : p # i => file'[p] = file[p]
    BY <2>1, <2>2, StoredFacts
  <2>4. \A p \in Lists : asOf'[p] <= changed[p]
    BY <2>1, <2>2 DEF DataTypes
  <2>5. QED
    BY <1>4, <2>3, <2>4 DEF Fetched, server
<1>5. CASE FetchedAsLists
  <2>1. i \in Lists
    BY <1>5, LoadingType DEF FetchedAsLists
  <2>2. PICK whole \in BOOLEAN, w \in Writes : Stored(whole, w)
    BY <1>5 DEF FetchedAsLists
  <2>3. file'[i] <= changed[i] /\ \A p \in Lists : p # i => file'[p] = file[p]
    BY <2>1, <2>2, StoredFacts
  <2>4. \A p \in Lists : asOf'[p] <= changed[p]
    BY <1>5, <2>1 DEF FetchedAsLists, DataTypes
  <2>5. QED
    BY <1>5, <2>3, <2>4 DEF FetchedAsLists, server
<1>6. CASE Kill
  BY <1>6 DEF Kill, server, DataTypes, Cut
<1>7. CASE Change
  <2>1. PICK p \in Lists : changed' = [changed EXCEPT ![p] = srvRev + 1]
    BY <1>7 DEF Change
  <2>2. \A q \in Lists : changed'[q] \in {changed[q], srvRev + 1}
    BY <2>1 DEF DataTypes
  <2>3. \A q \in Lists : changed[q] \in Nat /\ file[q] \in Int /\ asOf[q] \in Nat
    BY DEF DataTypes, NoFile
  <2>4. QED
    BY <1>7, <2>2, <2>3 DEF Change, disk, DataTypes
<1>8. CASE GetStored \/ MetaLost \/ Return \/ Cached \/ Unanswered \/ Quit \/ Restart \/ UNCHANGED vars
  BY <1>8 DEF GetStored, MetaLost, Return, Cached, Unanswered, Quit, Restart, vars, server, disk
<1>9. QED
  BY <1>1, <1>2, <1>3, <1>4, <1>5, <1>6, <1>7, <1>8 DEF Next

LEMMA RefreshStep ==
  ASSUME IInv, [Next]_vars
  PROVE  RefreshIsWhole'
<1> USE DEF IInv, RefreshIsWhole
<1>1. CASE GetStored
  BY <1>1 DEF GetStored, walk
<1>2. CASE MetaAnswered
  BY <1>2 DEF MetaAnswered, StartWalk, Newer, Parsed
<1>3. CASE MetaCut \/ Return \/ Kill
  BY <1>3 DEF MetaCut, Return, Kill
<1>4. CASE MetaLost \/ Quit \/ Restart
  BY <1>4 DEF MetaLost, Quit, Restart, walk
<1>5. CASE GetPlaylist
  BY <1>5 DEF GetPlaylist
<1>6. CASE Cached \/ Fetched \/ Unanswered
  BY <1>6 DEF Cached, Fetched, Unanswered, client
<1>7. CASE FetchedAsLists
  BY <1>7 DEF FetchedAsLists
<1>8. CASE Change \/ UNCHANGED vars
  BY <1>8 DEF Change, vars, walk, client
<1>9. QED
  BY <1>1, <1>2, <1>3, <1>4, <1>5, <1>6, <1>7, <1>8 DEF Next

LEMMA CacheStep ==
  ASSUME IInv, [Next]_vars
  PROVE  CacheMatchesRevision'
<1> USE DEF IInv
<1> TypeOK /\ DataTypes /\ FlagTypes
  BY DEF TypeOK
<1> DEFINE Matches(p) == changed[p] <= localRev => file[p] \in {NoFile, changed[p]} \/ spoilt[p]
<1>a. TypeOK'
  BY TypeStep
<1>b. \A p \in Lists : p \in ToDo <=> refresh /\ i <= p /\ p <= n
  BY ToDoFacts
<1>c. \A p \in Lists : p \in ToDo' <=> refresh' /\ i' <= p /\ p <= n'
  BY <1>a, StoredAssumption DEF TypeOK, DataTypes, FlagTypes, ToDo, Lists
<1>d. \A p \in Lists : p \notin ToDo => Matches(p)
  BY DEF CacheMatchesRevision
<1>e. SUFFICES ASSUME NEW p \in Lists, p \notin ToDo'
               PROVE  changed'[p] <= localRev' => file'[p] \in {NoFile, changed'[p]} \/ spoilt'[p]
  BY DEF CacheMatchesRevision
<1>1. CASE MetaAnswered
  <2>1. CASE Newer
    <3>1. p \in ToDo'
      BY <1>1, <1>c, <2>1 DEF MetaAnswered, StartWalk, Lists
    <3>2. QED
      BY <1>e, <3>1
  <2>2. CASE ~Newer
    <3>1. p \notin ToDo
      BY <1>1, <1>b DEF MetaAnswered, RefreshIsWhole
    <3>2. QED
      BY <1>1, <1>d, <2>2, <3>1 DEF MetaAnswered, StartWalk, server
  <2>3. QED
    BY <2>1, <2>2
<1>2. CASE MetaCut
  BY <1>2, <1>b, <1>d DEF MetaCut, StartWalk, server, RefreshIsWhole
<1>3. CASE GetStored \/ MetaLost \/ Quit \/ Restart \/ UNCHANGED vars
  <2>1. UNCHANGED walk /\ UNCHANGED server /\ UNCHANGED disk /\ UNCHANGED spoilt
    BY <1>3 DEF GetStored, MetaLost, Quit, Restart, vars
  <2>2. p \notin ToDo
    BY <2>1, <1>b, <1>c, <1>e DEF walk
  <2>3. QED
    BY <2>1, <2>2, <1>d DEF server, disk
<1>4. CASE Return
  <2>1. p \notin ToDo
    BY <1>4, <1>b DEF Return, DataTypes, Lists
  <2>2. QED
    BY <1>4, <1>d, <2>1 DEF Return, server, disk
<1>5. CASE GetPlaylist
  BY <1>5, <1>b, <1>d DEF GetPlaylist, server, disk, RefreshIsWhole
<1>6. CASE Cached
  BY <1>6, <1>b, <1>d DEF Cached, InCache, server, disk, RefreshIsWhole
<1>7. CASE Fetched
  <2>1. i \in Lists /\ i <= n
    BY <1>7, LoadingType DEF Fetched
  <2>2. PICK whole \in BOOLEAN, w \in Writes :
          /\ Stored(whole, w)
          /\ LoadTracks(IF whole THEN changed[i] ELSE Cut, One(~whole) + One(w # "ok") + One(InCache))
    BY <1>7 DEF Fetched
  <2>3. i' = i + 1
    BY <2>1, <2>2, LoadTracksFacts DEF DataTypes, Cut
  <2>4. file[i] <= changed[i]
    BY <2>1 DEF ServerIsNewest
  <2>5. CASE p = i
    <3>1. \/ file'[i] = changed[i]
          \/ spoilt'[i]
          \/ file'[i] = file[i] /\ spoilt'[i] = spoilt[i] /\ ~(refresh /\ store)
      BY <2>1, <2>2, <2>4, StoredFacts
    <3>2. ~(refresh /\ store) => Matches(i)
      BY <1>b, <1>d, <2>1 DEF RefreshIsWhole
    <3>3. changed' = changed /\ localRev' = localRev
      BY <1>7 DEF Fetched, server
    <3>4. QED
      BY <2>5, <3>1, <3>2, <3>3
  <2>6. CASE p # i
    <3>1. file'[p] = file[p] /\ spoilt'[p] = spoilt[p]
      BY <2>1, <2>2, <2>4, <2>6, StoredFacts
    <3>2. p \notin ToDo
      BY <1>7, <1>b, <1>c, <1>e, <2>3, <2>6 DEF Fetched, DataTypes, Lists
    <3>3. QED
      BY <1>7, <1>d, <3>1, <3>2 DEF Fetched, server
  <2>7. QED
    BY <2>5, <2>6
<1>8. CASE FetchedAsLists
  <2>1. i \in Lists /\ i <= n /\ ~refresh
    BY <1>8, LoadingType DEF FetchedAsLists, RefreshIsWhole
  <2>2. PICK whole \in BOOLEAN, w \in Writes : Stored(whole, w)
    BY <1>8 DEF FetchedAsLists
  <2>4. file[i] <= changed[i]
    BY <2>1 DEF ServerIsNewest
  <2>5. CASE p = i
    <3>1. \/ file'[i] = changed[i]
          \/ spoilt'[i]
          \/ file'[i] = file[i] /\ spoilt'[i] = spoilt[i]
      BY <2>1, <2>2, <2>4, StoredFacts
    <3>2. Matches(i)
      BY <1>b, <1>d, <2>1
    <3>3. changed' = changed /\ localRev' = localRev
      BY <1>8 DEF FetchedAsLists, server
    <3>4. QED
      BY <2>5, <3>1, <3>2, <3>3
  <2>6. CASE p # i
    <3>1. file'[p] = file[p] /\ spoilt'[p] = spoilt[p]
      BY <2>1, <2>2, <2>4, <2>6, StoredFacts
    <3>2. QED
      BY <1>8, <1>b, <1>d, <2>1, <3>1 DEF FetchedAsLists, server
  <2>7. QED
    BY <2>5, <2>6
<1>9. CASE Unanswered
  <2>1. i \in Lists /\ i <= n /\ i' = i + 1
    BY <1>9, LoadingType DEF Unanswered, NotLoaded
  <2>2. spoilt' = [spoilt EXCEPT ![i] = spoilt[i] \/ refresh]
    BY <1>9 DEF Unanswered
  <2>3. CASE refresh /\ p = i
    BY <2>1, <2>2, <2>3 DEF FlagTypes
  <2>4. CASE ~(refresh /\ p = i)
    <3>1. p \notin ToDo
      BY <1>9, <1>b, <1>c, <1>e, <2>1, <2>4 DEF Unanswered, DataTypes, Lists
    <3>2. spoilt[p] => spoilt'[p]
      BY <2>1, <2>2 DEF FlagTypes
    <3>3. QED
      BY <1>9, <1>d, <3>1, <3>2 DEF Unanswered, server, disk
  <2>5. QED
    BY <2>3, <2>4
<1>10. CASE Kill
  <2>1. PICK writing \in BOOLEAN :
          /\ file' = IF writing THEN [file EXCEPT ![i] = Cut] ELSE file
          /\ spoilt' = [q \in Lists |-> \/ spoilt[q]
                                        \/ refresh /\ q \in i..n
                                        \/ writing /\ q = i]
    BY <1>10 DEF Kill
  <2>2. spoilt'[p] <=> \/ spoilt[p]
                       \/ refresh /\ p \in i..n
                       \/ writing /\ p = i
    BY <2>1
  <2>3. CASE spoilt'[p]
    BY <2>3
  <2>4. CASE ~spoilt'[p]
    <3>1. p \notin ToDo
      BY <1>b, <2>2, <2>4 DEF DataTypes, Lists
    <3>2. file'[p] = file[p]
      BY <2>1, <2>2, <2>4 DEF DataTypes
    <3>3. QED
      BY <1>10, <1>d, <2>2, <2>4, <3>1, <3>2 DEF Kill, server
  <2>5. QED
    BY <2>3, <2>4
<1>11. CASE Change
  <2>1. PICK q \in Lists : changed' = [changed EXCEPT ![q] = srvRev + 1]
    BY <1>11 DEF Change
  <2>2. p \notin ToDo
    BY <1>11, <1>b, <1>c, <1>e DEF Change, walk
  <2>3. CASE p = q
    BY <1>11, <2>1, <2>3 DEF Change, disk, DataTypes, ServerIsNewest
  <2>4. CASE p # q
    BY <1>11, <1>d, <2>1, <2>2, <2>4 DEF Change, disk, DataTypes
  <2>5. QED
    BY <2>3, <2>4
<1>12. QED
  BY <1>1, <1>2, <1>3, <1>4, <1>5, <1>6, <1>7, <1>8, <1>9, <1>10, <1>11 DEF Next

LEMMA ExpectedStep ==
  ASSUME IInv, [Next]_vars
  PROVE  CacheIsExpected'
<1> USE DEF IInv
<1> TypeOK /\ DataTypes /\ FlagTypes
  BY DEF TypeOK
<1> DEFINE Expected(p) == file[p] = NoFile \/ file[p] >= asOf[p] \/ spoilt[p]
<1>a. call = "walk" /\ useCache => \A p \in Lists : p >= i /\ p <= n => Expected(p)
  BY DEF CacheIsExpected
<1>b. \A p \in Lists : changed[p] \in Nat /\ file[p] \in Nat \cup {NoFile} /\ asOf[p] \in Nat
  BY DEF DataTypes
<1>1. CASE MetaAnswered
  <2>1. CASE ~Newer /\ setting
    <3>1. ToDo = {}
      BY <1>1 DEF MetaAnswered, RefreshIsWhole, ToDo
    <3>2. \A p \in Lists : changed[p] <= srvRev /\ srvRev <= localRev
      BY <2>1 DEF Newer, ServerIsNewest, DataTypes
    <3>3. \A p \in Lists : changed[p] <= localRev
      BY <1>b, <3>2 DEF DataTypes
    <3>4. \A p \in Lists : file[p] \in {NoFile, changed[p]} \/ spoilt[p]
      BY <3>1, <3>3 DEF CacheMatchesRevision
    <3>5. \A p \in Lists : file[p] = NoFile \/ file[p] >= changed[p] \/ spoilt[p]
      BY <1>b, <3>4
    <3>6. QED
      BY <1>1, <3>5 DEF MetaAnswered, StartWalk, CacheIsExpected
  <2>2. CASE ~(~Newer /\ setting)
    BY <1>1, <2>2 DEF MetaAnswered, CacheIsExpected
  <2>3. QED
    BY <2>1, <2>2
<1>2. CASE MetaCut
  BY <1>2, <1>b DEF MetaCut, StartWalk, CacheIsExpected
<1>3. CASE GetStored \/ MetaLost \/ Return \/ Kill \/ Quit \/ Restart
  BY <1>3 DEF GetStored, MetaLost, Return, Kill, Quit, Restart, CacheIsExpected
<1>4. CASE Change \/ UNCHANGED vars
  BY <1>4 DEF Change, vars, disk, client, walk, CacheIsExpected
<1>5. CASE GetPlaylist
  <2>1. PICK q \in Lists, link \in BOOLEAN :
          /\ useCache' = (useCache /\ ~link)
          /\ asOf' = [p \in Lists |-> IF link /\ p = q THEN changed[q] ELSE 0]
    BY <1>5 DEF GetPlaylist
  <2>2. useCache' => \A p \in Lists : asOf'[p] = 0
    BY <2>1
  <2>3. QED
    BY <1>5, <1>b, <2>2 DEF GetPlaylist, disk, CacheIsExpected
<1>6. CASE Cached
  <2>1. i \in Lists
    BY <1>6, LoadingType DEF Cached
  <2>2. i' = i + 1
    BY <1>6, <2>1, LoadTracksFacts DEF Cached, InCache, DataTypes
  <2>3. QED
    BY <1>6, <1>a, <2>2 DEF Cached, DataTypes, Lists, disk, client, CacheIsExpected
<1>7. CASE Fetched
  <2>1. i \in Lists
    BY <1>7, LoadingType DEF Fetched
  <2>2. PICK whole \in BOOLEAN, w \in Writes :
          /\ Stored(whole, w)
          /\ asOf' = IF whole THEN asOf ELSE [asOf EXCEPT ![i] = 0]
          /\ LoadTracks(IF whole THEN changed[i] ELSE Cut, One(~whole) + One(w # "ok") + One(InCache))
    BY <1>7 DEF Fetched
  <2>3. i' = i + 1
    BY <2>1, <2>2, LoadTracksFacts DEF DataTypes, Cut
  <2>4. file[i] <= changed[i]
    BY <2>1 DEF ServerIsNewest
  <2>5. \A p \in Lists : p # i => file'[p] = file[p] /\ spoilt'[p] = spoilt[p] /\ asOf'[p] = asOf[p]
    BY <2>1, <2>2, <2>4, StoredFacts DEF DataTypes
  <2>6. call' = call /\ useCache' = useCache /\ n' = n
    BY <1>7 DEF Fetched, client
  <2>7. \A p \in Lists : p >= i + 1 => p >= i /\ p # i
    BY DEF DataTypes, Lists
  <2>8. QED
    BY <1>a, <2>3, <2>5, <2>6, <2>7 DEF CacheIsExpected
<1>8. CASE FetchedAsLists
  <2>1. i \in Lists
    BY <1>8, LoadingType DEF FetchedAsLists
  <2>2. PICK whole \in BOOLEAN, w \in Writes :
          /\ Stored(whole, w)
          /\ \/ /\ LoadTracks(Cut, One(~whole) + One(w # "ok") + One(InCache))
                /\ call' = call
             \/ call' = "hung"
    BY <1>8 DEF FetchedAsLists
  <2>3. call' = "hung" \/ (call' = call /\ i' = i + 1)
    BY <2>1, <2>2, LoadTracksFacts DEF Cut
  <2>4. file[i] <= changed[i]
    BY <2>1 DEF ServerIsNewest
  <2>5. \A p \in Lists : p # i => file'[p] = file[p] /\ spoilt'[p] = spoilt[p]
    BY <2>1, <2>2, <2>4, StoredFacts
  <2>6. \A p \in Lists : p # i => asOf'[p] = asOf[p]
    BY <1>8 DEF FetchedAsLists, DataTypes
  <2>7. useCache' = useCache /\ n' = n
    BY <1>8 DEF FetchedAsLists
  <2>8. \A p \in Lists : p >= i + 1 => p >= i /\ p # i
    BY DEF DataTypes, Lists
  <2>9. QED
    BY <1>a, <2>3, <2>5, <2>6, <2>7, <2>8 DEF CacheIsExpected
<1>9. CASE Unanswered
  <2>1. i \in Lists /\ i' = i + 1
    BY <1>9, LoadingType DEF Unanswered, NotLoaded
  <2>2. \A p \in Lists : p # i => spoilt'[p] = spoilt[p]
    BY <1>9 DEF Unanswered, FlagTypes
  <2>3. \A p \in Lists : p >= i + 1 => p >= i /\ p # i
    BY DEF DataTypes, Lists
  <2>4. QED
    BY <1>9, <1>a, <2>1, <2>2, <2>3 DEF Unanswered, disk, client, CacheIsExpected
<1>10. QED
  BY <1>1, <1>2, <1>3, <1>4, <1>5, <1>6, <1>7, <1>8, <1>9 DEF Next

LEMMA PastStep ==
  ASSUME IInv, [Next]_vars
  PROVE  ResultIsPast'
<1> USE DEF IInv
<1> TypeOK /\ DataTypes /\ FlagTypes
  BY DEF TypeOK
<1>a. call = "walk" => \A k \in DOMAIN result : result[k].list < i
  BY DEF ResultIsPast
<1>1. CASE GetStored \/ Restart \/ GetPlaylist
  <2>1. result' = <<>>
    BY <1>1 DEF GetStored, Restart, GetPlaylist
  <2>2. DOMAIN result' = {}
    BY <2>1
  <2>3. QED
    BY <2>1, <2>2 DEF ResultIsPast
<1>2. CASE MetaAnswered \/ MetaCut
  BY <1>2 DEF MetaAnswered, MetaCut, StartWalk, answer, ResultIsPast
<1>3. CASE MetaLost \/ Return \/ Kill \/ Quit
  BY <1>3 DEF MetaLost, Return, Kill, Quit, ResultIsPast
<1>4. CASE Change \/ UNCHANGED vars
  BY <1>4 DEF Change, vars, walk, answer, ResultIsPast
<1>5. ASSUME i \in Lists, call = "walk", call' = "walk" \/ call' = "hung", i' = i + 1,
             NEW v \in Nat,
             \A k \in DOMAIN result' : \/ k \in DOMAIN result /\ result'[k] = result[k]
                                      \/ result'[k] = [list |-> i, rev |-> v]
      PROVE  ResultIsPast'
  <2>1. \A k \in DOMAIN result : result[k].list \in Lists
    BY ResultLists
  <2>2. ASSUME NEW k \in DOMAIN result' PROVE result'[k].list < i + 1
    BY <1>5, <1>a, <2>1, <2>2 DEF Lists
  <2>3. QED
    BY <1>5, <2>2 DEF ResultIsPast
<1>6. CASE Cached
  <2>1. i \in Lists /\ call = "walk" /\ file[i] \in Nat /\ LoadTracks(file[i], 0) /\ call' = call
    BY <1>6, LoadingType DEF Cached, InCache, DataTypes
  <2>2. QED
    BY <1>5, <2>1, LoadTracksFacts
<1>7. CASE Fetched
  <2>1. i \in Lists /\ call = "walk" /\ call' = call
    BY <1>7, LoadingType DEF Fetched
  <2>2. PICK whole \in BOOLEAN, w \in Writes :
          LoadTracks(IF whole THEN changed[i] ELSE Cut, One(~whole) + One(w # "ok") + One(InCache))
    BY <1>7 DEF Fetched
  <2>3. (IF whole THEN changed[i] ELSE Cut) \in Nat
    BY <2>1 DEF DataTypes, Cut
  <2>4. QED
    BY <1>5, <2>1, <2>2, <2>3, LoadTracksFacts
<1>8. CASE FetchedAsLists
  <2>1. i \in Lists /\ call = "walk"
    BY <1>8, LoadingType DEF FetchedAsLists
  <2>2. PICK whole \in BOOLEAN, w \in Writes :
          \/ /\ LoadTracks(Cut, One(~whole) + One(w # "ok") + One(InCache))
             /\ call' = call
          \/ call' = "hung"
    BY <1>8 DEF FetchedAsLists
  <2>3. CASE call' = "hung"
    BY <2>3 DEF ResultIsPast
  <2>4. CASE call' = call /\ LoadTracks(Cut, One(~whole) + One(w # "ok") + One(InCache))
    BY <1>5, <2>1, <2>4, LoadTracksFacts DEF Cut
  <2>5. QED
    BY <2>2, <2>3, <2>4
<1>9. CASE Unanswered
  <2>1. i \in Lists /\ call = "walk" /\ call' = call
    BY <1>9, LoadingType DEF Unanswered
  <2>2. i' = i + 1 /\ \A k \in DOMAIN result' : k \in DOMAIN result /\ result'[k] = result[k]
    BY <1>9 DEF Unanswered, NotLoaded
  <2>3. QED
    BY <1>5, <2>1, <2>2
<1>10. QED
  BY <1>1, <1>2, <1>3, <1>4, <1>6, <1>7, <1>8, <1>9 DEF Next

LEMMA FreshStep ==
  ASSUME IInv, [Next]_vars
  PROVE  Fresh'
<1> USE DEF IInv
<1> TypeOK /\ DataTypes /\ FlagTypes
  BY DEF TypeOK
<1>a. \A k \in DOMAIN result : result[k].list \in Lists
  BY ResultLists
<1>b. call = "walk" => \A k \in DOMAIN result : result[k].list # i
  BY <1>a DEF ResultIsPast, DataTypes, Lists
<1>c. \A k \in DOMAIN result : result[k].rev < asOf[result[k].list] => spoilt[result[k].list]
  BY DEF Fresh
<1>1. CASE GetStored \/ Restart \/ GetPlaylist
  <2>1. result' = <<>>
    BY <1>1 DEF GetStored, Restart, GetPlaylist
  <2>2. DOMAIN result' = {}
    BY <2>1
  <2>3. QED
    BY <2>2 DEF Fresh
<1>2. CASE MetaAnswered \/ MetaCut
  <2>1. result' = <<>>
    BY <1>2 DEF MetaAnswered, MetaCut, StartWalk, answer, ResultIsPast
  <2>2. DOMAIN result' = {}
    BY <2>1
  <2>3. QED
    BY <2>2 DEF Fresh
<1>3. CASE MetaLost \/ Return \/ Quit \/ Change \/ UNCHANGED vars
  <2>1. UNCHANGED answer /\ asOf' = asOf /\ spoilt' = spoilt
    BY <1>3 DEF MetaLost, Return, Quit, Change, vars
  <2>2. QED
    BY <2>1 DEF answer, Fresh
<1>4. CASE Kill
  <2>1. \A p \in Lists : spoilt[p] => spoilt'[p]
    BY <1>4 DEF Kill
  <2>2. result' = result /\ asOf' = asOf
    BY <1>4 DEF Kill, answer
  <2>3. ASSUME NEW k \in DOMAIN result PROVE result[k].rev < asOf[result[k].list] => spoilt'[result[k].list]
    BY <1>a, <1>c, <2>1
  <2>4. QED
    BY <2>2, <2>3 DEF Fresh
<1>5. ASSUME i \in Lists, call = "walk", NEW v \in Nat,
             \A k \in DOMAIN result' : \/ k \in DOMAIN result /\ result'[k] = result[k]
                                      \/ result'[k] = [list |-> i, rev |-> v],
             \A p \in Lists : p # i => asOf'[p] = asOf[p] /\ spoilt'[p] = spoilt[p],
             v < asOf'[i] => spoilt'[i]
      PROVE  Fresh'
  <2>1. ASSUME NEW k \in DOMAIN result' PROVE result'[k].rev < asOf'[result'[k].list] => spoilt'[result'[k].list]
    <3>1. CASE k \in DOMAIN result /\ result'[k] = result[k]
      <4>1. result[k].list \in Lists /\ result[k].list # i
        BY <1>a, <1>b, <1>5, <3>1
      <4>2. asOf'[result[k].list] = asOf[result[k].list] /\ spoilt'[result[k].list] = spoilt[result[k].list]
        BY <1>5, <4>1
      <4>3. QED
        BY <1>c, <3>1, <4>2
    <3>2. CASE result'[k] = [list |-> i, rev |-> v]
      BY <1>5, <3>2
    <3>3. QED
      BY <1>5, <2>1, <3>1, <3>2
  <2>2. QED
    BY <2>1 DEF Fresh
<1>6. CASE Cached
  <2>1. /\ i \in Lists /\ call = "walk" /\ i <= n
        /\ file[i] \in Nat /\ file[i] # NoFile /\ useCache /\ LoadTracks(file[i], 0)
    BY <1>6, LoadingType DEF Cached, InCache, DataTypes
  <2>2. asOf' = asOf /\ spoilt' = spoilt
    BY <1>6 DEF Cached
  <2>3. file[i] < asOf[i] => spoilt[i]
    BY <2>1 DEF CacheIsExpected, DataTypes, Lists
  <2>4. \A k \in DOMAIN result' : \/ k \in DOMAIN result /\ result'[k] = result[k]
                                 \/ result'[k] = [list |-> i, rev |-> file[i]]
    BY <2>1, LoadTracksFacts
  <2>5. QED
    BY <1>5, <2>1, <2>2, <2>3, <2>4
<1>7. CASE Fetched
  <2>1. i \in Lists /\ call = "walk"
    BY <1>7, LoadingType DEF Fetched
  <2>2. PICK whole \in BOOLEAN, w \in Writes :
          /\ Stored(whole, w)
          /\ asOf' = IF whole THEN asOf ELSE [asOf EXCEPT ![i] = 0]
          /\ LoadTracks(IF whole THEN changed[i] ELSE Cut, One(~whole) + One(w # "ok") + One(InCache))
    BY <1>7 DEF Fetched
  <2> DEFINE v == IF whole THEN changed[i] ELSE Cut
  <2>3. v \in Nat
    BY <2>1 DEF DataTypes, Cut
  <2>4. file[i] <= changed[i]
    BY <2>1 DEF ServerIsNewest
  <2>5. \A p \in Lists : p # i => asOf'[p] = asOf[p] /\ spoilt'[p] = spoilt[p]
    BY <2>1, <2>2, <2>4, StoredFacts DEF DataTypes
  <2>6. ~(v < asOf'[i])
    BY <2>1, <2>2 DEF ServerIsNewest, DataTypes, Cut
  <2>7. \A k \in DOMAIN result' : \/ k \in DOMAIN result /\ result'[k] = result[k]
                                 \/ result'[k] = [list |-> i, rev |-> v]
    BY <2>1, <2>2, <2>3, LoadTracksFacts
  <2> HIDE DEF v
  <2>8. QED
    BY <1>5, <2>1, <2>3, <2>5, <2>6, <2>7
<1>8. CASE FetchedAsLists
  <2>1. i \in Lists /\ call = "walk"
    BY <1>8, LoadingType DEF FetchedAsLists
  <2>2. PICK whole \in BOOLEAN, w \in Writes :
          /\ Stored(whole, w)
          /\ \/ LoadTracks(Cut, One(~whole) + One(w # "ok") + One(InCache))
             \/ UNCHANGED <<i, answer, up>>
    BY <1>8 DEF FetchedAsLists
  <2>3. asOf' = [asOf EXCEPT ![i] = 0]
    BY <1>8 DEF FetchedAsLists
  <2>4. file[i] <= changed[i]
    BY <2>1 DEF ServerIsNewest
  <2>5. \A p \in Lists : p # i => asOf'[p] = asOf[p] /\ spoilt'[p] = spoilt[p]
    BY <2>1, <2>2, <2>3, <2>4, StoredFacts DEF DataTypes
  <2>6. Cut \in Nat /\ ~(Cut < asOf'[i])
    BY <2>1, <2>3 DEF DataTypes, Cut
  <2>7. \A k \in DOMAIN result' : \/ k \in DOMAIN result /\ result'[k] = result[k]
                                 \/ result'[k] = [list |-> i, rev |-> Cut]
    BY <2>1, <2>2, <2>6, LoadTracksFacts DEF answer
  <2>8. QED
    BY <1>5, <2>1, <2>5, <2>6, <2>7
<1>9. CASE Unanswered
  <2>1. i \in Lists /\ call = "walk"
    BY <1>9, LoadingType DEF Unanswered
  <2>2. \A k \in DOMAIN result' : k \in DOMAIN result /\ result'[k] = result[k]
    BY <1>9 DEF Unanswered, NotLoaded
  <2>3. asOf' = asOf /\ \A p \in Lists : p # i => spoilt'[p] = spoilt[p]
    BY <1>9 DEF Unanswered, FlagTypes
  <2>4. ASSUME NEW k \in DOMAIN result'
        PROVE  result'[k].rev < asOf'[result'[k].list] => spoilt'[result'[k].list]
    <3>1. k \in DOMAIN result /\ result'[k] = result[k]
      BY <2>2, <2>4
    <3>2. result[k].list \in Lists /\ result[k].list # i
      BY <1>a, <1>b, <2>1, <3>1
    <3>3. spoilt'[result[k].list] = spoilt[result[k].list]
      BY <2>3, <3>2
    <3>4. QED
      BY <1>c, <2>3, <3>1, <3>3
  <2>5. QED
    BY <2>4 DEF Fresh
<1>10. QED
  BY <1>1, <1>2, <1>3, <1>4, <1>6, <1>7, <1>8, <1>9 DEF Next

LEMMA ModeStep ==
  ASSUME IInv, [Next]_vars
  PROVE  ModeKept'
<1> USE DEF IInv, ModeKept
<1> TypeOK /\ DataTypes /\ FlagTypes
  BY DEF TypeOK
<1>a. misread \in Nat /\ lost \in Nat
  BY DEF DataTypes
<1>1. CASE GetStored \/ Kill \/ Quit
  BY <1>1 DEF GetStored, Kill, Quit, counts
<1>2. CASE MetaAnswered \/ MetaCut
  BY <1>2 DEF MetaAnswered, MetaCut, StartWalk, Parsed, counts
<1>3. CASE MetaLost
  <2>1. CASE up
    BY <1>3, <1>a, <2>1 DEF MetaLost, One
  <2>2. CASE ~up
    <3>1. up' \in {up, FALSE} /\ misread' = misread /\ lost' = lost + One(up)
      BY <1>3 DEF MetaLost
    <3>2. lost' = lost
      BY <1>a, <2>2, <3>1 DEF One
    <3>3. ~up'
      BY <2>2, <3>1
    <3>4. QED
      BY <3>1, <3>2, <3>3
  <2>3. QED
    BY <2>1, <2>2
<1>4. CASE Restart
  BY <1>4 DEF Restart
<1>5. CASE FetchedAsLists
  <2>1. misread + 1 <= lost
    BY <1>5, <1>a DEF FetchedAsLists, Loading
  <2>2. QED
    BY <1>5, <1>a, <2>1 DEF FetchedAsLists, Parsed
<1>6. CASE Return \/ GetPlaylist \/ Cached \/ Fetched \/ Unanswered \/ Change \/ UNCHANGED vars
  <2>1. counts' = counts /\ listOfLists' = listOfLists
    BY <1>6 DEF Return, GetPlaylist, Cached, Fetched, Unanswered, Change, vars, client
  <2>2. up' \in {up, FALSE}
    BY <1>6 DEF Return, GetPlaylist, Cached, Fetched, Unanswered, Change, vars, LoadTracks
  <2>3. call' = call \/ (call \in {"idle", "walk"} /\ call' \in {"idle", "walk"})
    BY <1>6 DEF Return, GetPlaylist, Cached, Fetched, Unanswered, Change, vars
  <2>4. misread' = misread /\ lost' = lost
    BY <2>1 DEF counts
  <2>5. up' => up
    BY <2>2
  <2>6. call' \notin {"meta", "dead"} => call \notin {"meta", "dead"}
    BY <2>3
  <2>7. QED
    BY <2>1, <2>4, <2>5, <2>6
<1>7. QED
  BY <1>1, <1>2, <1>3, <1>4, <1>5, <1>6 DEF Next

LEMMA Inductive == Spec => []IInv
<1>1. Init => IInv
  BY InitInv
<1>2. IInv /\ [Next]_vars => IInv'
  BY TypeStep, ServerStep, RefreshStep, CacheStep, ExpectedStep, PastStep, FreshStep, ModeStep DEF IInv
<1>3. QED
  BY <1>1, <1>2, PTL DEF Spec

\* The files on disk agree with the revision on disk, over failures, changes by others
\* and restarts, but for the lists a failure has passed by.
THEOREM StoredCacheMatchesRevision == Spec => []CacheMatchesRevision
<1>1. IInv => CacheMatchesRevision
  BY DEF IInv
<1>2. QED
  BY <1>1, Inductive, PTL

\* No playlist is returned that is older than the meta playlist of the call, unless a
\* failure has passed it by.
THEOREM StoredFresh == Spec => []Fresh
<1>1. IInv => Fresh
  BY DEF IInv
<1>2. QED
  BY <1>1, Inductive, PTL

\* A meta request that was not answered costs at most one playlist.
THEOREM StoredModeKept == Spec => []ModeKept
<1>1. IInv => ModeKept
  BY DEF IInv
<1>2. QED
  BY <1>1, Inductive, PTL

-----------------------------------------------------------------------------
(* LoadTracks: the inductive invariant. *)

\* num_tracks is what the playlist claims until the function returns.
ClaimKept == pc # "done" => num_tracks = claimed

LoadIInv == LoadTypeOK /\ OwnData /\ CountIsFilled /\ ClaimKept /\ NothingMissed

\* The positions are an initial segment.
LEMMA PositionsOfList ==
  ASSUME LoadTypeOK
  PROVE  Positions = 1..Len(list) /\ Len(list) \in Nat
BY DEF LoadTypeOK, Positions

\* They are finite, and so is every set of them.
LEMMA PositionsFinite ==
  ASSUME LoadTypeOK
  PROVE  /\ IsFiniteSet(Positions) /\ Cardinality(Positions) = Len(list)
         /\ \A S \in SUBSET Positions : IsFiniteSet(S)
<1>1. Positions = 1..Len(list) /\ Len(list) \in Nat
  BY PositionsOfList
<1>2. IsFiniteSet(Positions) /\ Cardinality(Positions) = Len(list)
  <2>1. ASSUME NEW m \in Nat
        PROVE  IsFiniteSet(1..m) /\ Cardinality(1..m) = m
    <3>1. IsFiniteSet(1..m) /\ Cardinality(1..m) = IF 1 > m THEN 0 ELSE m - 1 + 1
      BY FS_Interval
    <3>2. (IF 1 > m THEN 0 ELSE m - 1 + 1) = m
      OBVIOUS
    <3> QED
      BY <3>1, <3>2
  <2> QED
    BY <1>1, <2>1, Zenon
<1> QED
  BY <1>2, FS_Subset

LEMMA LoadInitInv == LoadInit => LoadIInv
<1> SUFFICES ASSUME LoadInit PROVE LoadIInv
  OBVIOUS
<1>1. list \in Seq(Ids) /\ list \in [Positions -> Ids]
  BY LoadAssumption DEF LoadInit, ParsedPlaylist, Positions
<1>2. <<>> \in Seq(Ids) /\ Len(list) \in Nat
  BY <1>1
<1>3. LoadTypeOK
  BY <1>1, <1>2, LoadAssumption DEF LoadInit, ParsedPlaylist, LoadTypeOK, Positions
<1>4. OwnData /\ ClaimKept /\ NothingMissed
  BY DEF LoadInit, ParsedPlaylist, OwnData, ClaimKept, NothingMissed
<1>5. Filled = {}
  BY DEF LoadInit, ParsedPlaylist, Filled
<1>6. CountIsFilled
  BY <1>5, FS_EmptySet DEF LoadInit, ParsedPlaylist, CountIsFilled
<1> QED
  BY <1>3, <1>4, <1>6 DEF LoadIInv

\* A step that changes neither the tracks nor the counts keeps what is known of them.
LEMMA TracksUnchanged ==
  ASSUME LoadIInv, UNCHANGED <<playlist, tracks, track_count, num_tracks>>, pc' # "done" \/ pc = "done",
         pc = "done" => pc' = "done"
  PROVE  OwnData' /\ CountIsFilled' /\ ClaimKept' /\ NothingMissed'
<1>1. OwnData'
  BY DEF LoadIInv, OwnData, playlist, tracks, Positions
<1>2. Filled' = Filled
  BY DEF Filled, playlist, tracks, Positions
<1>3. CountIsFilled'
  BY <1>2 DEF LoadIInv, CountIsFilled
<1>4. ClaimKept'
  BY DEF LoadIInv, ClaimKept, playlist
<1>5. NothingMissed'
  BY DEF LoadIInv, NothingMissed, playlist, tracks, Positions
<1> QED
  BY <1>1, <1>3, <1>4, <1>5

LEMMA StartBatchInv == ASSUME LoadIInv, StartBatch PROVE LoadIInv'
<1>1. LoadTypeOK
  BY DEF LoadIInv
<1>2. Len(list) \in Nat
  BY <1>1, PositionsOfList
<1>3. Taken(t) \in 0..Batch /\ t + Taken(t) \in 1..(Len(list) + 1)
  BY <1>1, <1>2, LoadAssumption DEF Taken, LoadTypeOK
<1>4. LoadTypeOK'
  BY <1>1, <1>3 DEF LoadTypeOK, StartBatch, playlist, tracks, Positions
<1> QED
  BY <1>4, TracksUnchanged DEF StartBatch, LoadIInv

LEMMA AnsweredInv == ASSUME LoadIInv, Answered PROVE LoadIInv'
<1>1. LoadTypeOK
  BY DEF LoadIInv
<1>2. elements' \in Seq(Ids)
  <2>1. PICK m \in 0..MaxAnswer : elements' \in [1..m -> {Current[a] : a \in Ids}]
    BY DEF Answered
  <2>2. {Current[a] : a \in Ids} \subseteq Ids
    BY LoadAssumption
  <2>3. m \in Nat /\ elements' \in [1..m -> Ids]
    BY <2>1, <2>2, LoadAssumption
  <2> QED
    BY <2>3, SeqDef
<1>3. LoadTypeOK'
  BY <1>1, <1>2 DEF LoadTypeOK, Answered, playlist, tracks, loop, Positions
<1> QED
  BY <1>3, TracksUnchanged DEF Answered, LoadIInv

LEMMA NoAnswerInv == ASSUME LoadIInv, NoAnswer PROVE LoadIInv'
<1>1. LoadTypeOK'
  BY DEF LoadIInv, LoadTypeOK, NoAnswer, playlist, tracks, loop, Positions
<1> QED
  BY <1>1, TracksUnchanged DEF NoAnswer, LoadIInv

LEMMA SkipTrackInv == ASSUME LoadIInv, SkipTrack PROVE LoadIInv'
<1>1. elements' \in Seq(Ids)
  BY DEF LoadIInv, LoadTypeOK, SkipTrack
<1>2. LoadTypeOK'
  BY <1>1 DEF LoadIInv, LoadTypeOK, SkipTrack, playlist, tracks, loop, Positions
<1> QED
  BY <1>2, TracksUnchanged DEF SkipTrack, LoadIInv

LEMMA EndBatchInv == ASSUME LoadIInv, EndBatch PROVE LoadIInv'
<1>1. totcount' \in Nat
  BY LoadAssumption DEF LoadIInv, LoadTypeOK, EndBatch
<1>2. LoadTypeOK'
  BY <1>1 DEF LoadIInv, LoadTypeOK, EndBatch, playlist, tracks, Positions
<1> QED
  BY <1>2, TracksUnchanged DEF EndBatch, LoadIInv

\* The track an element is for has no meta data yet, and the server's id of it is the
\* element's.
LEMMA FoundIsWanted ==
  ASSUME LoadIInv, NEW k \in Positions, NEW id \in Ids, IsFor(k, id)
  PROVE  meta[k] = NoId /\ Current[list[k]] = id
<1>1. PICK asked \in Ids : Current[asked] = id /\ k \in Wanted(asked)
  BY DEF IsFor
<1>2. meta[k] = NoId /\ tid[k] = asked
  BY <1>1 DEF Wanted
<1> QED
  BY <1>1, <1>2 DEF LoadIInv, OwnData

LEMMA ParseTrackInv == ASSUME LoadIInv, ParseTrack PROVE LoadIInv'
<1> DEFINE id == Head(elements)
<1>1. LoadTypeOK /\ OwnData /\ CountIsFilled /\ ClaimKept
  BY DEF LoadIInv
<1>2. id \in Ids /\ elements' \in Seq(Ids)
  BY <1>1 DEF LoadTypeOK, ParseTrack
<1>3. PICK k \in Positions : /\ IsFor(k, id)
                             /\ tid' = [tid EXCEPT ![k] = id]
                             /\ meta' = [meta EXCEPT ![k] = id]
  BY DEF ParseTrack
<1>4. meta[k] = NoId /\ Current[list[k]] = id
  BY <1>2, <1>3, FoundIsWanted
<1>5. list' = list /\ claimed' = claimed /\ Positions' = Positions
  BY DEF ParseTrack, playlist, Positions
<1>6. LoadTypeOK'
  <2>1. tid' \in [Positions -> Ids] /\ meta' \in [Positions -> Ids \cup {NoId}]
    BY <1>1, <1>2, <1>3 DEF LoadTypeOK
  <2>2. track_count' \in Nat
    BY <1>1 DEF LoadTypeOK, ParseTrack
  <2> QED
    BY <1>1, <1>2, <1>5, <2>1, <2>2 DEF LoadTypeOK, ParseTrack, playlist, loop
<1>7. OwnData'
  <2> SUFFICES ASSUME NEW j \in Positions
               PROVE  IF meta'[j] = NoId THEN tid'[j] = list[j]
                      ELSE meta'[j] = Current[list[j]] /\ tid'[j] = meta'[j]
    BY <1>5 DEF OwnData
  <2>1. meta \in [Positions -> Ids \cup {NoId}] /\ tid \in [Positions -> Ids]
    BY <1>1 DEF LoadTypeOK
  <2>2. CASE j = k
    BY <1>2, <1>3, <1>4, <2>1, <2>2, LoadAssumption
  <2>3. CASE j # k
    <3>1. meta'[j] = meta[j] /\ tid'[j] = tid[j]
      BY <1>3, <2>1, <2>3
    <3> QED
      BY <1>1, <3>1 DEF OwnData
  <2> QED
    BY <2>2, <2>3
<1>8. CountIsFilled'
  <2>1. Filled' = Filled \cup {k} /\ k \notin Filled
    <3>1. meta \in [Positions -> Ids \cup {NoId}] /\ NoId \notin Ids
      BY <1>1, LoadAssumption DEF LoadTypeOK
    <3> QED
      BY <1>2, <1>3, <1>4, <1>5, <3>1 DEF Filled
  <2>2. IsFiniteSet(Filled)
    BY <1>1, PositionsFinite DEF Filled
  <2>3. Cardinality(Filled') = Cardinality(Filled) + 1
    BY <2>1, <2>2, FS_AddElement
  <2> QED
    BY <1>1, <2>3 DEF CountIsFilled, ParseTrack
<1>9. ClaimKept' /\ NothingMissed'
  BY <1>1, <1>5 DEF ClaimKept, NothingMissed, ParseTrack
<1> QED
  BY <1>6, <1>7, <1>8, <1>9 DEF LoadIInv

LEMMA FinishInv == ASSUME LoadIInv, Finish PROVE LoadIInv'
<1> DEFINE copied == IF track_count < num_tracks THEN LeftOut ELSE {}
<1> DEFINE Source(k) == CHOOSE j \in Duplicates(k) : TRUE
<1>1. LoadTypeOK /\ OwnData /\ CountIsFilled /\ ClaimKept
  BY DEF LoadIInv
<1>2. list' = list /\ claimed' = claimed /\ Positions' = Positions /\ tid' = tid
  BY DEF Finish, playlist, Positions
<1>3. /\ meta' = [k \in Positions |-> IF k \in copied THEN meta[Source(k)] ELSE meta[k]]
      /\ track_count' = track_count + Cardinality(copied)
      /\ num_tracks' = track_count' /\ pc' = "done"
  BY DEF Finish
<1>4. copied \subseteq Positions /\ \A k \in copied : meta[k] = NoId /\ Duplicates(k) # {}
  BY DEF LeftOut
<1>5. \A k \in copied : Source(k) \in Positions /\ meta[Source(k)] # NoId /\ tid[Source(k)] = tid[k]
  <2> SUFFICES ASSUME NEW k \in copied PROVE Source(k) \in Duplicates(k)
    BY DEF Duplicates
  <2> QED
    BY <1>4
<1> HIDE DEF Source
<1>6. meta \in [Positions -> Ids \cup {NoId}] /\ NoId \notin Ids
  BY <1>1, LoadAssumption DEF LoadTypeOK
<1>7. \A k \in Positions : k \in copied => meta'[k] = Current[list[k]] /\ tid[k] = meta'[k] /\ meta'[k] # NoId
  <2> SUFFICES ASSUME NEW k \in Positions, k \in copied
               PROVE  meta'[k] = Current[list[k]] /\ tid[k] = meta'[k] /\ meta'[k] # NoId
    OBVIOUS
  <2> DEFINE j == Source(k)
  <2>1. j \in Positions /\ meta[j] # NoId /\ tid[j] = tid[k]
    BY <1>5
  <2>2. meta[j] = Current[list[j]] /\ tid[j] = meta[j]
    BY <1>1, <2>1 DEF OwnData
  <2>3. tid[k] = list[k]
    BY <1>1, <1>4 DEF OwnData
  <2>4. list[j] \in Ids
    BY <1>1, <2>1 DEF LoadTypeOK, Positions
  <2>5. Current[list[k]] = list[k]
    BY <2>1, <2>2, <2>3, <2>4, LoadAssumption
  <2> QED
    BY <1>3, <2>1, <2>2, <2>3, <2>5
<1>8. \A k \in Positions : k \notin copied => meta'[k] = meta[k]
  BY <1>3
<1> HIDE DEF copied
<1>9. OwnData'
  <2> SUFFICES ASSUME NEW k \in Positions
               PROVE  IF meta'[k] = NoId THEN tid[k] = list[k]
                      ELSE meta'[k] = Current[list[k]] /\ tid[k] = meta'[k]
    BY <1>2 DEF OwnData
  <2> QED
    BY <1>1, <1>7, <1>8 DEF OwnData
<1>10. CountIsFilled' /\ track_count' \in Nat
  <2>1. Filled' = Filled \cup copied /\ Filled \cap copied = {}
    BY <1>2, <1>4, <1>6, <1>7, <1>8 DEF Filled
  <2>2. IsFiniteSet(Filled) /\ IsFiniteSet(copied)
    BY <1>1, <1>4, PositionsFinite DEF Filled
  <2>3. Cardinality(Filled \cap copied) = 0
    BY <2>1, FS_EmptySet
  <2>4. Cardinality(Filled) \in Nat /\ Cardinality(copied) \in Nat
    BY <2>2, FS_CardinalityType
  <2>5. Cardinality(Filled') = Cardinality(Filled) + Cardinality(copied)
    <3>1. Cardinality(Filled \cup copied) = Cardinality(Filled) + Cardinality(copied) - Cardinality(Filled \cap copied)
      BY <2>2, FS_Union
    <3> QED
      BY <2>1, <2>3, <2>4, <3>1
  <2> QED
    BY <1>1, <1>3, <2>4, <2>5 DEF CountIsFilled
<1>11. LoadTypeOK'
  <2>1. \A k \in Positions : meta'[k] \in Ids \cup {NoId}
    <3> SUFFICES ASSUME NEW k \in Positions PROVE meta'[k] \in Ids \cup {NoId}
      OBVIOUS
    <3>1. tid[k] \in Ids
      BY <1>1 DEF LoadTypeOK
    <3> QED
      BY <1>6, <1>7, <1>8, <3>1
  <2>2. meta' \in [Positions -> Ids \cup {NoId}]
    BY <1>3, <2>1
  <2> QED
    BY <1>1, <1>2, <1>3, <1>10, <2>2 DEF LoadTypeOK, Finish, playlist, loop
<1>12. NothingMissed'
  <2> SUFFICES ASSUME claimed >= Len(list), NEW k \in Positions, NEW j \in Positions,
                      meta'[k] = NoId, meta'[j] # NoId, Current[list[j]] = Current[list[k]],
                      Current[list[k]] = list[k]
               PROVE  FALSE
    BY <1>2 DEF NothingMissed
  <2>1. k \notin copied /\ meta[k] = NoId /\ tid[k] = list[k]
    BY <1>1, <1>7, <1>8 DEF OwnData
  <2>2. PICK d \in Positions : meta[d] # NoId /\ tid[d] = tid[j]
    <3>1. CASE j \in copied
      BY <1>5, <3>1
    <3>2. CASE j \notin copied
      BY <1>8, <3>2
    <3> QED
      BY <3>1, <3>2
  <2>3. tid[j] = Current[list[j]]
    BY <1>2, <1>9 DEF OwnData
  <2>4. k \in LeftOut
    BY <2>1, <2>2, <2>3 DEF LeftOut, Duplicates
  <2>5. track_count >= num_tracks
    <3>1. track_count \in Nat /\ num_tracks \in Nat
      BY <1>1 DEF LoadTypeOK
    <3> QED
      BY <2>1, <2>4, <3>1 DEF copied
  <2>6. Cardinality(Filled) < Cardinality(Positions)
    <3>1. Filled \subseteq Positions /\ Filled # Positions
      BY <2>1 DEF Filled
    <3>2. IsFiniteSet(Positions)
      BY <1>1, PositionsFinite
    <3>3. /\ Cardinality(Filled) <= Cardinality(Positions)
          /\ Cardinality(Positions) = Cardinality(Filled) => Positions = Filled
      BY <3>1, <3>2, FS_Subset
    <3>4. Cardinality(Filled) \in Nat /\ Cardinality(Positions) \in Nat
      BY <3>1, <3>2, FS_Subset, FS_CardinalityType
    <3> QED
      BY <3>1, <3>3, <3>4
  <2>7. num_tracks = claimed /\ track_count = Cardinality(Filled) /\ Cardinality(Positions) = Len(list)
    BY <1>1, PositionsFinite DEF ClaimKept, CountIsFilled, Finish
  <2>8. Len(list) \in Nat /\ track_count \in Nat /\ claimed \in Nat
    BY <1>1, PositionsOfList DEF LoadTypeOK
  <2> QED
    BY <2>5, <2>6, <2>7, <2>8
<1>13. ClaimKept'
  BY <1>3 DEF ClaimKept
<1> QED
  BY <1>9, <1>10, <1>11, <1>12, <1>13 DEF LoadIInv

LEMMA NextInv == LoadIInv /\ [LoadNext]_loadVars => LoadIInv'
<1> SUFFICES ASSUME LoadIInv, [LoadNext]_loadVars PROVE LoadIInv'
  OBVIOUS
<1>1. CASE StartBatch
  BY <1>1, StartBatchInv
<1>2. CASE Answered
  BY <1>2, AnsweredInv
<1>3. CASE NoAnswer
  BY <1>3, NoAnswerInv
<1>4. CASE ParseTrack
  BY <1>4, ParseTrackInv
<1>5. CASE SkipTrack
  BY <1>5, SkipTrackInv
<1>6. CASE EndBatch
  BY <1>6, EndBatchInv
<1>7. CASE Finish
  BY <1>7, FinishInv
<1>8. CASE UNCHANGED loadVars
  <2>1. LoadTypeOK'
    BY <1>8 DEF LoadIInv, LoadTypeOK, loadVars, playlist, tracks, loop, Positions
  <2> QED
    BY <1>8, <2>1, TracksUnchanged DEF loadVars, LoadIInv
<1> QED
  BY <1>1, <1>2, <1>3, <1>4, <1>5, <1>6, <1>7, <1>8 DEF LoadNext, Returned

\* The invariant of despotify_load_tracks.
LEMMA Invariance == LoadSpec => []LoadIInv
BY LoadInitInv, NextInv, PTL DEF LoadSpec

\* The variables of despotify_load_tracks keep their types: no batch goes past the end
\* of the list.
THEOREM LoadTypeCorrect == LoadSpec => []LoadTypeOK
<1>1. LoadIInv => LoadTypeOK
  BY DEF LoadIInv
<1> QED
  BY <1>1, Invariance, PTL

\* Every track gets its own meta data, whatever the server answers.
THEOREM LoadOwnData == LoadSpec => []OwnData
<1>1. LoadIInv => OwnData
  BY DEF LoadIInv
<1> QED
  BY <1>1, Invariance, PTL

\* The count of tracks is the number of tracks that have meta data.
THEOREM LoadCountIsFilled == LoadSpec => []CountIsFilled
<1>1. LoadIInv => CountIsFilled
  BY DEF LoadIInv
<1> QED
  BY <1>1, Invariance, PTL

\* No track is left out whose id was answered, but for redirected ids.
THEOREM LoadNothingMissed == LoadSpec => []NothingMissed
<1>1. LoadIInv => NothingMissed
  BY DEF LoadIInv
<1> QED
  BY <1>1, Invariance, PTL

=============================================================================
