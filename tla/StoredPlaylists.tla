-------------------------- MODULE StoredPlaylists --------------------------
(***************************************************************************)
(* The user's stored playlists (despotify.c) and the cache on disk         *)
(* (cache.c), over several calls and several runs of the program.          *)
(*                                                                         *)
(* despotify_get_stored_playlists asks for the meta playlist, compares its *)
(* revision with the one on disk, and loads every list of it from the      *)
(* cache or from the server.  A playlist is the revision in which it last  *)
(* changed; a file on disk is the revision it holds, Cut if it was not     *)
(* written to the end, or NoFile.  Cut is below every revision.            *)
(*                                                                         *)
(* One request/response call is one step here (see Request).  The server   *)
(* is external: a change of any playlist raises the meta revision, which   *)
(* is what the source's comparison of revisions relies on.                 *)
(***************************************************************************)
EXTENDS Integers, Sequences

CONSTANTS
  NumLists,   \* playlists in the meta playlist
  MaxRev,     \* bound: the revision up to which playlists change
  MaxFaults   \* bound: lost or cut answers, failed writes and kills

ASSUME StoredAssumption ==
  /\ NumLists \in Nat \ {0}
  /\ MaxRev \in Nat \ {0}
  /\ MaxFaults \in Nat

VARIABLES
  srvRev, changed,  \* the server: meta revision; the revision of each list's last change
  file, localRev,   \* the disk: the file of each list, meta_playlist_revision
  setting,          \* use_cache as despotify_init_client left it
  up,               \* the connection, which session_disconnect closes for good
  useCache,         \* ds->use_cache
  listOfLists,      \* ds->list_of_lists
  call,             \* where the application's call is, "dead" or "hung"
  store,            \* cache_do_store of the call
  i, n,             \* the list being loaded and the last one of the call
  result,           \* the list of playlists (root), as list and revision
  last,             \* prev is not NULL
  refresh,          \* this call loads every list because of a new revision
  asOf,             \* the revision of each list the caller may expect
  spoilt,           \* a refresh passed this list by, or its file was not written whole
  lost,             \* meta requests the server did not answer since the program started
  misread,          \* playlists parsed as lists of lists since then
  faults

server == <<srvRev, changed>>
disk == <<file, localRev>>
client == <<setting, useCache, listOfLists>>
walk == <<store, i, n, refresh>>
answer == <<result, last>>
counts == <<lost, misread>>
vars == <<server, disk, client, up, call, walk, answer, asOf, spoilt, counts, faults>>

Lists == 1..NumLists
NoFile == -1
Cut == 0

Init ==
  /\ srvRev = 1 /\ changed = [p \in Lists |-> 1]
  /\ file = [p \in Lists |-> NoFile] /\ localRev = 0
  /\ setting \in BOOLEAN /\ useCache = setting
  /\ up = TRUE /\ listOfLists = FALSE
  /\ call = "idle" /\ store = FALSE /\ i = 1 /\ n = 0 /\ refresh = FALSE
  /\ result = <<>> /\ last = FALSE
  /\ asOf = [p \in Lists |-> 0] /\ spoilt = [p \in Lists |-> FALSE]
  /\ lost = 0 /\ misread = 0 /\ faults = 0

One(b) == IF b THEN 1 ELSE 0

\* This many things went wrong in the step.
Charge(k) == faults' = faults + k /\ faults' <= MaxFaults

-----------------------------------------------------------------------------
(* despotify_get_stored_playlists. *)

\* Caching is off for the meta playlist, and despotify_get_playlist notes its kind.
GetStored ==
  /\ call = "idle"
  /\ call' = "meta"
  /\ useCache' = FALSE /\ listOfLists' = TRUE
  /\ result' = <<>> /\ last' = FALSE
  /\ UNCHANGED <<server, disk, setting, up, walk, asOf, spoilt, counts, faults>>

\* What fopen and fwrite leave behind: the whole file, a file cut short, the old file.
Writes == {"ok", "short", "unopened"}
Written(old, new, w) == CASE w = "ok" -> new [] w = "short" -> Cut [] w = "unopened" -> old

\* The lists of the meta playlist are loaded one by one.
StartWalk(lists) ==
  /\ call' = "walk"
  /\ store' = setting
  /\ i' = 1 /\ n' = lists
  /\ UNCHANGED <<server, file, setting, up, answer, spoilt, counts>>

\* Slip: the revision is compared with the one after the stored one.
NewerByTwo == setting /\ srvRev > localRev + 1

\* metalist->revision > cache_get_meta_playlist_revision(), with the cache in use.
Newer == setting /\ srvRev > localRev

\* After the parse of an answer.
Parsed == listOfLists' = FALSE

\* The whole meta playlist: its revision decides, and is stored before the lists are.
\* A revision file cut short reads as revision 0.
MetaAnswered ==
  /\ call = "meta" /\ up
  /\ refresh' = Newer
  /\ useCache' = (setting /\ ~Newer)
  /\ \E w \in Writes :
       /\ Newer \/ w = "ok"
       /\ localRev' = IF Newer THEN Written(localRev, srvRev, w) ELSE localRev
       /\ Charge(One(w # "ok"))
  /\ Parsed
  /\ asOf' = changed
  /\ StartWalk(NumLists)

\* A meta playlist cut short by an error: some of the lists, and no <version>, which
\* leaves the revision 0.
MetaCut ==
  /\ call = "meta" /\ up
  /\ refresh' = FALSE
  /\ useCache' = setting
  /\ Parsed
  /\ asOf' = [p \in Lists |-> 0]
  /\ \E lists \in 0..NumLists : StartWalk(lists)
  /\ Charge(1)
  /\ UNCHANGED localRev

\* No answer in time, or a request that cannot be sent, which disconnects.  With the
\* cache in use metalist->revision is then read through NULL; without, nothing is
\* returned.  list_of_lists stays set.
MetaLost ==
  /\ call = "meta"
  /\ up' \in {up, FALSE}
  /\ lost' = lost + One(up)
  /\ call' = IF setting THEN "dead" ELSE "idle"
  /\ Charge(One(up))
  /\ UNCHANGED <<server, disk, client, walk, answer, asOf, spoilt, misread>>

\* All lists are loaded: the cache setting is restored.
Return ==
  /\ call = "walk" /\ i > n
  /\ call' = "idle"
  /\ useCache' = setting /\ refresh' = FALSE
  /\ UNCHANGED <<server, disk, setting, listOfLists, up, store, i, n, answer, asOf, spoilt, counts, faults>>

-----------------------------------------------------------------------------
(* despotify_get_playlist for list i: from the application, from a link     *)
(* (with caching off), or for each list of the meta playlist.               *)

\* A cache that is not in use has no directory to store to.
GetPlaylist ==
  /\ call = "idle"
  /\ call' = "walk"
  /\ \E p \in Lists, link \in BOOLEAN, stored \in {FALSE, setting} :
       /\ i' = p /\ n' = p
       /\ useCache' = (useCache /\ ~link)
       /\ store' = IF link THEN useCache ELSE stored
       /\ asOf' = [q \in Lists |-> IF link /\ q = p THEN changed[p] ELSE 0]
  /\ result' = <<>> /\ last' = FALSE
  /\ UNCHANGED <<server, disk, setting, listOfLists, up, refresh, spoilt, counts, faults>>

Loading == call = "walk" /\ i <= n

\* A file of the list is there, and may be used.
InCache == useCache /\ file[i] # NoFile

\* A playlist is appended to the list.
Loaded(v) ==
  /\ i' = i + 1
  /\ result' = Append(IF last THEN result ELSE <<>>, [list |-> i, rev |-> v])
  /\ last' = TRUE

\* NULL is appended to the list: the next playlist becomes the first.
NotLoaded ==
  /\ i' = i + 1
  /\ result' = IF last THEN result ELSE <<>>
  /\ last' = FALSE

\* despotify_load_tracks succeeds, times out or cannot send and disconnects; k is what
\* went wrong before.
LoadTracks(v, k) ==
  \/ /\ Loaded(v) /\ up' = up /\ Charge(k)
  \/ /\ NotLoaded /\ up' \in {up, FALSE} /\ Charge(k + One(up))

Cached ==
  /\ Loading /\ InCache
  /\ LoadTracks(file[i], 0)
  /\ UNCHANGED <<server, disk, client, call, store, n, refresh, asOf, spoilt, counts>>

\* Slip: a file that is there is not written again.
StoredOnce(whole, w) ==
  IF store /\ file[i] = NoFile
  THEN /\ file' = [file EXCEPT ![i] = Written(@, IF whole THEN changed[i] ELSE Cut, w)]
       /\ spoilt' = [spoilt EXCEPT ![i] = IF w = "unopened" THEN @ \/ refresh ELSE ~whole \/ w = "short"]
  ELSE w = "ok" /\ UNCHANGED <<file, spoilt>>

\* The answer is stored as it came, before it is parsed.
Stored(whole, w) ==
  IF store
  THEN /\ file' = [file EXCEPT ![i] = Written(@, IF whole THEN changed[i] ELSE Cut, w)]
       /\ spoilt' = [spoilt EXCEPT ![i] = IF w = "unopened" THEN @ \/ refresh ELSE ~whole \/ w = "short"]
  ELSE w = "ok" /\ UNCHANGED <<file, spoilt>>

\* A list comes from the server, in whole or cut short by an error, if it is not in
\* the cache or its file cannot be read.
Fetched ==
  /\ Loading /\ up
  /\ ~listOfLists
  /\ \E whole \in BOOLEAN, w \in Writes :
       /\ Stored(whole, w)
       /\ asOf' = IF whole THEN asOf ELSE [asOf EXCEPT ![i] = 0]
       /\ LoadTracks(IF whole THEN changed[i] ELSE Cut, One(~whole) + One(w # "ok") + One(InCache))
  /\ UNCHANGED <<server, localRev, client, call, store, n, refresh, counts>>

\* The same with list_of_lists still set: the tracks are taken for playlists.  A list
\* that claims to have tracks keeps despotify_load_tracks busy for ever or until it
\* fails.
FetchedAsLists ==
  /\ Loading /\ up
  /\ listOfLists
  /\ \E whole \in BOOLEAN, w \in Writes :
       /\ Stored(whole, w)
       /\ \/ LoadTracks(Cut, One(~whole) + One(w # "ok") + One(InCache)) /\ call' = call
          \/ /\ call' = "hung"
             /\ Charge(One(~whole) + One(w # "ok") + One(InCache))
             /\ UNCHANGED <<i, answer, up>>
  /\ Parsed
  /\ asOf' = [asOf EXCEPT ![i] = 0]
  /\ misread' = misread + 1
  /\ UNCHANGED <<server, localRev, setting, useCache, store, n, refresh, lost>>

\* No answer in time, or a request that cannot be sent.
Unanswered ==
  /\ Loading
  /\ NotLoaded
  /\ up' \in {up, FALSE}
  /\ spoilt' = [spoilt EXCEPT ![i] = @ \/ refresh]
  /\ Charge(One(up) + One(InCache))
  /\ UNCHANGED <<server, disk, client, call, store, n, refresh, asOf, counts>>

-----------------------------------------------------------------------------
(* The program and the server. *)

\* The program is killed: in a refresh the lists not loaded yet are passed by, and a
\* file that is being written is left cut short.
Kill ==
  /\ call \in {"meta", "walk"}
  /\ call' = "dead"
  /\ \E writing \in BOOLEAN :
       /\ writing => Loading /\ ~InCache /\ store
       /\ file' = IF writing THEN [file EXCEPT ![i] = Cut] ELSE file
       /\ spoilt' = [p \in Lists |-> \/ spoilt[p]
                                     \/ refresh /\ p \in i..n
                                     \/ writing /\ p = i]
  /\ refresh' = FALSE
  /\ Charge(1)
  /\ UNCHANGED <<server, localRev, client, up, store, i, n, answer, asOf, counts>>

\* It exits, or is stopped once it does not answer any more.
Quit ==
  /\ call \in {"idle", "hung"}
  /\ call' = "dead"
  /\ UNCHANGED <<server, disk, client, up, walk, answer, asOf, spoilt, counts, faults>>

\* despotify_init_client, of a program that wants the cache or not, and a new login.
Restart ==
  /\ call = "dead"
  /\ call' = "idle"
  /\ setting' \in BOOLEAN
  /\ useCache' = setting'
  /\ listOfLists' = FALSE /\ up' = TRUE
  /\ result' = <<>> /\ last' = FALSE
  /\ lost' = 0 /\ misread' = 0
  /\ UNCHANGED <<server, disk, walk, asOf, spoilt, faults>>

\* A playlist is changed, by any client.
Change ==
  /\ srvRev < MaxRev
  /\ srvRev' = srvRev + 1
  /\ \E p \in Lists : changed' = [changed EXCEPT ![p] = srvRev + 1]
  /\ UNCHANGED <<disk, client, up, call, walk, answer, asOf, spoilt, counts, faults>>

Next ==
  \/ GetStored \/ MetaAnswered \/ MetaCut \/ MetaLost \/ Return
  \/ GetPlaylist \/ Cached \/ Fetched \/ FetchedAsLists \/ Unanswered
  \/ Kill \/ Quit \/ Restart
  \/ Change

Spec == Init /\ [][Next]_vars

-----------------------------------------------------------------------------
(* Properties. *)

FlagTypes ==
  /\ setting \in BOOLEAN /\ up \in BOOLEAN /\ useCache \in BOOLEAN /\ listOfLists \in BOOLEAN
  /\ store \in BOOLEAN /\ refresh \in BOOLEAN /\ last \in BOOLEAN
  /\ spoilt \in [Lists -> BOOLEAN]

DataTypes ==
  /\ srvRev \in Nat /\ changed \in [Lists -> Nat]
  /\ file \in [Lists -> Nat \cup {NoFile}] /\ localRev \in Nat
  /\ i \in Nat \ {0} /\ n \in 0..NumLists
  /\ result \in Seq([list : Lists, rev : Nat])
  /\ asOf \in [Lists -> Nat]
  /\ lost \in Nat /\ misread \in Nat /\ faults \in 0..MaxFaults

\* Types of the variables; a playlist that is returned has a revision.
TypeOK ==
  /\ FlagTypes
  /\ DataTypes
  /\ call \in {"idle", "meta", "walk", "hung", "dead"}

\* Lists a refresh has still to load.
ToDo == IF refresh THEN i..n ELSE {}

\* The files agree with the revision on disk: what changed up to that revision is what
\* the file holds, whatever the server changed between the meta playlist and the
\* lists, and over restarts; but for the lists a failure has passed by, which the
\* revision, stored first, does not tell.
CacheMatchesRevision ==
  \A p \in Lists \ ToDo :
    changed[p] <= localRev => file[p] \in {NoFile, changed[p]} \/ spoilt[p]

\* A playlist is returned as it was when the call asked for the meta playlist, or
\* newer, unless a failure has passed it by and nothing has fetched it since.
Fresh ==
  \A k \in DOMAIN result :
    result[k].rev < asOf[result[k].list] => spoilt[result[k].list]

\* list_of_lists: a playlist is parsed as a list of lists at most once for each meta
\* request that was not answered, and while answers may come the flag is up only for
\* such a request.
ModeKept ==
  /\ misread <= lost
  /\ listOfLists /\ up /\ call \notin {"meta", "dead"} => misread < lost
=============================================================================
