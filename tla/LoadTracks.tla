----------------------------- MODULE LoadTracks -----------------------------
(***************************************************************************)
(* despotify_load_tracks: the tracks of a playlist are ids; their meta     *)
(* data is asked for in batches, each answer is matched with the list      *)
(* (parse_tracks of xml.c), and what is left without is taken from a       *)
(* duplicate.  One thread runs it; the cache and the server are the        *)
(* source of the answers.                                                  *)
(*                                                                         *)
(* A track is its position in the list.  The meta data of a track is known *)
(* by the id the server gives it; Current says which id the server uses by *)
(* now for every id it has ever used.                                      *)
(***************************************************************************)
EXTENDS Integers, Sequences, FiniteSets

CONSTANTS
  Ids,        \* track ids
  Current,    \* the id the server uses now for each of them
  NoId,       \* no meta data
  Playlists,  \* the lists of ids a playlist may have
  Batch,      \* MAX_BROWSE_REQ
  MaxClaim,   \* bound: what the <version> of a playlist may claim to be its length
  MaxAnswer   \* bound: the tracks in an answer

ASSUME LoadAssumption ==
  /\ Current \in [Ids -> Ids]
  /\ \A a \in Ids : Current[Current[a]] = Current[a]
  /\ NoId \notin Ids
  /\ Playlists \subseteq Seq(Ids)
  /\ Batch \in Nat \ {0}
  /\ MaxClaim \in Nat /\ MaxAnswer \in Nat

VARIABLES
  pc,          \* where the function is
  list,        \* the ids of the playlist as they were
  claimed,     \* pl->num_tracks as the parser of the playlist left it
  tid,         \* track_id of each track
  meta,        \* the meta data of each track
  t,           \* the first track not asked for; one past the list for NULL
  firsttrack,  \* the first track of the batch
  count, totcount,
  track_count,
  num_tracks,  \* pl->num_tracks
  elements       \* the <track> elements of the answer not yet looked at

playlist == <<list, claimed>>
tracks == <<tid, meta>>
loop == <<t, firsttrack, count, totcount>>
loadVars == <<pc, playlist, tracks, loop, track_count, num_tracks, elements>>

Positions == DOMAIN list

\* What xml_parse_playlist leaves: a track without meta data for every id, and the number
\* of tracks that <version> claims, which overwrites the one that was counted.
ParsedPlaylist ==
  /\ list \in Playlists
  /\ claimed \in 0..MaxClaim
  /\ tid = list
  /\ meta = [k \in Positions |-> NoId]

LoadInit ==
  /\ ParsedPlaylist
  /\ pc = "batch"
  /\ t = 1 /\ firsttrack = 1 /\ count = 0 /\ totcount = 0
  /\ track_count = 0 /\ num_tracks = claimed
  /\ elements = <<>>

-----------------------------------------------------------------------------

\* The tracks of a batch from here: as many as are allowed and left.
Taken(from) == IF Len(list) - from + 1 < Batch THEN Len(list) - from + 1 ELSE Batch

\* The head of the loop, as long as not all tracks that are claimed were asked for.
StartBatch ==
  /\ pc = "batch" /\ totcount < num_tracks
  /\ firsttrack' = t
  /\ count' = Taken(t)
  /\ t' = t + Taken(t)
  /\ pc' = "answer"
  /\ UNCHANGED <<playlist, tracks, totcount, track_count, num_tracks, elements>>

\* The answer, from the cache or the server: any tracks in any order, or none if it
\* does not inflate.
Answered ==
  /\ pc = "answer"
  /\ \E n \in 0..MaxAnswer : elements' \in [1..n -> {Current[a] : a \in Ids}]
  /\ pc' = "parse"
  /\ UNCHANGED <<playlist, tracks, loop, track_count, num_tracks>>

\* The request cannot be written, or the deadline passes: false is returned.
NoAnswer ==
  /\ pc = "answer"
  /\ pc' = "failed"
  /\ UNCHANGED <<playlist, tracks, loop, track_count, num_tracks, elements>>

\* The tracks from the batch on, to the end of the list, that have this id and no meta
\* data.
Wanted(id) == {k \in Positions : k >= firsttrack /\ meta[k] = NoId /\ tid[k] = id}

\* Slip: the answer is matched by position.
IsForNext(k, id) ==
  k \in Positions /\ k >= firsttrack /\ meta[k] = NoId
  /\ \A j \in Positions : j >= firsttrack /\ j < k => meta[j] # NoId

\* The track an element is for: the first with its id; if there is none, the first
\* with one of the ids that are redirected to it.
IsFor(k, id) ==
  \E asked \in Ids :
    /\ Current[asked] = id
    /\ asked # id => Wanted(id) = {}
    /\ k \in Wanted(asked)
    /\ \A j \in Wanted(asked) : k <= j

\* parse_tracks, one element: its track gets the meta data and the current id.
ParseTrack ==
  /\ pc = "parse" /\ elements # <<>>
  /\ \E k \in Positions :
       /\ IsFor(k, Head(elements))
       /\ tid' = [tid EXCEPT ![k] = Head(elements)]
       /\ meta' = [meta EXCEPT ![k] = Head(elements)]
  /\ track_count' = track_count + 1
  /\ elements' = Tail(elements)
  /\ UNCHANGED <<pc, playlist, loop, num_tracks>>

\* "track id not found".
SkipTrack ==
  /\ pc = "parse" /\ elements # <<>>
  /\ \A k \in Positions : ~IsFor(k, Head(elements))
  /\ elements' = Tail(elements)
  /\ UNCHANGED <<pc, playlist, tracks, loop, track_count, num_tracks>>

\* Slip: the loop counts the tracks that were answered.
EndBatchByAnswers ==
  /\ pc = "parse" /\ elements = <<>>
  /\ totcount' = track_count
  /\ pc' = "batch"
  /\ UNCHANGED <<playlist, tracks, t, firsttrack, count, track_count, num_tracks, elements>>

\* totcount += count.
EndBatch ==
  /\ pc = "parse" /\ elements = <<>>
  /\ totcount' = totcount + count
  /\ pc' = "batch"
  /\ UNCHANGED <<playlist, tracks, t, firsttrack, count, track_count, num_tracks, elements>>

\* Slip: a duplicate is looked for in front of the track only.
DuplicatesBefore(k) == {j \in Positions : j < k /\ meta[j] # NoId /\ tid[j] = tid[k]}

\* The tracks with the same id that have their meta data.
Duplicates(k) == {j \in Positions : meta[j] # NoId /\ tid[j] = tid[k]}

LeftOut == {k \in Positions : meta[k] = NoId /\ Duplicates(k) # {}}

\* After the loop, if tracks are missing, the ones left out are copied from a duplicate;
\* num_tracks is what was found.
Finish ==
  /\ pc = "batch" /\ totcount >= num_tracks
  /\ LET copied == IF track_count < num_tracks THEN LeftOut ELSE {}
     IN  /\ meta' = [k \in Positions |-> IF k \in copied THEN meta[CHOOSE j \in Duplicates(k) : TRUE] ELSE meta[k]]
         /\ track_count' = track_count + Cardinality(copied)
  /\ num_tracks' = track_count'
  /\ pc' = "done"
  /\ UNCHANGED <<playlist, tid, loop, elements>>

\* The function has returned.
Returned == pc \in {"done", "failed"} /\ UNCHANGED loadVars

LoadNext ==
  \/ StartBatch \/ Answered \/ NoAnswer \/ ParseTrack \/ SkipTrack \/ EndBatch \/ Finish
  \/ Returned

LoadSpec == LoadInit /\ [][LoadNext]_loadVars
LoadFairSpec == LoadSpec /\ WF_loadVars(LoadNext)

-----------------------------------------------------------------------------
(* Properties. *)

\* Types of the variables.
LoadTypeOK ==
  /\ pc \in {"batch", "answer", "parse", "done", "failed"}
  /\ list \in Seq(Ids) /\ tid \in [Positions -> Ids] /\ meta \in [Positions -> Ids \cup {NoId}]
  /\ claimed \in Nat /\ num_tracks \in Nat
  /\ t \in 1..(Len(list) + 1) /\ firsttrack \in 1..(Len(list) + 1)
  /\ count \in 0..Batch /\ totcount \in Nat /\ track_count \in Nat
  /\ elements \in Seq(Ids)

\* The meta data of a track is the one of the id the playlist had for it, in whatever
\* order, from whatever batch and through whatever redirection it came, and copied or
\* not; and the track goes by that id (parse_tracks, despotify_load_tracks).
OwnData ==
  \A k \in Positions : IF meta[k] = NoId THEN tid[k] = list[k]
                       ELSE meta[k] = Current[list[k]] /\ tid[k] = meta[k]

Filled == {k \in Positions : meta[k] # NoId}

\* track_count, which becomes num_tracks, is the number of tracks that have meta data:
\* parse_tracks counts no track twice, although it searches the list past the batch.
CountIsFilled ==
  /\ track_count = Cardinality(Filled)
  /\ pc = "done" => num_tracks = Cardinality(Filled)

\* When all is asked for, a track is left without meta data only if nothing was
\* answered about its id, or the id was redirected (then its duplicate goes by
\* another id by now): "tracks that still lack meta data are likely duplicates".
NothingMissed ==
  pc = "done" /\ claimed >= Len(list) =>
    \A k, j \in Positions :
      meta[k] = NoId /\ meta[j] # NoId /\ Current[list[j]] = Current[list[k]] => Current[list[k]] # list[k]

\* The function returns unless the playlist claims to be longer than it is: then the
\* loop asks for empty batches until a request fails.
LoadEnds == claimed <= Len(list) => <>(pc \in {"done", "failed"})
=============================================================================
