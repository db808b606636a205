-------------------------------- MODULE Links --------------------------------
(***************************************************************************)
(* Links of libdespotify (despotify.c): an album, artist, track, playlist  *)
(* or search is written as a "spotify:" uri, the uri is taken apart again  *)
(* and what it names is asked for.  Ids are converted between base 16 and  *)
(* base 62 by a long division in place, digit by digit; the uri goes       *)
(* through a buffer of 64 bytes.                                           *)
(*                                                                         *)
(* A uri is the record of its parts; a query is known by its length, an    *)
(* author by its length and what stands before its first colon.            *)
(***************************************************************************)
EXTENDS Integers, Sequences

CONSTANTS
  IdBase, IdLen,    \* 16 and 32
  UriBase, UriLen,  \* 62 and 22
  Room,             \* the 64 bytes of the uri
  NameLens,         \* lengths of authors and queries
  Colons            \* where an author may have its first colon

ASSUME LinksAssumption ==
  /\ IdBase \in Nat \ {0, 1} /\ UriBase \in Nat \ {0, 1}
  /\ IdLen \in Nat \ {0} /\ UriLen \in Nat \ {0}
  /\ IdBase ^ IdLen <= UriBase ^ UriLen
  /\ NameLens \subseteq Nat /\ Colons \subseteq Nat
  /\ Room \in Nat

VARIABLES
  kind, id, suffix, name,  \* the item: its id, a playlist's last two digits, the author's or query's length
  colon,                   \* the length of the author up to its first colon
  pc,
  number, len,             \* baseconvert: the digits left to divide
  i, newlen, divide,       \* ... the inner loop
  dest, padlen,            \* ... the result so far
  uri, type, asked         \* the uri; what it was found to be; what is asked for

item == <<kind, id, suffix, name, colon>>
inner == <<i, newlen, divide>>
conversion == <<number, len, inner, dest, padlen>>
link == <<uri, type, asked>>
vars == <<item, pc, conversion, link>>

-----------------------------------------------------------------------------

Ids == [1..IdLen -> 0..(IdBase - 1)]

Converting == pc \in {"id2uri", "uri2id"}
From == IF pc = "id2uri" THEN IdBase ELSE UriBase
To == IF pc = "id2uri" THEN UriBase ELSE IdBase

\* The top of baseconvert.
Begin(src, width) ==
  /\ number' = src /\ len' = Len(src)
  /\ i' = 1 /\ newlen' = 0 /\ divide' = 0
  /\ dest' = [k \in 1..width |-> 0] /\ padlen' = width

Init ==
  /\ kind \in {"album", "artist", "track", "playlist", "search"}
  /\ id \in Ids /\ suffix \in {"00", "02"} /\ name \in NameLens
  /\ kind = "search" => id = [k \in 1..IdLen |-> 0]
  /\ kind \notin {"playlist", "search"} => name = 1
  /\ kind # "playlist" => suffix = "02"
  /\ colon \in {name} \cup {c \in Colons : kind = "playlist" /\ c < name}
  /\ pc = IF kind = "search" THEN "print" ELSE "id2uri"
  /\ number = id /\ len = IdLen
  /\ i = 1 /\ newlen = 0 /\ divide = 0
  /\ dest = [k \in 1..UriLen |-> 0] /\ padlen = UriLen
  /\ uri = [name |-> 0, arg |-> <<>>] /\ type = "invalid" /\ asked = <<>>

-----------------------------------------------------------------------------
(* baseconvert. *)

\* Slip: a quotient digit of zero is left out.
DigitSkipsZero ==
  /\ Converting /\ i <= len
  /\ LET d == divide * From + number[i]
     IN  IF d >= To
         THEN /\ number' = [number EXCEPT ![newlen + 1] = d \div To]
              /\ newlen' = newlen + 1 /\ divide' = d % To
         ELSE divide' = d /\ UNCHANGED <<number, newlen>>
  /\ i' = i + 1
  /\ UNCHANGED <<item, pc, len, dest, padlen, link>>

\* One round of the inner loop: the quotient is written over the digits already divided.
Digit ==
  /\ Converting /\ i <= len
  /\ LET d == divide * From + number[i]
     IN  \/ /\ d >= To
            /\ number' = [number EXCEPT ![newlen + 1] = d \div To]
            /\ newlen' = newlen + 1 /\ divide' = d % To
         \/ /\ d < To /\ newlen > 0
            /\ number' = [number EXCEPT ![newlen + 1] = 0]
            /\ newlen' = newlen + 1 /\ divide' = d
         \/ /\ d < To /\ newlen = 0
            /\ divide' = d
            /\ UNCHANGED <<number, newlen>>
  /\ i' = i + 1
  /\ UNCHANGED <<item, pc, len, dest, padlen, link>>

\* The rest of the outer loop: the remainder is the next digit from the right.
Emit ==
  /\ Converting /\ i > len
  /\ dest' = [dest EXCEPT ![padlen] = divide]
  /\ padlen' = padlen - 1
  /\ pc' = IF newlen > 0 THEN pc ELSE IF pc = "id2uri" THEN "print" ELSE "get"
  /\ len' = newlen /\ i' = 1 /\ newlen' = 0 /\ divide' = 0
  /\ UNCHANGED <<item, number, link>>

-----------------------------------------------------------------------------
(* The uri. *)

\* What stands before the author, the query or the id.
Prefix == [album |-> 14, artist |-> 15, track |-> 14, playlist |-> 13, search |-> 15]
Playlist == 10    \* ":playlist:"

\* What snprintf leaves of a part of n bytes when before of them are written in front.
Kept(n, before) ==
  LET room == Room - 1 - before
  IN  IF room < 0 THEN 0 ELSE IF n < room THEN n ELSE room

\* despotify_album_to_uri, ..._artist_..., ..._playlist_..., ..._search_..., ..._track_to_uri.
WriteUri ==
  /\ pc = "print"
  /\ LET front == Prefix[kind] + CASE kind = "playlist" -> name + Playlist [] OTHER -> 0
     IN  uri' = [name |-> IF kind \in {"playlist", "search"} THEN Kept(name, Prefix[kind]) ELSE 0,
                 arg |-> IF kind = "search" THEN <<>> ELSE SubSeq(dest, 1, Kept(UriLen, front))]
  /\ pc' = "parse"
  /\ UNCHANGED <<item, conversion, type, asked>>

\* Where the id of a playlist is looked for: as far behind the first colon as it stands
\* behind the author.  Left is what the uri has from there on.
IdAt == Prefix[kind] + colon + Playlist
Left == LET end == Prefix[kind] + name + Playlist + UriLen
        IN  (IF end < Room THEN end ELSE Room - 1) - IdAt

\* A search has to have a query, an id all of its digits.
Valid == CASE kind = "search" -> uri.name > 0
           [] kind = "playlist" -> Left = UriLen
           [] OTHER -> Len(uri.arg) = UriLen

\* The id is looked for behind the end of the uri, and what is found there is anything; or
\* text of the author is taken for its digits.
Astray == kind = "playlist" /\ (IdAt >= Room \/ (Valid /\ colon < name))

\* despotify_link_from_uri; then the id, which a search does not have, is converted.
Parse ==
  /\ pc = "parse"
  /\ type' = IF Valid THEN kind ELSE "invalid"
  /\ \/ Astray /\ pc' = "astray" /\ UNCHANGED conversion
     \/ ~Astray /\ type' \in {"search", "invalid"} /\ pc' = "get" /\ UNCHANGED conversion
     \/ ~Astray /\ type' \notin {"search", "invalid"} /\ pc' = "uri2id" /\ Begin(uri.arg, IdLen)
  /\ UNCHANGED <<item, uri, asked>>

\* despotify_link_get_album, ..._artist, ..._search, ..._playlist, ..._track, of a valid link.
Get ==
  /\ pc = "get"
  /\ asked' = CASE type = "invalid" -> <<>>
                [] type = "search" -> <<uri.name>>
                [] type = "playlist" -> <<dest, "02">>
                [] OTHER -> <<dest>>
  /\ pc' = "done"
  /\ UNCHANGED <<item, conversion, uri, type>>

Next == Digit \/ Emit \/ WriteUri \/ Parse \/ Get

Spec == Init /\ [][Next]_vars
FairSpec == Spec /\ WF_vars(Next)

-----------------------------------------------------------------------------
(* Properties. *)

\* The uri of the item has room in its 64 bytes, and names it: a playlist's id ends in 02 and its
\* author has no colon, a query is not empty.
HasUri ==
  CASE kind = "playlist" -> suffix = "02" /\ colon = name /\ Prefix[kind] + name + Playlist + UriLen < Room
    [] kind = "search" -> name > 0 /\ Prefix[kind] + name < Room
    [] OTHER -> TRUE

ItemOf ==
  CASE kind = "search" -> <<name>>
    [] kind = "playlist" -> <<id, suffix>>
    [] OTHER -> <<id>>

\* The uri that is written for an item is taken apart and leads back to it, whatever its id: both
\* conversions end, and no digit is lost by the division in place, by leading zeros, or between the
\* two lengths (baseconvert, despotify_*_to_uri, despotify_link_*).
LinkReturns == HasUri ~> pc = "done" /\ type = kind /\ asked = ItemOf
=============================================================================
