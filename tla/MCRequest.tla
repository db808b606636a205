----------------------------- MODULE MCRequest -----------------------------
(* Three calls: a playlist, the tracks of it, and a search. *)
EXTENDS Request

MCKind == <<"list", "browse", "search">>
=============================================================================
