--------------------------- MODULE MCSearchIndex ---------------------------
(***************************************************************************)
(* A small instance of SearchIndex: a user, a keyword and an ID that may   *)
(* come twice, in blocks of up to two entries.                             *)
(***************************************************************************)
EXTENDS SearchIndex

CONSTANTS id, key, user

MCContent == {<<id, user>>, <<key>>, <<user, user>>}
=============================================================================
