---------------------------- MODULE MCDictionary ----------------------------
(***************************************************************************)
(* An instance of Dictionary: three names, so that one entry can be in     *)
(* use, one waiting for its turn and one deleted, and enough items for a   *)
(* name to be deleted in a traversal and set again twice.                  *)
(***************************************************************************)
EXTENDS Dictionary

CONSTANTS a, b, c

MCKeys   == {a, b, c}
MCValues == {TRUE, FALSE}
=============================================================================
