--------------------------- MODULE MCSaberServer ---------------------------
(***************************************************************************)
(* SaberServer for TLC: the bounds are in the .cfg files.                  *)
(***************************************************************************)
EXTENDS SaberServer

=============================================================================
