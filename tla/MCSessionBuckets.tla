-------------------------- MODULE MCSessionBuckets --------------------------
(* SessionBuckets alone for TLC, with one connection.                      *)
EXTENDS SessionBuckets
CONSTANTS c1
=============================================================================
