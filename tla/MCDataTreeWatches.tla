------------------------- MODULE MCDataTreeWatches -------------------------
(* A small instance of DataTreeWatches for TLC.                            *)
EXTENDS DataTreeWatches

CONSTANTS a, b, d0, d1, w1, w2

PathA == << <<a>> >>          \* "/a"
PathAB == << <<a>>, <<b>> >>  \* "/a/b"

Reads == {PathA, PathAB, Root}
Creates ==
  {[path |-> PathA, node_type |-> "NT_PERSISTENT", data |-> d0],
   [path |-> PathAB, node_type |-> "NT_EPHEMERAL", data |-> d0]}
Deletes == {[path |-> PathA, version |-> -1], [path |-> PathAB, version |-> 0]}
Sets == {[path |-> PathA, data |-> d1, version |-> 0]}
=============================================================================
