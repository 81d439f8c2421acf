----------------------------- MODULE MCSaberDB -----------------------------
(* Small instances of SaberDB for TLC.                                     *)
EXTENDS SaberDB, TLC

CONSTANTS a, b, d0, d1, s1, s2

PathA == << <<a>> >>          \* "/a"
PathAB == << <<a>>, <<b>> >>  \* "/a/b"
PathB == << <<b>> >>          \* "/b"
PathErr == << <<a>>, << >> >> \* "/a/"

Arg(path, type) == [path |-> path, node_type |-> type, data |-> d0]

TreeCreateArgs ==
  {Arg(PathA, "NT_PERSISTENT"), Arg(PathA, "NT_PERSISTENT_SEQUENTIAL"),
   Arg(PathAB, "NT_PERSISTENT"), Arg(PathAB, "NT_EPHEMERAL"),
   Arg(PathErr, "NT_PERSISTENT")}
TreeDeleteArgs ==
  {[path |-> PathA, version |-> 0], [path |-> PathAB, version |-> -1],
   [path |-> PathErr, version |-> -1]}
TreeSetDataArgs == {[path |-> PathA, data |-> d1, version |-> -1],
                    [path |-> PathA, data |-> d1, version |-> 0]}

OwnerCreateArgs ==
  {Arg(PathA, "NT_PERSISTENT"), Arg(PathA, "NT_EPHEMERAL"),
   Arg(PathAB, "NT_EPHEMERAL"), Arg(PathB, "NT_EPHEMERAL")}
OwnerDeleteArgs == {[path |-> PathAB, version |-> -1]}
OwnerSetDataArgs == {}

Symmetry == Permutations(Server)
=============================================================================
