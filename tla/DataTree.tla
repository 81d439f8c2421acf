------------------------------ MODULE DataTree ------------------------------
(***************************************************************************)
(* The znode tree of one Paxos group (saber/server/data_tree.cc): a value  *)
(* with the three hash maps of class DataTree, and one operator per method *)
(* that gives the response code or the tree the method leaves behind.      *)
(* Every method holds mutex_ while it touches the maps, so each operator   *)
(* is one atomic step; the specifications that use this module decide how  *)
(* the steps of different threads and replicas interleave.                 *)
(*                                                                         *)
(* A path "/x/y" is the sequence of the names between its slashes, a name  *)
(* is a sequence of atoms: a base string, followed by one number for each  *)
(* suffix "_%010d" that a sequential parent appended.  The empty path ""   *)
(* is the root; a path that ends in '/' ends in the empty name.            *)
(* Left out of a node's Stat: group_id (constant), the two times (copied   *)
(* from the transaction like its ids) and data_len (a function of data).   *)
(***************************************************************************)
EXTENDS HashMap, Integers, Sequences, FiniteSets

CONSTANTS
  Base,       \* the base strings that names are made of
  Data,       \* the contents a node may have
  EmptyData,  \* the empty string, the data of the root
  SessionId   \* the session ids, which are never 0

ASSUME DataAssumption == EmptyData \in Data
ASSUME SessionAssumption == SessionId \subseteq Nat \ {0}

Name == Seq(Base \cup Nat)
Path == Seq(Name)
Root == << >>

NodeType == {"NT_PERSISTENT", "NT_EPHEMERAL",
             "NT_PERSISTENT_SEQUENTIAL", "NT_EPHEMERAL_SEQUENTIAL"}

Node == [type : NodeType, data : Data, version : Nat,
         children_version : Nat, children_num : Nat,
         created_id : Nat, modified_id : Nat, children_id : Nat,
         ephemeral_id : Nat]

IsEphemeral(type) == type \in {"NT_EPHEMERAL", "NT_EPHEMERAL_SEQUENTIAL"}
IsSequential(type) ==
  type \in {"NT_PERSISTENT_SEQUENTIAL", "NT_EPHEMERAL_SEQUENTIAL"}

IsTree(t) ==
  /\ t = [nodes |-> t.nodes, childrens |-> t.childrens,
          ephemerals |-> t.ephemerals]
  /\ IsMap(t.nodes, Path, Node)
  /\ IsMap(t.childrens, Path, SUBSET Name)
  /\ IsMap(t.ephemerals, SessionId, SUBSET Path)

\* DataNode(): every field has its protobuf default.
NewNode(type, data, instance_id, ephemeral_id) ==
  [type |-> type, data |-> data, version |-> 0,
   children_version |-> 0, children_num |-> 0,
   created_id |-> instance_id, modified_id |-> instance_id,
   children_id |-> instance_id, ephemeral_id |-> ephemeral_id]

EmptyTree ==
  [nodes |-> [p \in {Root} |-> NewNode("NT_PERSISTENT", EmptyData, 0, 0)],
   childrens |-> EmptyMap, ephemerals |-> EmptyMap]

-----------------------------------------------------------------------------
(* Paths.                                                                  *)

ParsePath(path) ==
  IF path = Root \/ path[Len(path)] = << >> THEN "RC_ERRPATH" ELSE "RC_OK"

Parent(path) == SubSeq(path, 1, Len(path) - 1)
Child(path) == path[Len(path)]

-----------------------------------------------------------------------------
(* Create.  childrens_[parent] is evaluated before the existence test and  *)
(* whether or not the call is only a check, so a call that gets past the   *)
(* tests of the parent leaves an entry for the parent behind.              *)

\* Faulty: without the test that the parent is not ephemeral.
ParentCodeAnyType(t, path) ==
  IF ParsePath(path) # "RC_OK" THEN ParsePath(path)
  ELSE IF Parent(path) \notin DOMAIN t.nodes THEN "RC_NO_PARENT"
  ELSE "RC_OK"

ParentCode(t, path) ==
  IF ParsePath(path) # "RC_OK" THEN ParsePath(path)
  ELSE IF Parent(path) \notin DOMAIN t.nodes THEN "RC_NO_PARENT"
  ELSE IF IsEphemeral(t.nodes[Parent(path)].type) THEN "RC_PARENT_EPHEMERAL"
  ELSE "RC_OK"

\* The path that Create uses: a sequential parent adds its next number.
NewPath(t, path) ==
  LET parent == t.nodes[Parent(path)]
  IN  IF IsSequential(parent.type)
      THEN Append(Parent(path),
                  Append(Child(path), parent.children_version + 1))
      ELSE path

ChildCode(t, parent, child) ==
  IF child \in SetAt(t.childrens, parent) THEN "RC_NODE_EXISTS" ELSE "RC_OK"

CheckCreateCode(t, path) ==
  IF ParentCode(t, path) # "RC_OK" THEN ParentCode(t, path)
  ELSE ChildCode(t, Parent(path), Child(path))

CreateCode(t, path) ==
  IF ParentCode(t, path) # "RC_OK" THEN ParentCode(t, path)
  ELSE ChildCode(t, Parent(path), Child(NewPath(t, path)))

CheckCreate(t, path) ==
  IF ParentCode(t, path) # "RC_OK" THEN t
  ELSE [t EXCEPT !.childrens =
           Put(@, Parent(path), SetAt(@, Parent(path)))]

\* Faulty: children_version is not advanced.
TouchParentSameVersion(node, kids, instance_id) ==
  [node EXCEPT !.children_num = Cardinality(kids), !.children_id = instance_id]

\* What a change of p's children set to kids writes into p's Stat.
TouchParent(node, kids, instance_id) ==
  [node EXCEPT !.children_version = @ + 1,
               !.children_num = Cardinality(kids),
               !.children_id = instance_id]

\* Faulty: an ephemeral node is not added to ephemerals_.
InsertNodeUnindexed(t, path, node, instance_id) ==
  LET parent == Parent(path)
      kids == SetAt(t.childrens, parent) \cup {Child(path)}
  IN  [nodes |-> Put([t.nodes EXCEPT ![parent] =
                        TouchParent(@, kids, instance_id)], path, node),
       childrens |-> Put(t.childrens, parent, kids),
       ephemerals |-> t.ephemerals]

InsertNode(t, path, node, instance_id) ==
  LET parent == Parent(path)
      kids == SetAt(t.childrens, parent) \cup {Child(path)}
      sid == node.ephemeral_id
  IN  [nodes |-> Put([t.nodes EXCEPT ![parent] =
                        TouchParent(@, kids, instance_id)], path, node),
       childrens |-> Put(t.childrens, parent, kids),
       ephemerals |-> IF IsEphemeral(node.type)
                      THEN Put(t.ephemerals, sid,
                               SetAt(t.ephemerals, sid) \cup {path})
                      ELSE t.ephemerals]

\* Faulty: the owner is the instance, not the session.
CreateOwnedByInstance(t, request, txn) ==
  IF CreateCode(t, request.path) # "RC_OK"
  THEN CheckCreate(t, request.path)
  ELSE InsertNode(t, NewPath(t, request.path),
                  NewNode(request.node_type, request.data, txn.instance_id,
                          IF IsEphemeral(request.node_type)
                          THEN txn.instance_id ELSE 0),
                  txn.instance_id)

Create(t, request, txn) ==
  IF CreateCode(t, request.path) # "RC_OK"
  THEN CheckCreate(t, request.path)
  ELSE InsertNode(t, NewPath(t, request.path),
                  NewNode(request.node_type, request.data, txn.instance_id,
                          IF IsEphemeral(request.node_type)
                          THEN txn.session_id ELSE 0),
                  txn.instance_id)

-----------------------------------------------------------------------------
(* Delete.  "Has children" is tested as "has an entry in childrens_".      *)
(* DeleteCode is what CheckDelete answers and what decides whether the     *)
(* node is taken out; Delete itself looks for the parent after that.       *)

\* Faulty: without the test that the node has no children.
DeleteCodeAnyChildren(t, path, version) ==
  IF ParsePath(path) # "RC_OK" THEN ParsePath(path)
  ELSE IF path \notin DOMAIN t.nodes THEN "RC_NO_NODE"
  ELSE IF version # -1 /\ version # t.nodes[path].version
       THEN "RC_BAD_VERSION"
  ELSE "RC_OK"

DeleteCode(t, path, version) ==
  IF ParsePath(path) # "RC_OK" THEN ParsePath(path)
  ELSE IF path \notin DOMAIN t.nodes THEN "RC_NO_NODE"
  ELSE IF version # -1 /\ version # t.nodes[path].version
       THEN "RC_BAD_VERSION"
  ELSE IF path \in DOMAIN t.childrens THEN "RC_CHILDREN_EXISTS"
  ELSE "RC_OK"

RemoveNode(t, path, instance_id) ==
  LET nodes == Erase(t.nodes, path)
      parent == Parent(path)
      kids == SetAt(t.childrens, parent) \ {Child(path)}
      linked == parent \in DOMAIN nodes /\ parent \in DOMAIN t.childrens
  IN  [nodes |-> IF linked /\ Child(path) \in t.childrens[parent]
                 THEN [nodes EXCEPT ![parent] =
                         TouchParent(@, kids, instance_id)]
                 ELSE nodes,
       childrens |-> IF ~linked THEN t.childrens
                     ELSE IF kids = {} THEN Erase(t.childrens, parent)
                     ELSE Put(t.childrens, parent, kids),
       ephemerals |-> IF t.nodes[path].ephemeral_id = 0 THEN t.ephemerals
                      ELSE Discard(t.ephemerals,
                                   {t.nodes[path].ephemeral_id}, path)]

DeleteAnswer(t, path, version) ==
  IF DeleteCode(t, path, version) # "RC_OK" THEN DeleteCode(t, path, version)
  ELSE IF Parent(path) \notin DOMAIN t.nodes THEN "RC_NO_PARENT"
  ELSE "RC_OK"

Delete(t, request, txn) ==
  IF DeleteCode(t, request.path, request.version) # "RC_OK" THEN t
  ELSE RemoveNode(t, request.path, txn.instance_id)

-----------------------------------------------------------------------------
(* SetData.                                                                *)

SetDataCode(t, path, version) ==
  IF ParsePath(path) # "RC_OK" THEN ParsePath(path)
  ELSE IF path \notin DOMAIN t.nodes THEN "RC_NO_NODE"
  ELSE IF version # -1 /\ version # t.nodes[path].version
       THEN "RC_BAD_VERSION"
  ELSE "RC_OK"

WriteNode(node, data, instance_id) ==
  [node EXCEPT !.version = @ + 1, !.data = data, !.modified_id = instance_id]

SetData(t, request, txn) ==
  IF SetDataCode(t, request.path, request.version) # "RC_OK" THEN t
  ELSE [t EXCEPT !.nodes =
          Put(@, request.path,
              WriteNode(@[request.path], request.data, txn.instance_id))]

-----------------------------------------------------------------------------
(* KillSession takes the session's set out of ephemerals_ and then calls   *)
(* Delete with version -1 on each of its paths.  Delete locks mutex_ for   *)
(* each path, so the loop is a sequence of steps.                          *)

EphemeralPaths(t, sid) == SetAt(t.ephemerals, sid)
ForgetEphemerals(t, sid) == [t EXCEPT !.ephemerals = Erase(@, sid)]
KillRequest(path) == [path |-> path, version |-> -1]

-----------------------------------------------------------------------------
(* Checkpoints: the node list that is written, and Recover, which adds a   *)
(* node list to the maps that are there.                                   *)

GetDataNodeList(t) ==
  {[path |-> p, node |-> t.nodes[p], children |-> SetAt(t.childrens, p)] :
     p \in DOMAIN t.nodes}

\* The member of a node list that describes p.
Listed(list, p) == CHOOSE n \in list : n.path = p

\* Faulty: the data of the nodes is not restored.
RecoverNoData(t, list) ==
  LET paths == {n.path : n \in list}
      owner(p) == Listed(list, p).node.ephemeral_id
      inner == {p \in paths : Listed(list, p).children # {}}
  IN  [nodes |-> [p \in DOMAIN t.nodes \cup paths |->
                    IF p \in paths
                    THEN [Listed(list, p).node EXCEPT !.data = EmptyData]
                    ELSE t.nodes[p]],
       childrens |-> [p \in inner |-> Listed(list, p).children],
       ephemerals |-> [s \in {owner(p) : p \in paths} \ {0} |->
                         {p \in paths : owner(p) = s}]]

Recover(t, list) ==
  LET paths == {n.path : n \in list}
      owner(p) == Listed(list, p).node.ephemeral_id
      owned == {p \in paths : owner(p) > 0}
      inner == {p \in paths : Listed(list, p).children # {}}
  IN  [nodes |-> [p \in DOMAIN t.nodes \cup paths |->
                    IF p \in paths THEN Listed(list, p).node ELSE t.nodes[p]],
       childrens |-> [p \in DOMAIN t.childrens \cup inner |->
                        SetAt(t.childrens, p) \cup
                        (IF p \in inner THEN Listed(list, p).children ELSE {})],
       ephemerals |-> [s \in DOMAIN t.ephemerals \cup
                               {owner(p) : p \in owned} |->
                         SetAt(t.ephemerals, s) \cup
                         {p \in owned : owner(p) = s}]]

-----------------------------------------------------------------------------
(* What a tree must satisfy.  killing is the set of the paths that a       *)
(* KillSession in progress has still to delete.                            *)

\* Every node but the root, which is not ephemeral, hangs under a node that
\* lists it.
ParentsLinked(t) ==
  /\ Root \in DOMAIN t.nodes
  /\ ~IsEphemeral(t.nodes[Root].type)
  /\ \A p \in DOMAIN t.nodes \ {Root} :
       /\ ParsePath(p) = "RC_OK"
       /\ Parent(p) \in DOMAIN t.nodes
       /\ Child(p) \in SetAt(t.childrens, Parent(p))

\* What childrens_ lists exists, and only nodes have an entry.
ChildrenLinked(t) ==
  \A p \in DOMAIN t.childrens :
    /\ p \in DOMAIN t.nodes
    /\ \A c \in t.childrens[p] : Append(p, c) \in DOMAIN t.nodes

\* saber.proto: "EPHEMERAL nodes cannot have children".
EphemeralsAreLeaves(t) ==
  \A p \in DOMAIN t.nodes :
    IsEphemeral(t.nodes[p].type) => p \notin DOMAIN t.childrens

\* ephemerals_ indexes the ephemeral nodes by their owner, and has no
\* empty sets; the paths being killed are no longer indexed.
EphemeralsIndexed(t, killing) ==
  /\ \A s \in DOMAIN t.ephemerals : t.ephemerals[s] # {}
  /\ \A s \in DOMAIN t.ephemerals : \A p \in t.ephemerals[s] :
       /\ p \in DOMAIN t.nodes \ killing
       /\ t.nodes[p].ephemeral_id = s
  /\ \A p \in DOMAIN t.nodes :
       /\ IsEphemeral(t.nodes[p].type) <=> t.nodes[p].ephemeral_id # 0
       /\ (IsEphemeral(t.nodes[p].type) /\ p \notin killing)
            => p \in SetAt(t.ephemerals, t.nodes[p].ephemeral_id)

\* A node's children_num is the number of its children.
ChildrenCounted(t) ==
  \A p \in DOMAIN t.nodes :
    /\ IsFiniteSet(SetAt(t.childrens, p))
    /\ t.nodes[p].children_num = Cardinality(SetAt(t.childrens, p))

\* The numbers that a sequential parent gave to its children are at most
\* its children_version, from which the next one is made.
SequenceNumbersUsed(t) ==
  \A p \in DOMAIN t.nodes : IsSequential(t.nodes[p].type) =>
    \A c \in SetAt(t.childrens, p) :
      /\ c # << >>
      /\ c[Len(c)] \in 0 .. t.nodes[p].children_version

WellFormed(t, killing) ==
  /\ ParentsLinked(t)
  /\ ChildrenLinked(t)
  /\ EphemeralsAreLeaves(t)
  /\ EphemeralsIndexed(t, killing)
  /\ ChildrenCounted(t)
  /\ SequenceNumbersUsed(t)
=============================================================================
