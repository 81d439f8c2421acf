--------------------------- MODULE DataTreeProofs ---------------------------
(***************************************************************************)
(* The operations of DataTree keep a tree well formed: one lemma for each  *)
(* operation, for every tree, path and argument.  The specifications that  *)
(* use DataTree cite these lemmas for their steps.                         *)
(***************************************************************************)
EXTENDS DataTree, FiniteSetTheorems, TLAPS

\* What map[k] = v leaves in a hash map.
LEMMA PutMap ==
  ASSUME NEW S, NEW T, NEW f, NEW k \in S, NEW v \in T, IsMap(f, S, T)
  PROVE  /\ IsMap(Put(f, k, v), S, T)
         /\ DOMAIN Put(f, k, v) = DOMAIN f \cup {k}
         /\ Put(f, k, v)[k] = v
         /\ \A x \in DOMAIN f \ {k} : Put(f, k, v)[x] = f[x]
BY Zenon DEF IsMap, Put

\* What map.erase(k) leaves in a hash map.
LEMMA EraseMap ==
  ASSUME NEW S, NEW T, NEW f, NEW k, IsMap(f, S, T)
  PROVE  /\ IsMap(Erase(f, k), S, T)
         /\ DOMAIN Erase(f, k) = DOMAIN f \ {k}
         /\ \A x \in DOMAIN f \ {k} : Erase(f, k)[x] = f[x]
BY Zenon DEF IsMap, Erase

\* What the erasure of one member from the sets of some keys leaves.
LEMMA DiscardMap ==
  ASSUME NEW S, NEW T, NEW f, NEW keys, NEW v, IsMap(f, S, SUBSET T)
  PROVE  /\ IsMap(Discard(f, keys, v), S, SUBSET T)
         /\ DOMAIN Discard(f, keys, v) \subseteq DOMAIN f
         /\ \A k \in keys : SetAt(Discard(f, keys, v), k) = SetAt(f, k) \ {v}
         /\ \A k : k \notin keys => SetAt(Discard(f, keys, v), k) = SetAt(f, k)
BY Zenon DEF IsMap, Discard, SetAt

\* A path other than the root splits into its parent and its last name, as
\* DataTree::ParsePath splits the string at its last '/'.
LEMMA PathParts ==
  ASSUME NEW p \in Path, p # Root
  PROVE  /\ Parent(p) \in Path
         /\ Child(p) \in Name
         /\ p = Append(Parent(p), Child(p))
BY DEF Path, Root, Parent, Child

\* A child's path splits back into the path and the name it was made of.
LEMMA AppendParts ==
  ASSUME NEW p \in Path, NEW c \in Name
  PROVE  /\ Append(p, c) \in Path
         /\ Append(p, c) # Root
         /\ Parent(Append(p, c)) = p
         /\ Child(Append(p, c)) = c
BY DEF Path, Root, Parent, Child

\* The Stat that Create and Delete write into the parent: the type and the
\* owner stay, the children version grows by one.
LEMMA TouchParentOK ==
  ASSUME NEW node \in Node, NEW kids, Cardinality(kids) \in Nat, NEW i \in Nat
  PROVE  /\ TouchParent(node, kids, i) \in Node
         /\ TouchParent(node, kids, i).type = node.type
         /\ TouchParent(node, kids, i).ephemeral_id = node.ephemeral_id
         /\ TouchParent(node, kids, i).children_version
              = node.children_version + 1
         /\ TouchParent(node, kids, i).children_num = Cardinality(kids)
<1> DEFINE new(v) == [node EXCEPT !.children_version = v,
                                  !.children_num = Cardinality(kids),
                                  !.children_id = i]
<1>1. ASSUME NEW v \in Nat
      PROVE  /\ new(v) \in Node
             /\ new(v).type = node.type
             /\ new(v).ephemeral_id = node.ephemeral_id
             /\ new(v).children_version = v
             /\ new(v).children_num = Cardinality(kids)
  BY Zenon DEF Node
<1>2. node.children_version + 1 \in Nat
  BY DEF Node
<1>3. TouchParent(node, kids, i) = new(node.children_version + 1)
  BY Zenon DEF TouchParent
<1> HIDE DEF new
<1> QED BY <1>1, <1>2, <1>3

\* The tree the DataTree constructor builds is well formed.
LEMMA EmptyTreeOK == IsTree(EmptyTree) /\ WellFormed(EmptyTree, {})
<1>1. /\ Root \in Path
      /\ NewNode("NT_PERSISTENT", EmptyData, 0, 0) \in Node
  BY DataAssumption DEF Path, Root, NewNode, Node, NodeType
<1>2. IsTree(EmptyTree)
  BY <1>1, Zenon DEF IsTree, IsMap, EmptyTree, EmptyMap
<1>3. IsFiniteSet({}) /\ Cardinality({}) = 0
  BY FS_EmptySet, Zenon
<1>4. WellFormed(EmptyTree, {})
  BY <1>3, Zenon DEF WellFormed, ParentsLinked, ChildrenLinked, EphemeralsAreLeaves,
       EphemeralsIndexed, ChildrenCounted, SequenceNumbersUsed, EmptyTree,
       EmptyMap, SetAt, NewNode, IsEphemeral, IsSequential
<1> QED BY <1>2, <1>4, Zenon

\* Create with only_check set (and a Create that fails) keeps a tree well
\* formed, although it may leave an empty entry in childrens_.
LEMMA CheckCreateOK ==
  ASSUME NEW t, NEW K, NEW path \in Path, IsTree(t), WellFormed(t, K)
  PROVE  IsTree(CheckCreate(t, path)) /\ WellFormed(CheckCreate(t, path), K)
<1> DEFINE u == CheckCreate(t, path)
           p == Parent(path)
<1>1. CASE ParentCode(t, path) # "RC_OK"
  BY <1>1, Zenon DEF CheckCreate
<1>2. CASE ParentCode(t, path) = "RC_OK"
  <2>1. /\ path # Root
        /\ p \in DOMAIN t.nodes
        /\ ~IsEphemeral(t.nodes[p].type)
    BY <1>2, Zenon DEF ParentCode, ParsePath
  <2>2. p \in Path
    BY <2>1, PathParts, Zenon
  <2>3. SetAt(t.childrens, p) \in SUBSET Name
    BY Zenon DEF IsTree, IsMap, SetAt
  <2>4. u = [nodes |-> t.nodes,
             childrens |-> Put(t.childrens, p, SetAt(t.childrens, p)),
             ephemerals |-> t.ephemerals]
    BY <1>2, Zenon DEF CheckCreate, IsTree
  <2>5. IsTree(u)
    <3>1. IsMap(t.childrens, Path, SUBSET Name)
      BY Zenon DEF IsTree
    <3>2. IsMap(Put(t.childrens, p, SetAt(t.childrens, p)), Path, SUBSET Name)
      BY <2>2, <2>3, <3>1, PutMap, Zenon
    <3> QED BY <2>4, <3>2 DEF IsTree
  <2>6. /\ u.nodes = t.nodes /\ u.ephemerals = t.ephemerals
        /\ DOMAIN u.childrens = DOMAIN t.childrens \cup {p}
        /\ \A q : SetAt(u.childrens, q) = SetAt(t.childrens, q)
    BY <2>4 DEF Put, SetAt
  <2>7. ChildrenLinked(u)
    BY <2>1, <2>6, Zenon DEF WellFormed, ChildrenLinked, SetAt
  <2>8. EphemeralsAreLeaves(u)
    BY <2>1, <2>6, Zenon DEF WellFormed, EphemeralsAreLeaves
  <2>9. /\ ParentsLinked(u) /\ EphemeralsIndexed(u, K)
        /\ ChildrenCounted(u) /\ SequenceNumbersUsed(u)
    BY <2>6, Zenon DEF WellFormed, ParentsLinked, EphemeralsIndexed,
                ChildrenCounted, SequenceNumbersUsed
  <2> QED BY <2>5, <2>7, <2>8, <2>9, Zenon DEF WellFormed
<1> QED BY <1>1, <1>2, Zenon

\* The path a successful Create inserts is new, hangs under a node that is
\* not ephemeral, and under a sequential parent ends in the next number.
LEMMA NewPathOK ==
  ASSUME NEW t, NEW K, NEW path \in Path, IsTree(t), WellFormed(t, K),
         CreateCode(t, path) = "RC_OK"
  PROVE  LET q == NewPath(t, path)
             p == Parent(path)
         IN  /\ q \in Path /\ ParsePath(q) = "RC_OK" /\ q # Root
             /\ Parent(q) = p
             /\ p \in DOMAIN t.nodes /\ ~IsEphemeral(t.nodes[p].type)
             /\ q \notin DOMAIN t.nodes
             /\ Child(q) \in Name
             /\ Child(q) \notin SetAt(t.childrens, p)
             /\ IsSequential(t.nodes[p].type)
                  => /\ Child(q) # << >>
                     /\ Child(q)[Len(Child(q))]
                          = t.nodes[p].children_version + 1
<1> DEFINE q == NewPath(t, path)
           p == Parent(path)
           n == t.nodes[p].children_version + 1
<1>1. /\ path # Root /\ Child(path) # << >>
      /\ p \in DOMAIN t.nodes /\ ~IsEphemeral(t.nodes[p].type)
      /\ Child(q) \notin SetAt(t.childrens, p)
  BY Zenon DEF CreateCode, ParentCode, ParsePath, ChildCode, Child
<1>2. p \in Path /\ Child(path) \in Name /\ path = Append(p, Child(path))
  BY <1>1, PathParts, Zenon
<1>3. n \in Nat \ {0}
  BY <1>1 DEF IsTree, IsMap, Node
<1>4. /\ Append(Child(path), n) \in Name
      /\ Append(Child(path), n) # << >>
      /\ Append(Child(path), n)[Len(Append(Child(path), n))] = n
  BY <1>2, <1>3 DEF Name
<1>5. \E c \in Name :
        /\ q = Append(p, c) /\ c # << >>
        /\ IsSequential(t.nodes[p].type) => c[Len(c)] = n
  BY <1>1, <1>2, <1>4, Zenon DEF NewPath
<1>6. PICK c \in Name :
        /\ q = Append(p, c) /\ c # << >>
        /\ IsSequential(t.nodes[p].type) => c[Len(c)] = n
  BY <1>5, Zenon
<1>7. q \in Path /\ q # Root /\ Parent(q) = p /\ Child(q) = c
  BY <1>2, <1>6, AppendParts, Zenon
<1>8. ParsePath(q) = "RC_OK"
  BY <1>6, <1>7, Zenon DEF ParsePath, Child
<1>9. q \notin DOMAIN t.nodes
  BY <1>1, <1>7, Zenon DEF WellFormed, ParentsLinked
<1> QED BY <1>1, <1>6, <1>7, <1>8, <1>9, Zenon

\* The insertion that Create does once its tests have succeeded keeps the
\* three maps consistent.
LEMMA InsertNodeOK ==
  ASSUME NEW t, IsTree(t), WellFormed(t, {}),
         NEW q \in Path, q # Root, ParsePath(q) = "RC_OK",
         q \notin DOMAIN t.nodes, Parent(q) \in DOMAIN t.nodes,
         ~IsEphemeral(t.nodes[Parent(q)].type),
         IsSequential(t.nodes[Parent(q)].type)
           => /\ Child(q) # << >>
              /\ Child(q)[Len(Child(q))]
                   = t.nodes[Parent(q)].children_version + 1,
         NEW node \in Node, node.children_num = 0,
         IsEphemeral(node.type) => node.ephemeral_id \in SessionId,
         ~IsEphemeral(node.type) => node.ephemeral_id = 0,
         NEW i \in Nat
  PROVE  IsTree(InsertNode(t, q, node, i))
           /\ WellFormed(InsertNode(t, q, node, i), {})
<1> DEFINE u == InsertNode(t, q, node, i)
           p == Parent(q)
           kids == SetAt(t.childrens, p) \cup {Child(q)}
           sid == node.ephemeral_id
           owned == SetAt(t.ephemerals, sid) \cup {q}
<1>1. p \in Path /\ Child(q) \in Name /\ q = Append(p, Child(q)) /\ p # q
  BY PathParts, Zenon
<1>2. /\ IsMap(t.nodes, Path, Node)
      /\ IsMap(t.childrens, Path, SUBSET Name)
      /\ IsMap(t.ephemerals, SessionId, SUBSET Path)
  BY Zenon DEF IsTree
<1>3. /\ IsFiniteSet(SetAt(t.childrens, p))
      /\ IsFiniteSet(kids) /\ Cardinality(kids) \in Nat
  <2>1. IsFiniteSet(SetAt(t.childrens, p))
    BY Zenon DEF WellFormed, ChildrenCounted
  <2> QED BY <2>1, FS_AddElement, FS_CardinalityType, Zenon
<1>4. kids \in SUBSET Name
  BY <1>1, <1>2, Zenon DEF IsMap, SetAt
<1> DEFINE touched == TouchParent(t.nodes[p], kids, i)
<1>5. /\ touched \in Node
      /\ touched.type = t.nodes[p].type
      /\ touched.ephemeral_id = t.nodes[p].ephemeral_id
      /\ touched.children_version = t.nodes[p].children_version + 1
      /\ touched.children_num = Cardinality(kids)
  <2>1. t.nodes[p] \in Node
    BY <1>2, Zenon DEF IsMap
  <2> QED BY <1>3, <2>1, TouchParentOK, Zenon
<1>6. /\ DOMAIN u.nodes = DOMAIN t.nodes \cup {q}
      /\ u.nodes[q] = node
      /\ u.nodes[p] = touched
      /\ \A x \in DOMAIN t.nodes \ {p} : u.nodes[x] = t.nodes[x]
      /\ IsMap(u.nodes, Path, Node)
  <2>1. u.nodes = Put([t.nodes EXCEPT ![p] = touched], q, node)
    BY Zenon DEF InsertNode
  <2>2. IsMap([t.nodes EXCEPT ![p] = touched], Path, Node)
    BY <1>2, <1>5, Zenon DEF IsMap
  <2>3. IsMap(Put([t.nodes EXCEPT ![p] = touched], q, node), Path, Node)
    BY <2>2, PutMap, ZenonT(30)
  <2> QED BY <1>1, <1>2, <2>1, <2>3, ZenonT(30) DEF Put, IsMap
<1>7. /\ DOMAIN u.childrens = DOMAIN t.childrens \cup {p}
      /\ SetAt(u.childrens, p) = kids
      /\ \A x : x # p => SetAt(u.childrens, x) = SetAt(t.childrens, x)
      /\ IsMap(u.childrens, Path, SUBSET Name)
  <2>1. u.childrens = Put(t.childrens, p, kids)
    BY Zenon DEF InsertNode
  <2>2. IsMap(Put(t.childrens, p, kids), Path, SUBSET Name)
    BY <1>1, <1>2, <1>4, PutMap, Zenon
  <2> QED BY <2>1, <2>2, Zenon DEF Put, SetAt
<1>8. IsMap(u.ephemerals, SessionId, SUBSET Path) /\ EphemeralsIndexed(u, {})
  <2>1. CASE IsEphemeral(node.type)
    <3>1. u.ephemerals = Put(t.ephemerals, sid, owned)
      BY <2>1, Zenon DEF InsertNode
    <3>2. owned \in SUBSET Path
      BY <1>2, Zenon DEF IsMap, SetAt
    <3>3. IsMap(Put(t.ephemerals, sid, owned), SessionId, SUBSET Path)
      BY <1>2, <2>1, <3>2, PutMap, ZenonT(30)
    <3>4. /\ DOMAIN u.ephemerals = DOMAIN t.ephemerals \cup {sid}
          /\ u.ephemerals[sid] = owned
          /\ \A s \in DOMAIN t.ephemerals \ {sid} :
               u.ephemerals[s] = t.ephemerals[s]
      BY <3>1, Zenon DEF Put
    <3>5. ASSUME NEW s \in DOMAIN u.ephemerals
          PROVE  /\ u.ephemerals[s] # {}
                 /\ \A x \in u.ephemerals[s] :
                      x \in DOMAIN u.nodes /\ u.nodes[x].ephemeral_id = s
      BY <1>5, <1>6, <3>4 DEF WellFormed, EphemeralsIndexed, SetAt
    <3>6. ASSUME NEW x \in DOMAIN u.nodes
          PROVE  /\ IsEphemeral(u.nodes[x].type)
                      <=> u.nodes[x].ephemeral_id # 0
                 /\ IsEphemeral(u.nodes[x].type)
                      => x \in SetAt(u.ephemerals, u.nodes[x].ephemeral_id)
      <4>1. CASE x = q
        BY <1>6, <2>1, <3>4, <4>1, SessionAssumption, Zenon DEF SetAt
      <4>2. CASE x # q
        <5>1. /\ x \in DOMAIN t.nodes
              /\ u.nodes[x].type = t.nodes[x].type
              /\ u.nodes[x].ephemeral_id = t.nodes[x].ephemeral_id
          BY <1>5, <1>6, <4>2, Zenon
        <5> QED BY <3>4, <5>1 DEF WellFormed, EphemeralsIndexed, SetAt
      <4> QED BY <4>1, <4>2, Zenon
    <3> QED BY <3>1, <3>3, <3>5, <3>6, Zenon DEF EphemeralsIndexed
  <2>2. CASE ~IsEphemeral(node.type)
    <3>1. u.ephemerals = t.ephemerals
      BY <2>2, Zenon DEF InsertNode
    <3>2. EphemeralsIndexed(u, {})
      BY <1>5, <1>6, <2>2, <3>1 DEF WellFormed, EphemeralsIndexed
    <3> QED BY <1>2, <3>1, <3>2, Zenon
  <2> QED BY <2>1, <2>2, Zenon
<1>9. IsTree(u)
  BY <1>6, <1>7, <1>8, Zenon DEF IsTree, InsertNode
<1>10. q \notin DOMAIN u.childrens /\ SetAt(u.childrens, q) = {}
  BY <1>1, <1>7, Zenon DEF WellFormed, ChildrenLinked, SetAt
<1>11. ParentsLinked(u)
  <2>1. ASSUME NEW x \in DOMAIN t.nodes \ {Root}
        PROVE  /\ ParsePath(x) = "RC_OK"
               /\ Parent(x) \in DOMAIN t.nodes
               /\ Child(x) \in SetAt(u.childrens, Parent(x))
    BY <1>7, Zenon DEF WellFormed, ParentsLinked
  <2>2. Child(q) \in SetAt(u.childrens, p)
    BY <1>7, Zenon
  <2>3. ~IsEphemeral(u.nodes[Root].type)
    BY <1>5, <1>6, Zenon DEF WellFormed, ParentsLinked
  <2> QED BY <1>6, <2>1, <2>2, <2>3, Zenon DEF WellFormed, ParentsLinked
<1>12. ChildrenLinked(u)
  BY <1>1, <1>6, <1>7, Zenon DEF WellFormed, ChildrenLinked, SetAt
<1>13. EphemeralsAreLeaves(u)
  BY <1>5, <1>6, <1>7, <1>10, Zenon DEF WellFormed, EphemeralsAreLeaves
<1>14. ChildrenCounted(u)
  BY <1>3, <1>5, <1>6, <1>7, <1>10, FS_EmptySet, Zenon
    DEF WellFormed, ChildrenCounted
<1>15. SequenceNumbersUsed(u)
  <2>1. ASSUME NEW x \in DOMAIN u.nodes, IsSequential(u.nodes[x].type),
               NEW c \in SetAt(u.childrens, x)
        PROVE  c # << >> /\ c[Len(c)] \in 0 .. u.nodes[x].children_version
    <3>1. CASE x = q
      BY <1>10, <3>1, Zenon
    <3>2. CASE x = p
      <4>1. t.nodes[p].children_version \in Nat
        BY <1>2, Zenon DEF IsMap, Node
      <4>2. CASE c = Child(q)
        BY <1>5, <1>6, <2>1, <3>2, <4>1, <4>2
      <4>3. CASE c # Child(q)
        <5>1. /\ IsSequential(t.nodes[p].type)
              /\ c \in SetAt(t.childrens, p)
              /\ u.nodes[x].children_version
                   = t.nodes[p].children_version + 1
          BY <1>5, <1>6, <1>7, <2>1, <3>2, <4>3, Zenon
        <5>2. c # << >> /\ c[Len(c)] \in 0 .. t.nodes[p].children_version
          BY <1>2, <5>1, Zenon DEF WellFormed, SequenceNumbersUsed
        <5> HIDE DEF u
        <5> QED BY <4>1, <5>1, <5>2
      <4> QED BY <4>2, <4>3, Zenon
    <3>3. CASE x # q /\ x # p
      BY <1>6, <1>7, <2>1, <3>3, Zenon DEF WellFormed, SequenceNumbersUsed
    <3> QED BY <3>1, <3>2, <3>3, Zenon
  <2> QED BY <2>1, Zenon DEF SequenceNumbersUsed
<1> QED
  BY <1>8, <1>9, <1>11, <1>12, <1>13, <1>14, <1>15, Zenon DEF WellFormed

\* Create, successful or refused, keeps a tree well formed.
LEMMA CreateOK ==
  ASSUME NEW t, IsTree(t), WellFormed(t, {}),
         NEW request, request.path \in Path, request.node_type \in NodeType,
         request.data \in Data,
         NEW txn, txn.instance_id \in Nat, txn.session_id \in SessionId
  PROVE  IsTree(Create(t, request, txn))
           /\ WellFormed(Create(t, request, txn), {})
<1>1. CASE CreateCode(t, request.path) # "RC_OK"
  BY <1>1, CheckCreateOK, Zenon DEF Create
<1>2. CASE CreateCode(t, request.path) = "RC_OK"
  <2> DEFINE q == NewPath(t, request.path)
             sid == IF IsEphemeral(request.node_type)
                    THEN txn.session_id ELSE 0
             node == NewNode(request.node_type, request.data,
                             txn.instance_id, sid)
  <2>1. Create(t, request, txn) = InsertNode(t, q, node, txn.instance_id)
    BY <1>2, Zenon DEF Create
  <2>2. sid \in Nat
    BY SessionAssumption, Zenon
  <2>3. /\ node \in Node
        /\ node.children_num = 0
        /\ node.type = request.node_type
        /\ node.ephemeral_id = sid
    BY <2>2, Zenon DEF NewNode, Node
  <2>4. /\ IsEphemeral(node.type) => node.ephemeral_id \in SessionId
        /\ ~IsEphemeral(node.type) => node.ephemeral_id = 0
    BY <2>3, Zenon
  <2>5. /\ q \in Path /\ ParsePath(q) = "RC_OK" /\ q # Root
        /\ Parent(q) \in DOMAIN t.nodes
        /\ ~IsEphemeral(t.nodes[Parent(q)].type)
        /\ q \notin DOMAIN t.nodes
        /\ IsSequential(t.nodes[Parent(q)].type)
             => /\ Child(q) # << >>
                /\ Child(q)[Len(Child(q))]
                     = t.nodes[Parent(q)].children_version + 1
    BY <1>2, NewPathOK
  <2> HIDE DEF q, node, sid
  <2> QED BY <2>1, <2>3, <2>4, <2>5, InsertNodeOK, Zenon
<1> QED BY <1>1, <1>2, Zenon

\* The nodes other than x have the same types and owners in u as in t.
SameButFor(t, u, x) ==
  \A y \in DOMAIN t.nodes \ {x} :
    /\ u.nodes[y].type = t.nodes[y].type
    /\ u.nodes[y].ephemeral_id = t.nodes[y].ephemeral_id

\* The removal that Delete does once its tests have succeeded keeps the
\* three maps consistent and the types and owners of the other nodes; the
\* removed path, if it was being killed, no longer is.
LEMMA RemoveNodeOK ==
  ASSUME NEW t, NEW K, IsTree(t), WellFormed(t, K), NEW x \in Path,
         NEW v, DeleteCode(t, x, v) = "RC_OK", NEW i \in Nat
  PROVE  /\ IsTree(RemoveNode(t, x, i))
         /\ WellFormed(RemoveNode(t, x, i), K \ {x})
         /\ DOMAIN RemoveNode(t, x, i).nodes = DOMAIN t.nodes \ {x}
         /\ SameButFor(t, RemoveNode(t, x, i), x)
<1> DEFINE u == RemoveNode(t, x, i)
           p == Parent(x)
           kids == SetAt(t.childrens, p) \ {Child(x)}
           sid == t.nodes[x].ephemeral_id
<1>1. /\ x \in DOMAIN t.nodes /\ x # Root /\ x \notin DOMAIN t.childrens
  BY Zenon DEF DeleteCode, ParsePath
<1>2. p \in Path /\ Child(x) \in Name /\ x = Append(p, Child(x)) /\ p # x
  BY <1>1, PathParts
<1>3. /\ IsMap(t.nodes, Path, Node)
      /\ IsMap(t.childrens, Path, SUBSET Name)
      /\ IsMap(t.ephemerals, SessionId, SUBSET Path)
  BY Zenon DEF IsTree
<1>4. /\ p \in DOMAIN t.nodes /\ p \in DOMAIN t.childrens
      /\ Child(x) \in t.childrens[p]
      /\ SetAt(t.childrens, p) = t.childrens[p]
  BY <1>1, Zenon DEF WellFormed, ParentsLinked, SetAt
<1>5. IsFiniteSet(kids) /\ Cardinality(kids) \in Nat
  <2>1. IsFiniteSet(SetAt(t.childrens, p))
    BY <1>4, Zenon DEF WellFormed, ChildrenCounted
  <2> QED BY <2>1, FS_RemoveElement, FS_CardinalityType, Zenon
<1>6. kids \in SUBSET Name
  BY <1>3, <1>4, Zenon DEF IsMap
<1> DEFINE touched == TouchParent(t.nodes[p], kids, i)
<1>7. /\ touched \in Node
      /\ touched.type = t.nodes[p].type
      /\ touched.ephemeral_id = t.nodes[p].ephemeral_id
      /\ touched.children_version = t.nodes[p].children_version + 1
      /\ touched.children_num = Cardinality(kids)
  <2>1. t.nodes[p] \in Node
    BY <1>3, <1>4, Zenon DEF IsMap
  <2> QED BY <1>5, <2>1, TouchParentOK, Zenon
<1>8. /\ DOMAIN u.nodes = DOMAIN t.nodes \ {x}
      /\ u.nodes[p] = touched
      /\ \A y \in DOMAIN t.nodes \ {x, p} : u.nodes[y] = t.nodes[y]
      /\ IsMap(u.nodes, Path, Node)
  <2>1. u.nodes = [Erase(t.nodes, x) EXCEPT ![p] = touched]
    BY <1>2, <1>4, Zenon DEF RemoveNode, Erase
  <2>2. IsMap(Erase(t.nodes, x), Path, Node)
    BY <1>3, EraseMap, Zenon
  <2>3. IsMap([Erase(t.nodes, x) EXCEPT ![p] = touched], Path, Node)
    BY <1>7, <2>2, Zenon DEF IsMap
  <2> QED BY <1>2, <1>4, <2>1, <2>3, Zenon DEF Erase
<1>9. /\ DOMAIN u.childrens \subseteq DOMAIN t.childrens
      /\ SetAt(u.childrens, p) = kids
      /\ \A y : y # p => SetAt(u.childrens, y) = SetAt(t.childrens, y)
      /\ IsMap(u.childrens, Path, SUBSET Name)
  <2>1. u.childrens = IF kids = {} THEN Erase(t.childrens, p)
                      ELSE Put(t.childrens, p, kids)
    BY <1>2, <1>4, Zenon DEF RemoveNode, Erase
  <2>2. /\ IsMap(Erase(t.childrens, p), Path, SUBSET Name)
        /\ IsMap(Put(t.childrens, p, kids), Path, SUBSET Name)
    BY <1>2, <1>3, <1>6, EraseMap, PutMap, Zenon
  <2>3. CASE kids = {}
    BY <1>4, <2>1, <2>2, <2>3, Zenon DEF Erase, SetAt
  <2>4. CASE kids # {}
    BY <1>4, <2>1, <2>2, <2>4, Zenon DEF Put, SetAt
  <2> QED BY <2>3, <2>4, Zenon
<1>10. /\ IsMap(u.ephemerals, SessionId, SUBSET Path)
       /\ \A s \in DOMAIN u.ephemerals : u.ephemerals[s] # {}
       /\ \A s : SetAt(u.ephemerals, s) = SetAt(t.ephemerals, s) \ {x}
  <2>1. /\ \A s \in DOMAIN t.ephemerals : t.ephemerals[s] # {}
        /\ \A s \in DOMAIN t.ephemerals : x \in t.ephemerals[s] => s = sid
    BY Zenon DEF WellFormed, EphemeralsIndexed
  <2>2. CASE sid = 0
    <3>1. u.ephemerals = t.ephemerals
      BY <2>2, Zenon DEF RemoveNode
    <3>2. \A s \in DOMAIN t.ephemerals : x \notin t.ephemerals[s]
      BY <1>3, <2>1, <2>2, SessionAssumption, Zenon DEF IsMap
    <3> QED BY <1>3, <2>1, <3>1, <3>2, Zenon DEF SetAt
  <2>3. CASE sid # 0
    <3>1. u.ephemerals = Discard(t.ephemerals, {sid}, x)
      BY <2>3, Zenon DEF RemoveNode
    <3> DEFINE f == Discard(t.ephemerals, {sid}, x)
    <3>2. /\ IsMap(f, SessionId, SUBSET Path)
          /\ \A s \in DOMAIN f : f[s] # {}
          /\ \A s : SetAt(f, s) = SetAt(t.ephemerals, s) \ {x}
      <4> HIDE DEF sid
      <4>1. IsMap(f, SessionId, SUBSET Path)
        BY <1>3, DiscardMap, Zenon
      <4>2. \A s \in DOMAIN f : f[s] # {}
        BY <2>1, Zenon DEF Discard
      <4>3. \A s : SetAt(f, s) = SetAt(t.ephemerals, s) \ {x}
        BY <2>1, Zenon DEF Discard, SetAt
      <4> QED BY <4>1, <4>2, <4>3, Zenon
    <3> HIDE DEF u, f, sid
    <3> QED BY <3>1, <3>2, Zenon DEF f
  <2> QED BY <2>2, <2>3, Zenon
<1>11. IsTree(u)
  BY <1>8, <1>9, <1>10, Zenon DEF IsTree, RemoveNode
<1>12. \A y \in DOMAIN t.nodes \ {x} :
         /\ u.nodes[y].type = t.nodes[y].type
         /\ u.nodes[y].ephemeral_id = t.nodes[y].ephemeral_id
  BY <1>7, <1>8, Zenon
<1> HIDE DEF u
<1>13. ParentsLinked(u)
  <2>1. Root \in DOMAIN u.nodes /\ ~IsEphemeral(u.nodes[Root].type)
    BY <1>1, <1>8, <1>12, Zenon DEF WellFormed, ParentsLinked
  <2>2. ASSUME NEW y \in DOMAIN t.nodes \ {x, Root}
        PROVE  /\ ParsePath(y) = "RC_OK"
               /\ Parent(y) \in DOMAIN t.nodes \ {x}
               /\ Child(y) \in SetAt(u.childrens, Parent(y))
    <3>1. /\ ParsePath(y) = "RC_OK"
          /\ Parent(y) \in DOMAIN t.nodes
          /\ Child(y) \in SetAt(t.childrens, Parent(y))
      BY Zenon DEF WellFormed, ParentsLinked
    <3>2. Parent(y) # x
      BY <1>1, <3>1, Zenon DEF SetAt
    <3>3. CASE Parent(y) # p
      BY <1>9, <3>1, <3>2, <3>3, Zenon
    <3>4. CASE Parent(y) = p
      <4>1. y = Append(Parent(y), Child(y))
        BY <1>3, PathParts, Zenon DEF IsMap
      <4>2. Child(y) # Child(x)
        BY <1>2, <3>4, <4>1, Zenon
      <4> QED BY <1>9, <3>1, <3>2, <3>4, <4>2, Zenon
    <3> QED BY <3>3, <3>4, Zenon
  <2> QED BY <1>8, <2>1, <2>2, Zenon DEF ParentsLinked
<1>14. ChildrenLinked(u)
  <2>1. ASSUME NEW y \in DOMAIN u.childrens
        PROVE  /\ y \in DOMAIN u.nodes
               /\ \A c \in u.childrens[y] : Append(y, c) \in DOMAIN u.nodes
    <3>1. y \in DOMAIN t.childrens /\ y \in DOMAIN u.nodes
      BY <1>1, <1>8, <1>9, Zenon DEF WellFormed, ChildrenLinked
    <3>2. ASSUME NEW c \in u.childrens[y]
          PROVE  Append(y, c) \in DOMAIN u.nodes
      <4>1. c \in SetAt(u.childrens, y)
        BY Zenon DEF SetAt
      <4>2. y \in Path /\ c \in Name
        BY <1>9, Zenon DEF IsMap
      <4>3. Parent(Append(y, c)) = y /\ Child(Append(y, c)) = c
        BY <4>2, AppendParts, Zenon
      <4>4. c \in t.childrens[y] /\ Append(y, c) \in DOMAIN t.nodes
        BY <1>9, <3>1, <4>1, Zenon DEF WellFormed, ChildrenLinked, SetAt
      <4>5. Append(y, c) # x
        BY <1>9, <4>1, <4>3, Zenon
      <4> QED BY <1>8, <4>4, <4>5, Zenon
    <3> QED BY <3>1, <3>2, Zenon
  <2> QED BY <2>1, Zenon DEF ChildrenLinked
<1>15. EphemeralsAreLeaves(u)
  BY <1>8, <1>9, <1>12, Zenon DEF WellFormed, EphemeralsAreLeaves
<1>16. EphemeralsIndexed(u, K \ {x})
  <2>1. ASSUME NEW s \in DOMAIN u.ephemerals, NEW y \in u.ephemerals[s]
        PROVE  /\ y \in DOMAIN u.nodes \ (K \ {x})
               /\ u.nodes[y].ephemeral_id = s
    <3>1. y \in SetAt(t.ephemerals, s) /\ y # x
      BY <1>10, Zenon DEF SetAt
    <3>2. y \in DOMAIN t.nodes \ K /\ t.nodes[y].ephemeral_id = s
      BY <3>1, Zenon DEF WellFormed, EphemeralsIndexed, SetAt
    <3> QED BY <1>8, <1>12, <3>1, <3>2, Zenon
  <2>2. ASSUME NEW y \in DOMAIN u.nodes
        PROVE  /\ IsEphemeral(u.nodes[y].type)
                    <=> u.nodes[y].ephemeral_id # 0
               /\ (IsEphemeral(u.nodes[y].type) /\ y \notin K \ {x})
                    => y \in SetAt(u.ephemerals, u.nodes[y].ephemeral_id)
    <3>1. y \in DOMAIN t.nodes \ {x}
      BY <1>8, Zenon
    <3>2. /\ u.nodes[y].type = t.nodes[y].type
          /\ u.nodes[y].ephemeral_id = t.nodes[y].ephemeral_id
      BY <1>12, <3>1, Zenon
    <3>3. /\ IsEphemeral(t.nodes[y].type) <=> t.nodes[y].ephemeral_id # 0
          /\ (IsEphemeral(t.nodes[y].type) /\ y \notin K)
               => y \in SetAt(t.ephemerals, t.nodes[y].ephemeral_id)
      BY <3>1, Zenon DEF WellFormed, EphemeralsIndexed
    <3>4. \A s : y \in SetAt(t.ephemerals, s) => y \in SetAt(u.ephemerals, s)
      BY <1>10, <3>1, Zenon
    <3> QED BY <3>1, <3>2, <3>3, <3>4, Zenon
  <2> QED BY <1>10, <2>1, <2>2, Zenon DEF EphemeralsIndexed
<1>17. ChildrenCounted(u)
  BY <1>5, <1>7, <1>8, <1>9, Zenon DEF WellFormed, ChildrenCounted
<1>18. SequenceNumbersUsed(u)
  <2>1. ASSUME NEW y \in DOMAIN u.nodes, IsSequential(u.nodes[y].type),
               NEW c \in SetAt(u.childrens, y)
        PROVE  c # << >> /\ c[Len(c)] \in 0 .. u.nodes[y].children_version
    <3>1. /\ c # << >>
          /\ c[Len(c)] \in 0 .. t.nodes[y].children_version
      BY <1>8, <1>9, <1>12, <2>1, Zenon DEF WellFormed, SequenceNumbersUsed
    <3>2. t.nodes[y].children_version \in Nat
      BY <1>3, <1>8, Zenon DEF IsMap, Node
    <3>3. \/ u.nodes[y].children_version = t.nodes[y].children_version
          \/ u.nodes[y].children_version = t.nodes[y].children_version + 1
      BY <1>7, <1>8, Zenon
    <3> DEFINE last == c[Len(c)]
    <3> HIDE DEF last
    <3>4. last \in 0 .. u.nodes[y].children_version
      BY <3>1, <3>2, <3>3 DEF last
    <3> QED BY <3>1, <3>4, Zenon DEF last
  <2> QED BY <2>1, Zenon DEF SequenceNumbersUsed
<1>19. SameButFor(t, u, x)
  BY <1>12, Zenon DEF SameButFor
<1> QED
  BY <1>8, <1>11, <1>13, <1>14, <1>15, <1>16, <1>17, <1>18, <1>19, Zenon
    DEF WellFormed, u

\* Delete, successful or refused, keeps a tree well formed.
LEMMA DeleteOK ==
  ASSUME NEW t, NEW K, IsTree(t), WellFormed(t, K),
         NEW request, request.path \in Path,
         NEW txn, txn.instance_id \in Nat,
         request.path \in K
           => DeleteCode(t, request.path, request.version) = "RC_OK"
  PROVE  /\ IsTree(Delete(t, request, txn))
         /\ WellFormed(Delete(t, request, txn), K \ {request.path})
<1>1. CASE DeleteCode(t, request.path, request.version) = "RC_OK"
  BY <1>1, RemoveNodeOK, Zenon DEF Delete
<1>2. CASE DeleteCode(t, request.path, request.version) # "RC_OK"
  <2>1. K \ {request.path} = K
    BY <1>2, Zenon
  <2> QED BY <1>2, <2>1, Zenon DEF Delete
<1> QED BY <1>1, <1>2, Zenon

\* SetData changes neither the type, the owner nor the children counters.
LEMMA WriteNodeOK ==
  ASSUME NEW node \in Node, NEW data \in Data, NEW i \in Nat
  PROVE  /\ WriteNode(node, data, i) \in Node
         /\ WriteNode(node, data, i).type = node.type
         /\ WriteNode(node, data, i).ephemeral_id = node.ephemeral_id
         /\ WriteNode(node, data, i).children_version = node.children_version
         /\ WriteNode(node, data, i).children_num = node.children_num
<1> DEFINE new(v) ==
       [node EXCEPT !.version = v, !.data = data, !.modified_id = i]
<1>1. ASSUME NEW v \in Nat
      PROVE  /\ new(v) \in Node
             /\ new(v).type = node.type
             /\ new(v).ephemeral_id = node.ephemeral_id
             /\ new(v).children_version = node.children_version
             /\ new(v).children_num = node.children_num
  BY Zenon DEF Node
<1>2. node.version + 1 \in Nat
  BY DEF Node
<1>3. WriteNode(node, data, i) = new(node.version + 1)
  BY Zenon DEF WriteNode
<1> HIDE DEF new
<1> QED BY <1>1, <1>2, <1>3

\* SetData, successful or refused, keeps a tree well formed.
LEMMA SetDataOK ==
  ASSUME NEW t, NEW K, IsTree(t), WellFormed(t, K),
         NEW request, request.path \in Path, request.data \in Data,
         NEW txn, txn.instance_id \in Nat
  PROVE  IsTree(SetData(t, request, txn)) /\ WellFormed(SetData(t, request, txn), K)
<1> DEFINE u == SetData(t, request, txn)
           x == request.path
           node == WriteNode(t.nodes[x], request.data, txn.instance_id)
<1>1. CASE SetDataCode(t, request.path, request.version) # "RC_OK"
  BY <1>1, Zenon DEF SetData
<1>2. CASE SetDataCode(t, request.path, request.version) = "RC_OK"
  <2>1. x \in DOMAIN t.nodes /\ t.nodes[x] \in Node
    BY <1>2, Zenon DEF SetDataCode, IsTree, IsMap
  <2>2. /\ node \in Node
        /\ node.type = t.nodes[x].type
        /\ node.ephemeral_id = t.nodes[x].ephemeral_id
        /\ node.children_version = t.nodes[x].children_version
        /\ node.children_num = t.nodes[x].children_num
    BY <2>1, WriteNodeOK, Zenon
  <2>3. IsMap(Put(t.nodes, x, node), Path, Node)
    BY <2>2, PutMap, Zenon DEF IsTree
  <2>4. u = [nodes |-> Put(t.nodes, x, node),
             childrens |-> t.childrens, ephemerals |-> t.ephemerals]
    BY <1>2, Zenon DEF SetData, IsTree
  <2> HIDE DEF node, u
  <2>5. /\ DOMAIN u.nodes = DOMAIN t.nodes
        /\ IsMap(u.nodes, Path, Node)
        /\ \A y \in DOMAIN t.nodes :
             /\ u.nodes[y].type = t.nodes[y].type
             /\ u.nodes[y].ephemeral_id = t.nodes[y].ephemeral_id
             /\ u.nodes[y].children_version = t.nodes[y].children_version
             /\ u.nodes[y].children_num = t.nodes[y].children_num
    BY <2>1, <2>2, <2>3, <2>4, Zenon DEF Put
  <2>6. u.childrens = t.childrens /\ u.ephemerals = t.ephemerals
    BY <2>4, Zenon
  <2>7. IsTree(u)
    BY <2>4, <2>5, <2>6, Zenon DEF IsTree
  <2>8. /\ ParentsLinked(u) /\ ChildrenLinked(u) /\ EphemeralsAreLeaves(u)
        /\ ChildrenCounted(u) /\ SequenceNumbersUsed(u)
    BY <2>5, <2>6, Zenon DEF WellFormed, ParentsLinked, ChildrenLinked,
         EphemeralsAreLeaves, ChildrenCounted, SequenceNumbersUsed
  <2>9. EphemeralsIndexed(u, K)
    BY <2>5, <2>6, Zenon DEF WellFormed, EphemeralsIndexed
  <2> QED BY <2>7, <2>8, <2>9, Zenon DEF WellFormed, u
<1> QED BY <1>1, <1>2, Zenon

\* The first half of KillSession: once the session's set is out of
\* ephemerals_, the tree is well formed but for the paths of that set.
LEMMA ForgetOK ==
  ASSUME NEW t, IsTree(t), WellFormed(t, {}), NEW sid
  PROVE  /\ IsTree(ForgetEphemerals(t, sid))
         /\ WellFormed(ForgetEphemerals(t, sid), EphemeralPaths(t, sid))
<1> DEFINE u == ForgetEphemerals(t, sid)
           K == EphemeralPaths(t, sid)
<1>1. u = [nodes |-> t.nodes, childrens |-> t.childrens,
           ephemerals |-> Erase(t.ephemerals, sid)]
  BY DEF ForgetEphemerals, IsTree
<1>2. IsMap(Erase(t.ephemerals, sid), SessionId, SUBSET Path)
  BY EraseMap, Zenon DEF IsTree
<1> HIDE DEF u
<1>3. IsTree(u)
  BY <1>1, <1>2, Zenon DEF IsTree
<1>4. EphemeralsIndexed(u, K)
  <2>1. /\ DOMAIN u.ephemerals = DOMAIN t.ephemerals \ {sid}
        /\ \A s \in DOMAIN u.ephemerals : u.ephemerals[s] = t.ephemerals[s]
        /\ u.nodes = t.nodes
    BY <1>1, Zenon DEF Erase
  <2>2. EphemeralsIndexed(t, {})
    BY Zenon DEF WellFormed
  <2>3. \A p \in K : sid \in DOMAIN t.ephemerals /\ p \in t.ephemerals[sid]
    BY Zenon DEF EphemeralPaths, SetAt
  <2>4. ASSUME NEW s \in DOMAIN u.ephemerals
        PROVE  /\ u.ephemerals[s] # {}
               /\ \A p \in u.ephemerals[s] :
                    /\ p \in DOMAIN u.nodes \ K
                    /\ u.nodes[p].ephemeral_id = s
    BY <2>1, <2>2, <2>3 DEF EphemeralsIndexed
  <2>5. ASSUME NEW p \in DOMAIN u.nodes
        PROVE  /\ IsEphemeral(u.nodes[p].type) <=> u.nodes[p].ephemeral_id # 0
               /\ (IsEphemeral(u.nodes[p].type) /\ p \notin K)
                    => p \in SetAt(u.ephemerals, u.nodes[p].ephemeral_id)
    BY <2>1, <2>2 DEF EphemeralsIndexed, EphemeralPaths, SetAt
  <2> QED BY <2>4, <2>5, Zenon DEF EphemeralsIndexed
<1>5. /\ ParentsLinked(u) /\ ChildrenLinked(u) /\ EphemeralsAreLeaves(u)
      /\ ChildrenCounted(u) /\ SequenceNumbersUsed(u)
  BY <1>1, Zenon DEF WellFormed, ParentsLinked, ChildrenLinked, EphemeralsAreLeaves,
       ChildrenCounted, SequenceNumbersUsed
<1> QED BY <1>3, <1>4, <1>5, Zenon DEF WellFormed, u

\* The node list of a checkpoint has one member for each path.
LEMMA ListedOK ==
  ASSUME NEW t, NEW p \in DOMAIN t.nodes
  PROVE  Listed(GetDataNodeList(t), p)
           = [path |-> p, node |-> t.nodes[p],
              children |-> SetAt(t.childrens, p)]
<1> DEFINE list == GetDataNodeList(t)
           n == [path |-> p, node |-> t.nodes[p],
                 children |-> SetAt(t.childrens, p)]
<1>1. n \in list /\ n.path = p
  BY Zenon DEF GetDataNodeList
<1>2. \A m \in list : m.path = p => m = n
  BY DEF GetDataNodeList
<1> HIDE DEF list, n
<1>3. (CHOOSE m \in list : m.path = p) = n
  BY <1>1, <1>2, Zenon
<1> QED BY <1>3, Zenon DEF Listed, list, n

\* Recover, started on the tree of a new process, restores the nodes and the
\* ephemerals exactly, and childrens_ without its empty entries.
LEMMA RecoverParts ==
  ASSUME NEW t, IsTree(t), WellFormed(t, {})
  PROVE  LET u == Recover(EmptyTree, GetDataNodeList(t))
         IN  /\ u.nodes = t.nodes
             /\ u.ephemerals = t.ephemerals
             /\ DOMAIN u.childrens = {p \in DOMAIN t.childrens :
                                        t.childrens[p] # {}}
             /\ \A p : SetAt(u.childrens, p) = SetAt(t.childrens, p)
             /\ IsMap(u.childrens, Path, SUBSET Name)
             /\ u = [nodes |-> u.nodes, childrens |-> u.childrens,
                     ephemerals |-> u.ephemerals]
<1> DEFINE list == GetDataNodeList(t)
           u == Recover(EmptyTree, list)
           D == DOMAIN t.nodes
           inner == {p \in D : SetAt(t.childrens, p) # {}}
           owned == {p \in D : t.nodes[p].ephemeral_id > 0}
<1>1. {n.path : n \in list} = D
  <2> DEFINE entry(p) == [path |-> p, node |-> t.nodes[p],
                          children |-> SetAt(t.childrens, p)]
  <2>1. list = {entry(p) : p \in D} /\ \A p \in D : entry(p).path = p
    BY Zenon DEF GetDataNodeList
  <2> HIDE DEF list, entry
  <2> QED BY <2>1, Zenon
<1>2. /\ Root \in D
      /\ \A p \in DOMAIN t.childrens : p \in D
  BY Zenon DEF WellFormed, ParentsLinked, ChildrenLinked
<1>3. \A p \in D : /\ Listed(list, p).node = t.nodes[p]
                   /\ Listed(list, p).children = SetAt(t.childrens, p)
  BY ListedOK
<1> HIDE DEF list
<1>4. /\ {p \in D : Listed(list, p).node.ephemeral_id > 0} = owned
      /\ {p \in D : Listed(list, p).children # {}} = inner
  BY <1>3, Zenon
<1> DEFINE owner(p) == Listed(list, p).node.ephemeral_id
           nodes == [p \in {Root} \cup D |-> IF p \in D THEN Listed(list, p).node
                                             ELSE EmptyTree.nodes[p]]
           childrens == [p \in inner |->
                           {} \cup (IF p \in inner
                                    THEN Listed(list, p).children ELSE {})]
           ephemerals == [s \in {owner(p) : p \in owned} |->
                            {} \cup {p \in owned : owner(p) = s}]
<1>12. u = [nodes |-> nodes, childrens |-> childrens, ephemerals |-> ephemerals]
  BY <1>1, <1>4, Zenon DEF Recover, EmptyTree, EmptyMap, SetAt
<1>5. u.nodes = nodes /\ u.childrens = childrens /\ u.ephemerals = ephemerals
  <2> HIDE DEF u, nodes, childrens, ephemerals
  <2> QED BY <1>12, Zenon
<1>6. u.nodes = t.nodes
  <2>1. u.nodes = nodes  BY <1>5, Zenon
  <2>2. t.nodes = [p \in D |-> t.nodes[p]]  BY Zenon DEF IsTree, IsMap
  <2>3. {Root} \cup D = D  BY <1>2, Zenon
  <2>4. \A p \in D : Listed(list, p).node = t.nodes[p]  BY <1>3, Zenon
  <2> HIDE DEF u, D
  <2>5. nodes = [p \in D |-> t.nodes[p]]  BY <2>3, <2>4, Zenon
  <2> QED BY <2>1, <2>2, <2>5, Zenon
<1>7. u.childrens = [p \in inner |-> SetAt(t.childrens, p)]
  <2>1. u.childrens = childrens  BY <1>5, Zenon
  <2>2. \A p \in inner : Listed(list, p).children = SetAt(t.childrens, p)
    BY <1>3, Zenon
  <2> HIDE DEF u, inner
  <2> QED BY <2>1, <2>2, Zenon
<1>8. u.ephemerals = [s \in {t.nodes[p].ephemeral_id : p \in owned} |->
                        {p \in owned : t.nodes[p].ephemeral_id = s}]
  <2>1. u.ephemerals = ephemerals  BY <1>5, Zenon
  <2>2. \A p \in owned : owner(p) = t.nodes[p].ephemeral_id
    BY <1>3, Zenon
  <2> HIDE DEF u, owned, owner
  <2>3. {owner(p) : p \in owned} = {t.nodes[p].ephemeral_id : p \in owned}
    BY <2>2, Zenon
  <2>4. \A s : {} \cup {p \in owned : owner(p) = s}
               = {p \in owned : t.nodes[p].ephemeral_id = s}
    BY <2>2, Zenon
  <2> QED BY <2>1, <2>3, <2>4, Zenon
<1>9. u.ephemerals = t.ephemerals
  <2>1. \A p \in D : p \in owned <=> IsEphemeral(t.nodes[p].type)
    BY DEF WellFormed, EphemeralsIndexed, IsTree, IsMap, Node
  <2>2. DOMAIN t.ephemerals = {t.nodes[p].ephemeral_id : p \in owned}
    BY <2>1, SessionAssumption
      DEF WellFormed, EphemeralsIndexed, IsTree, IsMap, SetAt
  <2>3. \A s \in DOMAIN t.ephemerals :
          t.ephemerals[s] = {p \in owned : t.nodes[p].ephemeral_id = s}
    BY <2>1, SessionAssumption
      DEF WellFormed, EphemeralsIndexed, IsTree, IsMap, SetAt
  <2>4. t.ephemerals = [s \in DOMAIN t.ephemerals |-> t.ephemerals[s]]
    BY Zenon DEF IsTree, IsMap
  <2> QED BY <1>8, <2>2, <2>3, <2>4, Zenon
<1>10. /\ DOMAIN u.childrens = {p \in DOMAIN t.childrens : t.childrens[p] # {}}
       /\ \A p : SetAt(u.childrens, p) = SetAt(t.childrens, p)
       /\ IsMap(u.childrens, Path, SUBSET Name)
  BY <1>2, <1>7, Zenon DEF IsTree, IsMap, SetAt
<1>11. u = [nodes |-> u.nodes, childrens |-> u.childrens,
            ephemerals |-> u.ephemerals]
  <2> HIDE DEF u, nodes, childrens, ephemerals
  <2> QED BY <1>12, <1>5, Zenon
<1> HIDE DEF u
<1> QED BY <1>6, <1>9, <1>10, <1>11, Zenon DEF u, list

\* A tree recovered from the checkpoint of a well-formed tree is well formed.
LEMMA RecoverOK ==
  ASSUME NEW t, IsTree(t), WellFormed(t, {})
  PROVE  LET u == Recover(EmptyTree, GetDataNodeList(t))
         IN  IsTree(u) /\ WellFormed(u, {})
<1> DEFINE u == Recover(EmptyTree, GetDataNodeList(t))
<1>1. /\ u.nodes = t.nodes
      /\ u.ephemerals = t.ephemerals
      /\ DOMAIN u.childrens = {p \in DOMAIN t.childrens : t.childrens[p] # {}}
      /\ \A p : SetAt(u.childrens, p) = SetAt(t.childrens, p)
      /\ IsMap(u.childrens, Path, SUBSET Name)
      /\ u = [nodes |-> u.nodes, childrens |-> u.childrens,
              ephemerals |-> u.ephemerals]
  BY RecoverParts, Zenon
<1> HIDE DEF u
<1>2. IsTree(u)
  BY <1>1, Zenon DEF IsTree
<1>3. \A p \in DOMAIN u.childrens :
        p \in DOMAIN t.childrens /\ u.childrens[p] = t.childrens[p]
  BY <1>1, Zenon DEF SetAt
<1>4. ChildrenLinked(u) /\ EphemeralsAreLeaves(u)
  BY <1>1, <1>3, Zenon DEF WellFormed, ChildrenLinked, EphemeralsAreLeaves
<1>5. /\ ParentsLinked(u) /\ EphemeralsIndexed(u, {})
      /\ ChildrenCounted(u) /\ SequenceNumbersUsed(u)
  BY <1>1, Zenon DEF WellFormed, ParentsLinked, EphemeralsIndexed, ChildrenCounted,
       SequenceNumbersUsed
<1> QED BY <1>2, <1>4, <1>5, Zenon DEF WellFormed, u

-----------------------------------------------------------------------------
(* The nodes determine the tree, but for empty entries in childrens_.      *)

\* The names of the nodes under p.
Kids(N, p) == {Child(q) : q \in {x \in DOMAIN N \ {Root} : Parent(x) = p}}

\* A tree with these nodes, without an index of the ephemeral ones.
TreeOf(N) ==
  [nodes |-> N,
   childrens |-> [p \in {Parent(q) : q \in DOMAIN N \ {Root}} |-> Kids(N, p)],
   ephemerals |-> EmptyMap]

\* childrens_ has the names of the nodes under each path.
LEMMA KidsOK ==
  ASSUME NEW t, NEW K, IsTree(t), WellFormed(t, K), NEW p
  PROVE  SetAt(t.childrens, p) = Kids(t.nodes, p)
<1>1. ASSUME NEW c \in SetAt(t.childrens, p) PROVE c \in Kids(t.nodes, p)
  <2>1. p \in DOMAIN t.childrens /\ c \in t.childrens[p]
    BY <1>1, Zenon DEF SetAt
  <2>2. p \in Path /\ c \in Name
    BY <2>1, Zenon DEF IsTree, IsMap
  <2>3. Append(p, c) \in DOMAIN t.nodes
    BY <2>1, Zenon DEF WellFormed, ChildrenLinked
  <2> QED BY <2>2, <2>3, AppendParts, Zenon DEF Kids
<1>2. ASSUME NEW c \in Kids(t.nodes, p) PROVE c \in SetAt(t.childrens, p)
  BY <1>2, Zenon DEF Kids, WellFormed, ParentsLinked
<1> QED BY <1>1, <1>2, Zenon

\* So has the tree that is made from the nodes, and nothing else.
LEMMA TreeOfOK ==
  ASSUME NEW N
  PROVE  /\ TreeOf(N).nodes = N
         /\ \A p : SetAt(TreeOf(N).childrens, p) = Kids(N, p)
         /\ \A p : p \in DOMAIN TreeOf(N).childrens <=> Kids(N, p) # {}
<1> DEFINE C == [p \in {Parent(q) : q \in DOMAIN N \ {Root}} |-> Kids(N, p)]
<1>1. TreeOf(N).nodes = N /\ TreeOf(N).childrens = C
  BY Zenon DEF TreeOf
<1>2. \A p : p \in DOMAIN C <=> Kids(N, p) # {}
  BY Zenon DEF Kids
<1>3. \A p \in DOMAIN C : C[p] = Kids(N, p)
  BY Zenon
<1> HIDE DEF C
<1> QED BY <1>1, <1>2, <1>3, Zenon DEF SetAt

\* The three maps, as CheckCreate and SetData replace one of them.
Maps(t) ==
  t = [nodes |-> t.nodes, childrens |-> t.childrens, ephemerals |-> t.ephemerals]

\* Two trees that differ in empty entries at most, and in the index.
Alike(t, u) ==
  /\ Maps(t) /\ Maps(u) /\ t.nodes = u.nodes
  /\ \A p : SetAt(t.childrens, p) = SetAt(u.childrens, p)

NoEmpty(t) == \A p : p \in DOMAIN t.childrens <=> SetAt(t.childrens, p) # {}

\* Create and SetData do the same to two trees with the same nodes and
\* children, whether or not childrens_ has empty entries.
LEMMA SameCreate ==
  ASSUME NEW t, NEW u, Alike(t, u), NEW request, NEW txn
  PROVE  Create(t, request, txn).nodes = Create(u, request, txn).nodes
<1> DEFINE path == request.path
<1>1. ParentCode(t, path) = ParentCode(u, path) /\ NewPath(t, path) = NewPath(u, path)
  BY Zenon DEF Alike, ParentCode, NewPath
<1>2. CreateCode(t, path) = CreateCode(u, path)
  <2>1. \A p, c : ChildCode(t, p, c) = ChildCode(u, p, c)
    BY DEF ChildCode, Alike
  <2> QED BY <1>1, <2>1, Zenon DEF CreateCode
<1>3. CheckCreate(t, path).nodes = CheckCreate(u, path).nodes
  <2>1. \A x : [t EXCEPT !.childrens = x].nodes = t.nodes
    BY Zenon DEF Alike, Maps
  <2>2. \A x : [u EXCEPT !.childrens = x].nodes = u.nodes
    BY Zenon DEF Alike, Maps
  <2> QED BY <1>1, <2>1, <2>2, Zenon DEF Alike, CheckCreate
<1>4. ASSUME NEW q, NEW node, NEW i
      PROVE  InsertNode(t, q, node, i).nodes = InsertNode(u, q, node, i).nodes
  BY Zenon DEF InsertNode, Alike
<1>5. CASE CreateCode(t, path) = "RC_OK"
  <2> DEFINE q == NewPath(t, path)
             i == txn.instance_id
             node == NewNode(request.node_type, request.data, i,
                             IF IsEphemeral(request.node_type) THEN txn.session_id ELSE 0)
  <2>1. Create(t, request, txn) = InsertNode(t, q, node, i)
    BY <1>5, Zenon DEF Create
  <2>2. Create(u, request, txn) = InsertNode(u, q, node, i)
    BY <1>1, <1>2, <1>5, Zenon DEF Create
  <2> HIDE DEF q, i, node
  <2> QED BY <1>4, <2>1, <2>2, Zenon
<1>6. CASE CreateCode(t, path) # "RC_OK"
  BY <1>2, <1>3, <1>6, Zenon DEF Create
<1> QED BY <1>5, <1>6, Zenon

\* SetData does the same to the nodes of two such trees.
\* SetData does the same to the nodes of two such trees.
LEMMA SameSetData ==
  ASSUME NEW t, NEW u, Alike(t, u), NEW request, NEW txn
  PROVE  SetData(t, request, txn).nodes = SetData(u, request, txn).nodes
BY Zenon DEF Alike, Maps, SetData, SetDataCode

\* An empty entry makes Delete refuse a node without children.
Misled(t, request) ==
  /\ DeleteCode(t, request.path, request.version) = "RC_CHILDREN_EXISTS"
  /\ SetAt(t.childrens, request.path) = {}

\* So does Delete, unless it is misled.
LEMMA SameDelete ==
  ASSUME NEW t, NEW u, Alike(t, u), NoEmpty(u), NEW request, NEW txn,
         ~Misled(t, request)
  PROVE  Delete(t, request, txn).nodes = Delete(u, request, txn).nodes
<1> DEFINE path == request.path
           version == request.version
<1>1. DeleteCode(t, path, version) = DeleteCode(u, path, version)
  <2>1. CASE path \in DOMAIN t.childrens /\ path \notin DOMAIN u.childrens
    BY <2>1, Zenon DEF Misled, DeleteCode, ParsePath, Alike, NoEmpty
  <2>2. CASE path \notin DOMAIN t.childrens /\ path \in DOMAIN u.childrens
    BY <2>2, Zenon DEF SetAt, Alike, NoEmpty
  <2>3. CASE path \in DOMAIN t.childrens <=> path \in DOMAIN u.childrens
    BY <2>3, Zenon DEF Alike, DeleteCode
  <2> QED BY <2>1, <2>2, <2>3, Zenon
<1>2. ASSUME NEW i PROVE RemoveNode(t, path, i).nodes = RemoveNode(u, path, i).nodes
  <2>1. \A p, c : (p \in DOMAIN t.childrens /\ c \in t.childrens[p])
                    <=> (p \in DOMAIN u.childrens /\ c \in u.childrens[p])
    BY Zenon DEF SetAt, Alike
  <2> QED BY <2>1, Zenon DEF RemoveNode, Alike
<1> QED BY <1>1, <1>2, Zenon DEF Alike, Delete

\* The nodes determine the whole index of the ephemeral nodes, between kills.
LEMMA SameEphemerals ==
  ASSUME NEW t, NEW u, IsTree(t), IsTree(u), WellFormed(t, {}), WellFormed(u, {}),
         t.nodes = u.nodes
  PROVE  t.ephemerals = u.ephemerals
<1>1. ASSUME NEW x, NEW y, IsTree(x), WellFormed(x, {}), WellFormed(y, {}),
             x.nodes = y.nodes
      PROVE  \A s \in DOMAIN x.ephemerals : /\ s \in DOMAIN y.ephemerals
                                            /\ x.ephemerals[s] \subseteq y.ephemerals[s]
  <2>1. ASSUME NEW s \in DOMAIN x.ephemerals, NEW p \in x.ephemerals[s]
        PROVE  s \in DOMAIN y.ephemerals /\ p \in y.ephemerals[s]
    <3>1. s # 0
      BY <1>1, SessionAssumption, Zenon DEF IsTree, IsMap
    <3>2. p \in DOMAIN y.nodes /\ y.nodes[p].ephemeral_id = s
      <4>1. EphemeralsIndexed(x, {})
        BY <1>1, Zenon DEF WellFormed
      <4> QED BY <1>1, <2>1, <4>1, Zenon DEF EphemeralsIndexed
    <3>3. IsEphemeral(y.nodes[p].type)
      BY <1>1, <3>1, <3>2, Zenon DEF WellFormed, EphemeralsIndexed
    <3>4. p \in SetAt(y.ephemerals, s)
      BY <1>1, <3>2, <3>3, Zenon DEF WellFormed, EphemeralsIndexed
    <3> QED BY <3>4, Zenon DEF SetAt
  <2>2. \A s \in DOMAIN x.ephemerals : x.ephemerals[s] # {}
    BY <1>1, Zenon DEF WellFormed, EphemeralsIndexed
  <2> QED BY <2>1, <2>2, Zenon
<1>2. DOMAIN t.ephemerals = DOMAIN u.ephemerals
  BY <1>1, Zenon
<1>3. \A s \in DOMAIN t.ephemerals : t.ephemerals[s] = u.ephemerals[s]
  <2>1. /\ \A s \in DOMAIN t.ephemerals : t.ephemerals[s] \subseteq u.ephemerals[s]
        /\ \A s \in DOMAIN u.ephemerals : u.ephemerals[s] \subseteq t.ephemerals[s]
    BY <1>1, Zenon
  <2> QED BY <1>2, <2>1, Zenon
<1>4. /\ t.ephemerals = [s \in DOMAIN t.ephemerals |-> t.ephemerals[s]]
      /\ u.ephemerals = [s \in DOMAIN u.ephemerals |-> u.ephemerals[s]]
  BY Zenon DEF IsTree, IsMap
<1> QED BY <1>2, <1>3, <1>4, Zenon
-----------------------------------------------------------------------------
(* The deletion of several leaves, in any order.                           *)

\* A node with the children kids after it has lost some of them, one by one.
Bereft(node, kids, lost, i) ==
  IF lost = {} THEN node
  ELSE [type |-> node.type, data |-> node.data, version |-> node.version,
        children_version |-> node.children_version + Cardinality(lost),
        children_num |-> Cardinality(kids \ lost),
        created_id |-> node.created_id, modified_id |-> node.modified_id,
        children_id |-> i, ephemeral_id |-> node.ephemeral_id]

\* The nodes that are left when those of K, which are leaves, are deleted.
KillAll(N, K, i) ==
  [q \in DOMAIN N \ K |->
     Bereft(N[q], Kids(N, q), {c \in Kids(N, q) : Append(q, c) \in K}, i)]

\* No deletion changes nothing.
LEMMA KillNone ==
  ASSUME NEW N, N = [q \in DOMAIN N |-> N[q]], NEW i
  PROVE  KillAll(N, {}, i) = N
<1>1. DOMAIN N \ {} = DOMAIN N
  BY Zenon
<1>2. \A q : {c \in Kids(N, q) : Append(q, c) \in {}} = {}
  BY Zenon
<1> QED BY <1>1, <1>2, Zenon DEF KillAll, Bereft

\* One child and then the others, or all of them.
LEMMA BereftOnce ==
  ASSUME NEW node \in Node, NEW kids, IsFiniteSet(kids),
         NEW lost \in SUBSET kids, NEW c \in lost, NEW i \in Nat
  PROVE  Bereft(TouchParent(node, kids \ {c}, i), kids \ {c}, lost \ {c}, i)
           = Bereft(node, kids, lost, i)
<1> DEFINE rest == lost \ {c}
           n == Cardinality(kids \ {c})
           v == node.children_version
           w == TouchParent(node, kids \ {c}, i)
<1>1. IsFiniteSet(lost) /\ Cardinality(lost) = Cardinality(rest) + 1
      /\ Cardinality(rest) \in Nat
  <2>1. IsFiniteSet(lost)
    BY FS_Subset, Zenon
  <2>2. IsFiniteSet(rest) /\ Cardinality(rest) = Cardinality(lost) - 1
        /\ Cardinality(lost) \in Nat
    BY <2>1, FS_RemoveElement, FS_CardinalityType, Zenon
  <2>3. Cardinality(rest) \in Nat
    BY <2>2, FS_CardinalityType, Zenon
  <2> HIDE DEF rest
  <2> QED BY <2>1, <2>2, <2>3
<1>2. /\ w.type = node.type /\ w.data = node.data /\ w.version = node.version
      /\ w.children_version = v + 1 /\ w.children_num = n /\ w.children_id = i
      /\ w.created_id = node.created_id /\ w.modified_id = node.modified_id
      /\ w.ephemeral_id = node.ephemeral_id /\ w \in Node
  <2>1. n \in Nat
    BY FS_RemoveElement, FS_CardinalityType, Zenon
  <2>2. /\ w \in Node /\ w.type = node.type /\ w.ephemeral_id = node.ephemeral_id
        /\ w.children_version = v + 1 /\ w.children_num = n
    BY <2>1, TouchParentOK, Zenon
  <2>3. /\ w.data = node.data /\ w.version = node.version /\ w.children_id = i
        /\ w.created_id = node.created_id /\ w.modified_id = node.modified_id
    BY Zenon DEF TouchParent, Node
  <2> QED BY <2>2, <2>3, Zenon
<1> HIDE DEF w
<1>3. (kids \ {c}) \ rest = kids \ lost /\ lost # {}
  BY Zenon
<1>4. v \in Nat
  BY Zenon DEF Node
<1>5. CASE rest = {}
  <2>1. Cardinality(rest) = 0
    BY <1>5, FS_EmptySet, Zenon
  <2>2. v + Cardinality(lost) = v + 1
    BY <1>1, <2>1
  <2>3. kids \ lost = kids \ {c}
    BY <1>5, Zenon
  <2>4. ASSUME NEW x \in Node
        PROVE  x = [type |-> x.type, data |-> x.data, version |-> x.version,
                    children_version |-> x.children_version,
                    children_num |-> x.children_num,
                    created_id |-> x.created_id, modified_id |-> x.modified_id,
                    children_id |-> x.children_id, ephemeral_id |-> x.ephemeral_id]
    BY Zenon DEF Node
  <2>5. w = [type |-> w.type, data |-> w.data, version |-> w.version,
             children_version |-> w.children_version,
             children_num |-> w.children_num,
             created_id |-> w.created_id, modified_id |-> w.modified_id,
             children_id |-> w.children_id, ephemeral_id |-> w.ephemeral_id]
    BY <1>2, <2>4, Zenon
  <2>6. w = Bereft(node, kids, lost, i)
    BY <1>2, <1>3, <2>2, <2>3, <2>5, Zenon DEF Bereft
  <2> QED BY <1>5, <2>6, Zenon DEF Bereft, w
<1>6. CASE rest # {}
  <2>1. (v + 1) + Cardinality(rest) = v + Cardinality(lost)
    <3> HIDE DEF rest, v
    <3> QED BY <1>1, <1>4
  <2>2. Bereft(w, kids \ {c}, rest, i) = Bereft(node, kids, lost, i)
    <3> HIDE DEF rest, n
    <3> QED BY <1>2, <1>3, <1>6, <2>1, Zenon DEF Bereft
  <2> QED BY <2>2, Zenon DEF w
<1> QED BY <1>5, <1>6, Zenon

\* A set of ephemeral nodes can be deleted one by one.
LEMMA KillOne ==
  ASSUME NEW t, NEW K, IsTree(t), WellFormed(t, K), NEW L, NEW x \in L, NEW i \in Nat,
         \A p \in L : p \in DOMAIN t.nodes /\ IsEphemeral(t.nodes[p].type)
  PROVE  KillAll(RemoveNode(t, x, i).nodes, L \ {x}, i) = KillAll(t.nodes, L, i)
<1> DEFINE N == t.nodes
           p == Parent(x)
           c == Child(x)
           M == RemoveNode(t, x, i).nodes
           LostN(q) == {d \in Kids(N, q) : Append(q, d) \in L}
           LostM(q) == {d \in Kids(M, q) : Append(q, d) \in L \ {x}}
<1>1. x \in Path /\ x # Root /\ x \notin DOMAIN t.childrens /\ p \in DOMAIN N
      /\ c \in Kids(N, p)
  <2>1. x \in DOMAIN N /\ IsEphemeral(N[x].type)
    BY Zenon
  <2>2. x \in Path
    BY <2>1, Zenon DEF IsTree, IsMap
  <2>3. x # Root /\ x \notin DOMAIN t.childrens
    BY <2>1, Zenon DEF WellFormed, ParentsLinked, EphemeralsAreLeaves
  <2>4. p \in DOMAIN N /\ c \in SetAt(t.childrens, p)
    BY <2>1, <2>3, Zenon DEF WellFormed, ParentsLinked
  <2>5. c \in Kids(N, p)
    BY <2>4, KidsOK, Zenon
  <2> QED BY <2>2, <2>3, <2>4, <2>5, Zenon
<1>2. p \in Path /\ c \in Name /\ x = Append(p, c) /\ p # x
  <2>1. p \in Path /\ c \in Name /\ x = Append(p, c)
    BY <1>1, PathParts, Zenon
  <2>2. Len(p) # Len(Append(p, c))
    BY <2>1 DEF Path
  <2> QED BY <2>1, <2>2, Zenon
<1>3. /\ SetAt(t.childrens, p) = Kids(N, p) /\ IsFiniteSet(Kids(N, p))
      /\ N[p] \in Node
  <2>1. SetAt(t.childrens, p) = Kids(N, p)
    BY KidsOK, Zenon
  <2>2. IsFiniteSet(SetAt(t.childrens, p))
    BY <1>1, Zenon DEF WellFormed, ChildrenCounted
  <2> QED BY <1>1, <2>1, <2>2, Zenon DEF IsTree, IsMap
<1>4. /\ DOMAIN M = DOMAIN N \ {x}
      /\ M[p] = TouchParent(N[p], Kids(N, p) \ {c}, i)
      /\ \A q \in DOMAIN N \ {x, p} : M[q] = N[q]
  <2>1. p \in DOMAIN Erase(N, x) /\ p \in DOMAIN t.childrens /\ c \in t.childrens[p]
    BY <1>1, <1>2, <1>3, Zenon DEF Erase, SetAt
  <2>2. M = [Erase(N, x) EXCEPT ![p] = TouchParent(@, Kids(N, p) \ {c}, i)]
    BY <1>3, <2>1, Zenon DEF RemoveNode
  <2>3. DOMAIN Erase(N, x) = DOMAIN N \ {x} /\ \A q \in DOMAIN N \ {x} : Erase(N, x)[q] = N[q]
    BY Zenon DEF Erase
  <2> HIDE DEF M, N, p, c
  <2> QED BY <2>1, <2>2, <2>3, Zenon
<1> HIDE DEF M
<1>5. Kids(M, p) = Kids(N, p) \ {c}
  <2>1. \A q \in DOMAIN N \ {Root} : Parent(q) = p /\ Child(q) = c => q = x
    BY <1>1, <1>2, PathParts, Zenon DEF IsTree, IsMap
  <2> HIDE DEF p, c, N
  <2>2. ASSUME NEW d \in Kids(M, p) PROVE d \in Kids(N, p) /\ d # c
    <3>1. PICK q \in DOMAIN M \ {Root} : Parent(q) = p /\ Child(q) = d
      BY Zenon DEF Kids
    <3> QED BY <1>4, <2>1, <3>1, Zenon DEF Kids
  <2>3. ASSUME NEW d \in Kids(N, p), d # c PROVE d \in Kids(M, p)
    <3>1. PICK q \in DOMAIN N \ {Root} : Parent(q) = p /\ Child(q) = d
      BY Zenon DEF Kids
    <3>2. q # x
      BY <2>3, <3>1, Zenon DEF p, c
    <3> QED BY <1>4, <3>1, <3>2, Zenon DEF Kids
  <2> QED BY <2>2, <2>3, Zenon
<1>6. ASSUME NEW q, q # p PROVE Kids(M, q) = Kids(N, q)
  BY <1>4, <1>6, Zenon DEF Kids
<1>7. DOMAIN M \ (L \ {x}) = DOMAIN N \ L /\ p \notin L
  <2>1. p \notin L
    <3>1. p \in DOMAIN t.childrens
      BY <1>1, <1>3, Zenon DEF SetAt
    <3> QED BY <3>1, Zenon DEF WellFormed, EphemeralsAreLeaves
  <2> QED BY <1>4, <2>1, Zenon
<1>8. ASSUME NEW q \in DOMAIN N \ L
      PROVE  Bereft(M[q], Kids(M, q), LostM(q), i) = Bereft(N[q], Kids(N, q), LostN(q), i)
  <2>1. CASE q = p
    <3>1. LostM(p) = LostN(p) \ {c}
      <4>1. SetAt(t.childrens, p) \subseteq Name
        BY Zenon DEF IsTree, IsMap, SetAt
      <4> HIDE DEF N, p, c
      <4>2. \A d \in Kids(N, p) : d \in Name /\ (Append(p, d) = x => d = c)
        <5>1. \A d \in Name : Child(Append(p, d)) = d
          BY <1>2, AppendParts, Zenon
        <5> QED BY <1>2, <1>3, <4>1, <5>1, Zenon
      <4> QED BY <1>2, <1>5, <4>2, Zenon
    <3>2. c \in LostN(p) /\ LostN(p) \in SUBSET Kids(N, p)
      BY <1>1, <1>2, Zenon
    <3> HIDE DEF LostN, LostM, N, p, c
    <3>3. Bereft(TouchParent(N[p], Kids(N, p) \ {c}, i), Kids(N, p) \ {c}, LostN(p) \ {c}, i)
            = Bereft(N[p], Kids(N, p), LostN(p), i)
      BY <1>3, <3>2, BereftOnce, Zenon
    <3> QED BY <1>4, <1>5, <2>1, <3>1, <3>3, Zenon
  <2>2. CASE q # p
    <3>1. M[q] = N[q]
      BY <1>4, <2>2, Zenon
    <3>2. LostM(q) = LostN(q)
      <4>1. \A d \in Kids(N, q) : Append(q, d) # x
        <5> SUFFICES ASSUME NEW d \in Kids(N, q), Append(q, d) = x PROVE FALSE
          BY Zenon
        <5>1. d \in SetAt(t.childrens, q)
          BY KidsOK, Zenon
        <5>2. q \in Path /\ d \in Name
          BY <5>1, Zenon DEF SetAt, IsTree, IsMap
        <5> QED BY <2>2, <5>2, AppendParts, Zenon
      <4>2. Kids(M, q) = Kids(N, q)
        BY <1>6, <2>2, Zenon
      <4> HIDE DEF N
      <4> QED BY <4>1, <4>2, Zenon
    <3> QED BY <1>6, <2>2, <3>1, <3>2, Zenon
  <2> QED BY <2>1, <2>2, Zenon
<1>9. /\ KillAll(M, L \ {x}, i) = [q \in DOMAIN M \ (L \ {x}) |->
                                    Bereft(M[q], Kids(M, q), LostM(q), i)]
      /\ KillAll(N, L, i) = [q \in DOMAIN N \ L |->
                               Bereft(N[q], Kids(N, q), LostN(q), i)]
  BY Zenon DEF KillAll
<1> HIDE DEF N, LostM, LostN
<1>10. KillAll(M, L \ {x}, i) = KillAll(N, L, i)
  BY <1>7, <1>8, <1>9, Zenon
<1> QED BY <1>10, Zenon DEF M, N
=============================================================================
