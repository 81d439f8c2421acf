----------------------- MODULE DataTreeWatchesProofs -----------------------
(***************************************************************************)
(* What holds of the watches of a tree for any number of sessions, every   *)
(* set of paths and writes and every interleaving of reads, writes and     *)
(* triggers.                                                               *)
(***************************************************************************)
EXTENDS DataTreeWatches, DataTreeProofs

\* Two maps with the types of path_to_watches_ and watch_to_paths_, no empty
\* sets, and the same pairs are those of a manager.
LEMMA SamePairs ==
  ASSUME NEW f, NEW g, IsMap(f, Path, SUBSET Watcher),
         IsMap(g, Watcher, SUBSET Path),
         \A p \in DOMAIN f : f[p] # {},
         \A w \in DOMAIN g : g[w] # {},
         \A p, w : w \in SetAt(f, p) <=> p \in SetAt(g, w)
  PROVE  LET m == [path_to_watches |-> f, watch_to_paths |-> g]
         IN  IsWatches(m) /\ InverseMaps(m)
BY Zenon DEF IsWatches, InverseMaps, SetAt

\* And the other way round: a manager's maps have the same pairs.
LEMMA Pairs ==
  ASSUME NEW m, IsWatches(m), InverseMaps(m)
  PROVE  /\ \A p, w : w \in SetAt(m.path_to_watches, p)
                      <=> p \in SetAt(m.watch_to_paths, w)
         /\ \A p \in DOMAIN m.path_to_watches : m.path_to_watches[p] # {}
         /\ \A w \in DOMAIN m.watch_to_paths : m.watch_to_paths[w] # {}
         /\ IsMap(m.path_to_watches, Path, SUBSET Watcher)
         /\ IsMap(m.watch_to_paths, Watcher, SUBSET Path)
BY Zenon DEF IsWatches, InverseMaps, SetAt

\* The manager of a new tree is empty.
LEMMA NoWatchesOK ==
  IsWatches(NoWatches) /\ InverseMaps(NoWatches)
BY Zenon DEF NoWatches, IsWatches, InverseMaps, IsMap, EmptyMap

\* AddWatcher keeps the maps inverse and registers the watcher for the path.
LEMMA AddWatcherOK ==
  ASSUME NEW m, IsWatches(m), InverseMaps(m), NEW path \in Path, NEW w \in Watcher
  PROVE  LET n == AddWatcher(m, path, w)
         IN  /\ IsWatches(n) /\ InverseMaps(n)
             /\ \A p : p # path => Triggered(n, p) = Triggered(m, p)
             /\ Triggered(n, path) = Triggered(m, path) \cup {w}
             /\ DOMAIN n.watch_to_paths = DOMAIN m.watch_to_paths \cup {w}
<1> DEFINE f == m.path_to_watches
           g == m.watch_to_paths
           F == Put(f, path, SetAt(f, path) \cup {w})
           G == Put(g, w, SetAt(g, w) \cup {path})
           n == AddWatcher(m, path, w)
<1>1. n = [path_to_watches |-> F, watch_to_paths |-> G]
  BY Zenon DEF AddWatcher
<1>2. /\ \A p, v : v \in SetAt(f, p) <=> p \in SetAt(g, v)
      /\ \A p \in DOMAIN f : f[p] # {}
      /\ \A v \in DOMAIN g : g[v] # {}
      /\ IsMap(f, Path, SUBSET Watcher)
      /\ IsMap(g, Watcher, SUBSET Path)
  BY Pairs, Zenon
<1> HIDE DEF f, g
<1>3. /\ SetAt(f, path) \cup {w} \in SUBSET Watcher
      /\ SetAt(g, w) \cup {path} \in SUBSET Path
  BY <1>2 DEF IsMap, SetAt
<1>4. IsMap(F, Path, SUBSET Watcher) /\ IsMap(G, Watcher, SUBSET Path)
  BY <1>2, <1>3, PutMap, Zenon
<1>5. /\ SetAt(F, path) = SetAt(f, path) \cup {w}
      /\ \A p : p # path => SetAt(F, p) = SetAt(f, p)
      /\ SetAt(G, w) = SetAt(g, w) \cup {path}
      /\ \A v : v # w => SetAt(G, v) = SetAt(g, v)
      /\ DOMAIN G = DOMAIN g \cup {w}
  BY Zenon DEF SetAt, Put
<1>6. /\ \A p \in DOMAIN F : F[p] # {}
      /\ \A v \in DOMAIN G : G[v] # {}
  BY <1>2, Zenon DEF Put
<1> HIDE DEF F, G
<1>7. \A p, v : v \in SetAt(F, p) <=> p \in SetAt(G, v)
  BY <1>2, <1>5
<1>8. IsWatches(n) /\ InverseMaps(n)
  BY <1>1, <1>4, <1>6, <1>7, SamePairs, Zenon
<1> QED BY <1>1, <1>5, <1>8 DEF Triggered, f, g

\* RemoveWatcher keeps the maps inverse and leaves nothing of the watcher.
LEMMA RemoveWatcherOK ==
  ASSUME NEW m, IsWatches(m), InverseMaps(m), NEW w
  PROVE  LET n == RemoveWatcher(m, w)
         IN  /\ IsWatches(n) /\ InverseMaps(n)
             /\ \A p : Triggered(n, p) = Triggered(m, p) \ {w}
             /\ DOMAIN n.watch_to_paths = DOMAIN m.watch_to_paths \ {w}
<1> DEFINE f == m.path_to_watches
           g == m.watch_to_paths
           F == Discard(f, g[w], w)
           G == Erase(g, w)
           n == RemoveWatcher(m, w)
<1>1. /\ \A p, v : v \in SetAt(f, p) <=> p \in SetAt(g, v)
      /\ \A p \in DOMAIN f : f[p] # {}
      /\ \A v \in DOMAIN g : g[v] # {}
      /\ IsMap(f, Path, SUBSET Watcher)
      /\ IsMap(g, Watcher, SUBSET Path)
  BY Pairs, Zenon
<1>2. CASE w \notin DOMAIN g
  <2>1. n = m
    BY <1>2, Zenon DEF RemoveWatcher
  <2>2. \A p : w \notin SetAt(f, p)
    BY <1>1, <1>2, Zenon DEF SetAt
  <2> QED BY <1>2, <2>1, <2>2, Zenon DEF Triggered
<1>3. CASE w \in DOMAIN g
  <2>1. n = [path_to_watches |-> F, watch_to_paths |-> G]
    BY <1>3, Zenon DEF RemoveWatcher
  <2> HIDE DEF f, g
  <2>2. /\ IsMap(F, Path, SUBSET Watcher)
        /\ \A p \in g[w] : SetAt(F, p) = SetAt(f, p) \ {w}
        /\ \A p : p \notin g[w] => SetAt(F, p) = SetAt(f, p)
    BY <1>1, Zenon DEF IsMap, Discard, SetAt
  <2>3. /\ IsMap(G, Watcher, SUBSET Path)
        /\ DOMAIN G = DOMAIN g \ {w}
        /\ \A v : v # w => SetAt(G, v) = SetAt(g, v)
        /\ SetAt(G, w) = {}
    BY <1>1, Zenon DEF IsMap, Erase, SetAt
  <2>4. \A p : SetAt(F, p) = SetAt(f, p) \ {w}
    BY <1>1, <1>3, <2>2, Zenon DEF SetAt
  <2>5. /\ \A p \in DOMAIN F : F[p] # {}
        /\ \A v \in DOMAIN G : G[v] # {}
    BY <1>1, Zenon DEF Discard, Erase
  <2> HIDE DEF F, G, n
  <2>6. \A p, v : v \in SetAt(F, p) <=> p \in SetAt(G, v)
    BY <1>1, <2>3, <2>4
  <2>7. IsWatches(n) /\ InverseMaps(n)
    BY <2>1, <2>2, <2>3, <2>5, <2>6, SamePairs, Zenon
  <2> QED BY <2>1, <2>3, <2>4, <2>7 DEF Triggered, f, g, n
<1> QED BY <1>2, <1>3, Zenon

\* TriggerWatcher keeps the maps inverse and takes the watchers of the path,
\* and only those, off it.
LEMMA TriggerWatcherOK ==
  ASSUME NEW m, IsWatches(m), InverseMaps(m), NEW path
  PROVE  LET n == TriggerWatcher(m, path)
         IN  /\ IsWatches(n) /\ InverseMaps(n)
             /\ \A p : p # path => Triggered(n, p) = Triggered(m, p)
             /\ DOMAIN n.watch_to_paths \subseteq DOMAIN m.watch_to_paths
<1> DEFINE f == m.path_to_watches
           g == m.watch_to_paths
           F == Erase(f, path)
           G == Discard(g, f[path], path)
           n == TriggerWatcher(m, path)
<1>1. /\ \A p, v : v \in SetAt(f, p) <=> p \in SetAt(g, v)
      /\ \A p \in DOMAIN f : f[p] # {}
      /\ \A v \in DOMAIN g : g[v] # {}
      /\ IsMap(f, Path, SUBSET Watcher)
      /\ IsMap(g, Watcher, SUBSET Path)
  BY Pairs, Zenon
<1>2. CASE path \notin DOMAIN f
  BY <1>2, Zenon DEF TriggerWatcher
<1>3. CASE path \in DOMAIN f
  <2>1. n = [path_to_watches |-> F, watch_to_paths |-> G]
    BY <1>3, Zenon DEF TriggerWatcher
  <2> HIDE DEF f, g
  <2>2. /\ IsMap(G, Watcher, SUBSET Path)
        /\ DOMAIN G \subseteq DOMAIN g
        /\ \A v \in f[path] : SetAt(G, v) = SetAt(g, v) \ {path}
        /\ \A v : v \notin f[path] => SetAt(G, v) = SetAt(g, v)
    BY <1>1, Zenon DEF IsMap, Discard, SetAt
  <2>3. /\ IsMap(F, Path, SUBSET Watcher)
        /\ \A p : p # path => SetAt(F, p) = SetAt(f, p)
        /\ SetAt(F, path) = {}
    BY <1>1, Zenon DEF IsMap, Erase, SetAt
  <2>4. \A v : SetAt(G, v) = SetAt(g, v) \ {path}
    BY <1>1, <1>3, <2>2, Zenon DEF SetAt
  <2>5. /\ \A p \in DOMAIN F : F[p] # {}
        /\ \A v \in DOMAIN G : G[v] # {}
    BY <1>1, Zenon DEF Discard, Erase
  <2> HIDE DEF F, G, n
  <2>6. \A p, v : v \in SetAt(F, p) <=> p \in SetAt(G, v)
    BY <1>1, <2>3, <2>4
  <2>7. IsWatches(n) /\ InverseMaps(n)
    BY <2>1, <2>2, <2>3, <2>5, <2>6, SamePairs, Zenon
  <2> QED BY <2>1, <2>2, <2>3, <2>7 DEF Triggered, f, g, n
<1> QED BY <1>2, <1>3, Zenon
-----------------------------------------------------------------------------
\* The Stat that a change of the children writes into the parent is not what
\* a data watch is about.
LEMMA TouchKeepsView ==
  ASSUME NEW node \in Node, NEW kids, NEW i
  PROVE  LET n == TouchParent(node, kids, i)
         IN  /\ n.created_id = node.created_id
             /\ n.version = node.version
             /\ n.data = node.data
BY Zenon DEF TouchParent, Node

\* A data watch sees a node that has the same created_id, version and data
\* as the same.
LEMMA SameDataView ==
  ASSUME NEW t, NEW u, NEW p,
         p \in DOMAIN t.nodes <=> p \in DOMAIN u.nodes,
         p \in DOMAIN t.nodes =>
           /\ u.nodes[p].created_id = t.nodes[p].created_id
           /\ u.nodes[p].version = t.nodes[p].version
           /\ u.nodes[p].data = t.nodes[p].data
  PROVE  DataView(u, p) = DataView(t, p)
BY Zenon DEF DataView

\* Create changes what a data watch sees at the new path only, and what a
\* child watch sees at its parent only; one that fails changes neither.
LEMMA CreateViews ==
  ASSUME NEW t, IsTree(t), WellFormed(t, {}),
         NEW args, args.path \in Path, NEW txn
  PROVE  LET u == Create(t, args, txn)
             q == NewPath(t, args.path)
             ok == CreateCode(t, args.path) = "RC_OK"
         IN  \A p : /\ ~ok \/ p # q => DataView(u, p) = DataView(t, p)
                    /\ ~ok \/ p # Parent(q) => ChildView(u, p) = ChildView(t, p)
<1> DEFINE u == Create(t, args, txn)
           q == NewPath(t, args.path)
           ok == CreateCode(t, args.path) = "RC_OK"
<1>1. CASE ~ok
  <2>1. /\ u.nodes = t.nodes
        /\ \A p : SetAt(u.childrens, p) = SetAt(t.childrens, p)
    BY <1>1, Zenon DEF Create, CheckCreate, IsTree, Put, SetAt
  <2> HIDE DEF u, ok
  <2> QED BY <1>1, <2>1, Zenon DEF DataView, ChildView, u, ok
<1>2. CASE ok
  <2> DEFINE r == Parent(q)
             kids == SetAt(t.childrens, r) \cup {Child(q)}
             i == txn.instance_id
             n == TouchParent(t.nodes[r], kids, i)
  <2>1. r \in DOMAIN t.nodes /\ t.nodes[r] \in Node
    BY <1>2, NewPathOK, Zenon DEF IsTree, IsMap
  <2>2. \E node : /\ u.nodes = Put([t.nodes EXCEPT ![r] = n], q, node)
                  /\ u.childrens = Put(t.childrens, r, kids)
    BY <1>2, Zenon DEF Create, InsertNode
  <2>3. /\ n.created_id = t.nodes[r].created_id
        /\ n.version = t.nodes[r].version
        /\ n.data = t.nodes[r].data
    BY <2>1, TouchKeepsView
  <2> HIDE DEF u, q, ok, n, r, kids
  <2>4. \A p : p # r => SetAt(u.childrens, p) = SetAt(t.childrens, p)
    BY <2>2, Zenon DEF Put, SetAt
  <2>5. /\ DOMAIN u.nodes = DOMAIN t.nodes \cup {q}
        /\ \A p \in DOMAIN t.nodes \ {q} :
             u.nodes[p] = IF p = r THEN n ELSE t.nodes[p]
    BY <2>2, Zenon DEF Put
  <2>6. \A p : p # q => DataView(u, p) = DataView(t, p)
    BY <2>3, <2>5, SameDataView
  <2> QED BY <1>2, <2>4, <2>6, Zenon DEF ChildView, u, q, ok, r
<1> QED BY <1>1, <1>2, Zenon

\* Delete changes what a data watch sees at the deleted path only, and what
\* a child watch sees at its parent only.
LEMMA DeleteViews ==
  ASSUME NEW t, IsTree(t), NEW args, args.path \in Path, NEW txn
  PROVE  LET u == Delete(t, args, txn)
             x == args.path
             ok == DeleteCode(t, x, args.version) = "RC_OK"
         IN  \A p : /\ ~ok \/ p # x => DataView(u, p) = DataView(t, p)
                    /\ ~ok \/ p # Parent(x) => ChildView(u, p) = ChildView(t, p)
<1> DEFINE u == Delete(t, args, txn)
           x == args.path
           ok == DeleteCode(t, x, args.version) = "RC_OK"
<1>1. CASE ~ok
  BY <1>1, Zenon DEF Delete
<1>2. CASE ok
  <2> DEFINE r == Parent(x)
             kids == SetAt(t.childrens, r) \ {Child(x)}
             i == txn.instance_id
             nodes == Erase(t.nodes, x)
             n == TouchParent(nodes[r], kids, i)
  <2>1. u = RemoveNode(t, x, i)
    BY <1>2, Zenon DEF Delete
  <2>2. /\ \/ u.nodes = nodes
           \/ r \in DOMAIN nodes /\ u.nodes = [nodes EXCEPT ![r] = n]
        /\ \/ u.childrens = t.childrens
           \/ u.childrens = Erase(t.childrens, r)
           \/ u.childrens = Put(t.childrens, r, kids)
    BY <2>1 DEF RemoveNode
  <2>3. /\ DOMAIN nodes = DOMAIN t.nodes \ {x}
        /\ \A p \in DOMAIN nodes : nodes[p] = t.nodes[p] /\ nodes[p] \in Node
    BY Zenon DEF IsTree, IsMap, Erase
  <2> HIDE DEF nodes
  <2>4. r \in DOMAIN nodes => /\ n.created_id = nodes[r].created_id
                              /\ n.version = nodes[r].version
                              /\ n.data = nodes[r].data
    BY <2>3, TouchKeepsView
  <2> HIDE DEF u, x, ok, n, r, kids
  <2>5. \A p : p # r => SetAt(u.childrens, p) = SetAt(t.childrens, p)
    BY <2>2, Zenon DEF Put, Erase, SetAt
  <2>6. /\ DOMAIN u.nodes = DOMAIN nodes
        /\ \A p \in DOMAIN nodes : \/ u.nodes[p] = nodes[p]
                                   \/ p = r /\ u.nodes[p] = n
    BY <2>2, Zenon
  <2>7. \A p : p # x => DataView(u, p) = DataView(t, p)
    BY <2>3, <2>4, <2>6, SameDataView
  <2> QED BY <1>2, <2>5, <2>7, Zenon DEF ChildView, u, x, ok, r
<1> QED BY <1>1, <1>2, Zenon

\* SetData changes what a data watch sees at its path only, and nothing that
\* a child watch sees.
LEMMA SetDataViews ==
  ASSUME NEW t, IsTree(t), NEW args, args.path \in Path, NEW txn
  PROVE  LET u == SetData(t, args, txn)
             x == args.path
             ok == SetDataCode(t, x, args.version) = "RC_OK"
         IN  \A p : /\ ~ok \/ p # x => DataView(u, p) = DataView(t, p)
                    /\ ChildView(u, p) = ChildView(t, p)
<1> DEFINE u == SetData(t, args, txn)
           x == args.path
           ok == SetDataCode(t, x, args.version) = "RC_OK"
<1>1. CASE ~ok
  BY <1>1, Zenon DEF SetData
<1>2. CASE ok
  <2>1. /\ u.childrens = t.childrens
        /\ DOMAIN u.nodes = DOMAIN t.nodes
        /\ \A p \in DOMAIN t.nodes \ {x} : u.nodes[p] = t.nodes[p]
    BY <1>2, Zenon DEF SetData, SetDataCode, Put, IsTree
  <2> HIDE DEF u, x, ok
  <2> QED BY <1>2, <2>1, SameDataView DEF ChildView, u, x, ok
<1> QED BY <1>1, <1>2, Zenon
-----------------------------------------------------------------------------
(* The inductive invariant.                                                *)

\* What is known of one watcher besides the types.  WatchNeverMisses alone
\* is not inductive: a running Exists is already registered unless an event
\* came before it has read, and no watch is on the root, for whose children
\* there are no events.  A session that is going is off the first manager
\* before it is off the second, and unless it is stray nothing runs for it.
Cared(w) ==
  /\ request[w].op \in {"Exists", "GetData", "GetChildren"}
       => request[w].path # Root
  /\ object[w].life = "alive" /\ ~request[w].told
       /\ (Watching(w) \/ (request[w].running /\ request[w].op = "Exists"))
       => Armed(w)
  /\ Watching(w) /\ ~request[w].told
       => View(w) = request[w].base \/ TriggerPending(w)
  /\ object[w].life # "alive" /\ ~object[w].stray
       => /\ ~request[w].running /\ ~object[w].queued
          /\ w \notin DOMAIN data_watches.watch_to_paths
  /\ object[w].life = "gone" /\ ~object[w].stray
       => w \notin DOMAIN child_watches.watch_to_paths

\* The type of request[w].
Asked(r) ==
  r \in [op : Op, path : Path, running : BOOLEAN, base : {r.base},
         told : BOOLEAN]

IInv ==
  /\ TypeOK
  /\ WellFormed(tree, {})
  /\ WatchMapsInverse
  /\ \A w \in Watcher : Asked(request[w]) /\ Cared(w)

\* For the watchers other than w the manager n is what m was.
SameForOthers(m, n, w) ==
  \A v \in Watcher \ {w} :
    /\ \A p : v \in Triggered(n, p) <=> v \in Triggered(m, p)
    /\ v \notin DOMAIN m.watch_to_paths => v \notin DOMAIN n.watch_to_paths

\* A tree starts with no watches and no requests.
LEMMA InitOK == Init => IInv
<1> SUFFICES ASSUME Init PROVE IInv
  BY Zenon
<1>1. IsTree(tree) /\ WellFormed(tree, {})
  BY EmptyTreeOK, Zenon DEF Init
<1>2. /\ IsWatches(data_watches) /\ IsWatches(child_watches)
      /\ WatchMapsInverse
  BY NoWatchesOK, Zenon DEF Init, WatchMapsInverse
<1>3. /\ instance \in 0 .. MaxInstance
      /\ triggers \in Seq([kind : {"data", "child"}, path : Path])
      /\ DOMAIN request = Watcher
      /\ \A w \in Watcher : request[w] = NoRequest
  BY ReadAssumption DEF Init
<1>4. Root \in Path
  BY DEF Root, Path
<1>5. \A w \in Watcher : Asked(request[w])
  <2>1. Asked(NoRequest)
    BY <1>4, Zenon DEF Asked, NoRequest, Op
  <2> QED BY <1>3, <2>1, Zenon
<1>6. /\ object \in [Watcher -> Object]
      /\ \A w \in Watcher : object[w] = NewObject
  <2>1. NewObject \in Object
    BY Zenon DEF NewObject, Object
  <2> QED BY <2>1, Zenon DEF Init
<1>7. TypeOK
  BY <1>1, <1>2, <1>3, <1>5, <1>6, Zenon DEF TypeOK, Asked
<1>8. \A w \in Watcher : Cared(w)
  BY <1>3, <1>6 DEF Cared, Watching, NoRequest, NewObject
<1> QED BY <1>1, <1>2, <1>5, <1>7, <1>8, Zenon DEF IInv

\* A step of watcher w keeps the invariant if it keeps it for w, and the two
\* managers in order and unchanged for the others.
LEMMA ReaderOK ==
  ASSUME IInv, NEW w \in Watcher, NEW r, Asked(r),
         \/ request' = [request EXCEPT ![w] = r]
         \/ request' = request /\ r = request[w],
         object' \in [Watcher -> Object],
         \A v \in Watcher \ {w} : object'[v] = object[v],
         UNCHANGED <<tree, instance, triggers>>,
         IsWatches(data_watches'), InverseMaps(data_watches'),
         IsWatches(child_watches'), InverseMaps(child_watches'),
         SameForOthers(data_watches, data_watches', w),
         SameForOthers(child_watches, child_watches', w),
         Cared(w)'
  PROVE  IInv'
<1>1. /\ DOMAIN request' = Watcher
      /\ request'[w] = r
      /\ \A v \in Watcher \ {w} : request'[v] = request[v]
  BY Zenon DEF IInv, TypeOK
<1>2. TypeOK'
  BY <1>1, Zenon DEF IInv, TypeOK, Asked
<1>3. ASSUME NEW v \in Watcher \ {w}
      PROVE  Cared(v)'
  <2>1. Cared(v) /\ request'[v] = request[v] /\ tree' = tree
        /\ triggers' = triggers /\ object'[v] = object[v]
    BY <1>1, Zenon DEF IInv
  <2>2. Armed(v) <=> Armed(v)'
    BY <2>1, Zenon DEF Armed, SameForOthers, Kind
  <2>3. /\ View(v)' = View(v)
        /\ TriggerPending(v)' = TriggerPending(v)
        /\ Watching(v)' = Watching(v)
    BY <2>1 DEF View, TriggerPending, Watching
  <2>4. /\ v \notin DOMAIN data_watches.watch_to_paths
             => v \notin DOMAIN data_watches'.watch_to_paths
        /\ v \notin DOMAIN child_watches.watch_to_paths
             => v \notin DOMAIN child_watches'.watch_to_paths
    BY Zenon DEF SameForOthers
  <2> QED BY <2>1, <2>2, <2>3, <2>4, Zenon DEF Cared
<1>4. WatchMapsInverse' /\ WellFormed(tree, {})'
  BY Zenon DEF WatchMapsInverse, IInv
<1>5. \A v \in Watcher : Asked(request[v])'
  BY <1>1, Zenon DEF IInv
<1> QED BY <1>2, <1>3, <1>4, <1>5, Zenon DEF IInv

\* HandleMessage and Done keep the life of a session, and are only for one
\* that is there or stray.
LEMMA ObjectOK ==
  ASSUME IInv, NEW w \in Watcher,
         \/ Ready(w) /\ (HandleMessage(w) \/ Done(w))
         \/ request[w].running /\ Done(w)
  PROVE  /\ object' \in [Watcher -> Object]
         /\ \A v \in Watcher \ {w} : object'[v] = object[v]
         /\ object'[w].life = object[w].life
         /\ object'[w].stray = object[w].stray
         /\ object[w].life = "alive" \/ object[w].stray
<1>1. object \in [Watcher -> Object] /\ Cared(w)
  BY Zenon DEF IInv, TypeOK
<1>2. object[w].life = "alive" \/ object[w].stray
  BY <1>1, Zenon DEF Cared, Ready
<1>3. PICK b \in BOOLEAN, q \in BOOLEAN :
        object' = [object EXCEPT ![w].bare = b, ![w].queued = q]
  <2>1. object[w].queued \in BOOLEAN
    BY <1>1, Zenon DEF Object
  <2>2. CASE HandleMessage(w)
    BY <2>1, <2>2, Zenon DEF HandleMessage
  <2>3. CASE Done(w)
    BY <2>3, Zenon DEF Done
  <2> QED BY <2>2, <2>3, Zenon
<1> QED BY <1>1, <1>2, <1>3, Zenon DEF Object

\* AddWatcher and RemoveWatcher of w change nothing for the others.
LEMMA OthersSame ==
  ASSUME NEW m, IsWatches(m), InverseMaps(m), NEW w \in Watcher
  PROVE  /\ SameForOthers(m, m, w)
         /\ SameForOthers(m, RemoveWatcher(m, w), w)
         /\ \A path \in Path : SameForOthers(m, AddWatcher(m, path, w), w)
<1>1. SameForOthers(m, RemoveWatcher(m, w), w)
  BY RemoveWatcherOK DEF SameForOthers
<1>2. ASSUME NEW path \in Path
      PROVE  SameForOthers(m, AddWatcher(m, path, w), w)
  <2> DEFINE n == AddWatcher(m, path, w)
  <2>1. /\ \A p : p # path => Triggered(n, p) = Triggered(m, p)
        /\ Triggered(n, path) = Triggered(m, path) \cup {w}
        /\ DOMAIN n.watch_to_paths = DOMAIN m.watch_to_paths \cup {w}
    BY AddWatcherOK
  <2> HIDE DEF n
  <2>2. SameForOthers(m, n, w)
    BY <2>1, Zenon DEF SameForOthers
  <2> QED BY <2>2, Zenon DEF n
<1> QED BY <1>1, <1>2, Zenon DEF SameForOthers

\* What IInv says of the managers and of a path that a read gets past
\* ParsePath.
LEMMA Managers ==
  ASSUME IInv
  PROVE  /\ IsWatches(data_watches) /\ InverseMaps(data_watches)
         /\ IsWatches(child_watches) /\ InverseMaps(child_watches)
         /\ \A path \in ReadPath :
              path \in Path /\ (ParsePath(path) = "RC_OK" => path # Root)
         /\ \A w \in Watcher : Asked(request[w]) /\ Cared(w)
         /\ DOMAIN request = Watcher
         /\ object \in [Watcher -> Object]
<1>1. \A path \in ReadPath :
        path \in Path /\ (ParsePath(path) = "RC_OK" => path # Root)
  BY ReadAssumption, Zenon DEF ParsePath
<1> QED BY <1>1, Zenon DEF IInv, TypeOK, WatchMapsInverse

\* Exists registers the watcher before it reads.
LEMMA StartExistsOK ==
  ASSUME IInv, NEW w \in Watcher, NEW path \in ReadPath, StartExists(w, path)
  PROVE  IInv'
<1>0. /\ object' \in [Watcher -> Object]
      /\ \A v \in Watcher \ {w} : object'[v] = object[v]
      /\ object'[w].life = object[w].life
      /\ object'[w].stray = object[w].stray
      /\ object[w].life = "alive" \/ object[w].stray
  <2>1. Ready(w) /\ HandleMessage(w)
    BY Zenon DEF StartExists
  <2> QED BY <2>1, ObjectOK, Zenon
<1> DEFINE r == Running("Exists", path)
<1>1. path \in Path /\ path # Root
  BY Managers, Zenon DEF StartExists
<1>2. Asked(r) /\ r.op = "Exists" /\ r.path = path /\ r.running /\ ~r.told
  BY <1>1, Zenon DEF Asked, Running, Op
<1>3. request'[w] = r
  BY Managers, Zenon DEF StartExists
<1>4. /\ IsWatches(data_watches') /\ InverseMaps(data_watches')
      /\ w \in Triggered(data_watches', path)
      /\ SameForOthers(data_watches, data_watches', w)
  BY <1>1, Managers, AddWatcherOK, OthersSame DEF StartExists
<1>5. /\ IsWatches(child_watches') /\ InverseMaps(child_watches')
      /\ SameForOthers(child_watches, child_watches', w)
  BY Managers, OthersSame, Zenon DEF StartExists
<1> HIDE DEF r
<1>6. Cared(w)'
  BY <1>0, <1>1, <1>2, <1>3, <1>4, Zenon DEF Cared, Watching, Armed, Kind
<1>7. /\ request' = [request EXCEPT ![w] = r]
      /\ UNCHANGED <<tree, instance, triggers>>
  BY Zenon DEF StartExists, r
<1> QED BY <1>0, <1>2, <1>4, <1>5, <1>6, <1>7, ReaderOK, Zenon

\* Exists reads the node that the watch is set against.
LEMMA FinishExistsOK ==
  ASSUME IInv, NEW w \in Watcher, FinishExists(w)
  PROVE  IInv'
<1>0. /\ object' \in [Watcher -> Object]
      /\ \A v \in Watcher \ {w} : object'[v] = object[v]
      /\ object'[w].life = object[w].life
      /\ object'[w].stray = object[w].stray
      /\ object[w].life = "alive" \/ object[w].stray
  <2>1. request[w].running /\ Done(w)
    BY Zenon DEF FinishExists
  <2> QED BY <2>1, ObjectOK, Zenon
<1> DEFINE path == request[w].path
           r == Answered("Exists", path, DataView(tree, path), request[w].told)
<1>1. /\ path \in Path /\ path # Root
      /\ object[w].life = "alive" /\ ~request[w].told
           => w \in Triggered(data_watches, path)
      /\ request[w].told \in BOOLEAN
  BY Managers, Zenon DEF FinishExists, Asked, Cared, Armed, Kind
<1>2. /\ Asked(r) /\ r.op = "Exists" /\ r.path = path /\ r.running = FALSE
      /\ r.told = request[w].told /\ r.base = DataView(tree, path)
  BY <1>1, Zenon DEF Asked, Answered, Op
<1>3. request' = [request EXCEPT ![w] = r] /\ request'[w] = r
  BY Managers, Zenon DEF FinishExists
<1>4. UNCHANGED <<tree, data_watches, child_watches, instance, triggers>>
  BY Zenon DEF FinishExists
<1> HIDE DEF r, path
<1>5. Cared(w)'
  BY <1>0, <1>1, <1>2, <1>3, <1>4, Zenon DEF Cared, Watching, Armed, Kind, View
<1>6. /\ SameForOthers(data_watches, data_watches', w)
      /\ SameForOthers(child_watches, child_watches', w)
  BY <1>4, Managers, OthersSame, Zenon
<1> QED BY <1>0, <1>2, <1>3, <1>4, <1>5, <1>6, Managers, ReaderOK, Zenon

\* GetData reads the node and is not registered yet.
LEMMA StartGetDataOK ==
  ASSUME IInv, NEW w \in Watcher, NEW path \in ReadPath, StartGetData(w, path)
  PROVE  IInv'
<1>0. /\ object' \in [Watcher -> Object]
      /\ \A v \in Watcher \ {w} : object'[v] = object[v]
      /\ object'[w].life = object[w].life
      /\ object'[w].stray = object[w].stray
      /\ object[w].life = "alive" \/ object[w].stray
  <2>1. Ready(w) /\ HandleMessage(w)
    BY Zenon DEF StartGetData
  <2> QED BY <2>1, ObjectOK, Zenon
<1> DEFINE r == Running("GetData", path)
<1>1. path \in Path /\ path # Root
  BY Managers, Zenon DEF StartGetData
<1>2. Asked(r) /\ r.op = "GetData" /\ r.path = path /\ r.running = TRUE
  BY <1>1, Zenon DEF Asked, Running, Op
<1>3. request' = [request EXCEPT ![w] = r] /\ request'[w] = r
  BY Managers, Zenon DEF StartGetData
<1>4. UNCHANGED <<tree, data_watches, child_watches, instance, triggers>>
  BY Zenon DEF StartGetData
<1> HIDE DEF r
<1>5. Cared(w)'
  BY <1>0, <1>1, <1>2, <1>3, Zenon DEF Cared, Watching
<1>6. /\ SameForOthers(data_watches, data_watches', w)
      /\ SameForOthers(child_watches, child_watches', w)
  BY <1>4, Managers, OthersSame, Zenon
<1> QED BY <1>0, <1>2, <1>3, <1>4, <1>5, <1>6, Managers, ReaderOK, Zenon

\* GetData registers the watcher after it has read.
LEMMA FinishGetDataOK ==
  ASSUME IInv, NEW w \in Watcher, FinishGetData(w)
  PROVE  IInv'
<1>0. /\ object' \in [Watcher -> Object]
      /\ \A v \in Watcher \ {w} : object'[v] = object[v]
      /\ object'[w].life = object[w].life
      /\ object'[w].stray = object[w].stray
      /\ object[w].life = "alive" \/ object[w].stray
  <2>1. request[w].running /\ Done(w)
    BY Zenon DEF FinishGetData
  <2> QED BY <2>1, ObjectOK, Zenon
<1> DEFINE path == request[w].path
           r == Answered("GetData", path, DataView(tree, path), FALSE)
<1>1. path \in Path /\ path # Root
  BY Managers, Zenon DEF FinishGetData, Asked, Cared
<1>2. /\ Asked(r) /\ r.op = "GetData" /\ r.path = path /\ r.running = FALSE
      /\ r.base = DataView(tree, path)
  BY <1>1, Zenon DEF Asked, Answered, Op
<1>3. request' = [request EXCEPT ![w] = r] /\ request'[w] = r
  BY Managers, Zenon DEF FinishGetData
<1>4. /\ data_watches' = AddWatcher(data_watches, path, w)
      /\ UNCHANGED <<tree, child_watches, instance, triggers>>
  BY Zenon DEF FinishGetData
<1> HIDE DEF r, path
<1>5. /\ IsWatches(data_watches') /\ InverseMaps(data_watches')
      /\ w \in Triggered(data_watches', path)
      /\ SameForOthers(data_watches, data_watches', w)
      /\ SameForOthers(child_watches, child_watches', w)
  BY <1>1, <1>4, Managers, AddWatcherOK, OthersSame
<1>6. Cared(w)'
  BY <1>0, <1>1, <1>2, <1>3, <1>4, <1>5, Zenon DEF Cared, Watching, Armed, Kind, View
<1> QED BY <1>0, <1>2, <1>3, <1>4, <1>5, <1>6, Managers, ReaderOK, Zenon

\* GetChildren registers the watcher while it holds the tree's mutex.
LEMMA GetChildrenOK ==
  ASSUME IInv, NEW w \in Watcher, NEW path \in ReadPath, GetChildren(w, path)
  PROVE  IInv'
<1>0. /\ object' \in [Watcher -> Object]
      /\ \A v \in Watcher \ {w} : object'[v] = object[v]
      /\ object'[w].life = object[w].life
      /\ object'[w].stray = object[w].stray
      /\ object[w].life = "alive" \/ object[w].stray
  <2>1. Ready(w) /\ Done(w)
    BY Zenon DEF GetChildren
  <2> QED BY <2>1, ObjectOK, Zenon
<1> DEFINE r == Answered("GetChildren", path, ChildView(tree, path), FALSE)
<1>1. path \in Path /\ path # Root
  BY Managers, Zenon DEF GetChildren
<1>2. /\ Asked(r) /\ r.op = "GetChildren" /\ r.path = path
      /\ r.running = FALSE /\ r.base = ChildView(tree, path)
  BY <1>1, Zenon DEF Asked, Answered, Op
<1>3. request' = [request EXCEPT ![w] = r] /\ request'[w] = r
  BY Managers, Zenon DEF GetChildren
<1>4. /\ child_watches' = AddWatcher(child_watches, path, w)
      /\ UNCHANGED <<tree, data_watches, instance, triggers>>
  BY Zenon DEF GetChildren
<1> HIDE DEF r
<1>5. /\ IsWatches(child_watches') /\ InverseMaps(child_watches')
      /\ w \in Triggered(child_watches', path)
      /\ SameForOthers(data_watches, data_watches', w)
      /\ SameForOthers(child_watches, child_watches', w)
  BY <1>1, <1>4, Managers, AddWatcherOK, OthersSame
<1>6. Cared(w)'
  BY <1>0, <1>1, <1>2, <1>3, <1>4, <1>5, Zenon DEF Cared, Watching, Armed, Kind, View
<1> QED BY <1>0, <1>2, <1>3, <1>4, <1>5, <1>6, Managers, ReaderOK, Zenon

\* A message that sets no watch changes nothing but the queue.
LEMMA OtherMessageOK ==
  ASSUME IInv, NEW w \in Watcher, OtherMessage(w)
  PROVE  IInv'
<1>1. /\ object' \in [Watcher -> Object]
      /\ \A v \in Watcher \ {w} : object'[v] = object[v]
      /\ object'[w].life = object[w].life
      /\ object'[w].stray = object[w].stray
      /\ object[w].life = "alive" \/ object[w].stray
  <2>1. Ready(w) /\ Done(w)
    BY Zenon DEF OtherMessage
  <2> QED BY <2>1, ObjectOK, Zenon
<1>2. UNCHANGED <<tree, data_watches, child_watches, instance, triggers, request>>
  BY Zenon DEF OtherMessage
<1>3. Cared(w)'
  <2>1. Cared(w)
    BY Managers, Zenon
  <2>2. /\ Watching(w)' = Watching(w) /\ Armed(w)' = Armed(w)
        /\ View(w)' = View(w) /\ TriggerPending(w)' = TriggerPending(w)
    BY <1>1, <1>2, Zenon DEF Watching, Armed, View, TriggerPending
  <2> QED BY <1>1, <1>2, <2>1, <2>2, Zenon DEF Cared
<1>4. request' = request /\ Asked(request[w])
  BY <1>2, Managers, Zenon
<1>5. /\ SameForOthers(data_watches, data_watches', w)
      /\ SameForOthers(child_watches, child_watches', w)
  BY <1>2, Managers, OthersSame, Zenon
<1> QED BY <1>1, <1>2, <1>3, <1>4, <1>5, Managers, ReaderOK, Zenon

\* The first half of DataTree::RemoveWatcher takes w off the data watches.
LEMMA StartRemoveWatcherOK ==
  ASSUME IInv, NEW w \in Watcher, StartRemoveWatcher(w)
  PROVE  IInv'
<1> DEFINE s == object[w].queued \/ request[w].running
<1>1. /\ object' = [object EXCEPT ![w].life = "going", ![w].stray = s]
      /\ data_watches' = RemoveWatcher(data_watches, w)
      /\ UNCHANGED <<tree, child_watches, instance, triggers, request>>
  BY Zenon DEF StartRemoveWatcher
<1>2. s \in BOOLEAN
  BY Zenon
<1>3. /\ request' = request /\ Asked(request[w])
      /\ object \in [Watcher -> Object] /\ Cared(w)
  BY <1>1, Managers, Zenon
<1> HIDE DEF s
<1>4. /\ object' \in [Watcher -> Object]
      /\ \A v \in Watcher \ {w} : object'[v] = object[v]
      /\ object'[w].life = "going" /\ object'[w].stray = s
      /\ object'[w].queued = object[w].queued
  BY <1>1, <1>2, <1>3, Zenon DEF Object
<1>5. /\ IsWatches(data_watches') /\ InverseMaps(data_watches')
      /\ w \notin DOMAIN data_watches'.watch_to_paths
      /\ SameForOthers(data_watches, data_watches', w)
      /\ SameForOthers(child_watches, child_watches', w)
  BY <1>1, Managers, RemoveWatcherOK, OthersSame
<1>6. Cared(w)'
  BY <1>1, <1>3, <1>4, <1>5, Zenon DEF Cared, Watching, s
<1> QED BY <1>1, <1>3, <1>4, <1>5, <1>6, Managers, ReaderOK, Zenon

\* The second half takes it off the child watches.
LEMMA FinishRemoveWatcherOK ==
  ASSUME IInv, NEW w \in Watcher, FinishRemoveWatcher(w)
  PROVE  IInv'
<1>1. /\ object[w].life = "going"
      /\ object' = [object EXCEPT ![w].life = "gone"]
      /\ child_watches' = RemoveWatcher(child_watches, w)
      /\ UNCHANGED <<tree, data_watches, instance, triggers, request>>
  BY Zenon DEF FinishRemoveWatcher
<1>2. /\ request' = request /\ Asked(request[w])
      /\ object \in [Watcher -> Object] /\ Cared(w)
  BY <1>1, Managers, Zenon
<1>3. /\ object' \in [Watcher -> Object]
      /\ \A v \in Watcher \ {w} : object'[v] = object[v]
      /\ object'[w].life = "gone" /\ object'[w].stray = object[w].stray
      /\ object'[w].queued = object[w].queued
  BY <1>1, <1>2, Zenon DEF Object
<1>4. /\ IsWatches(child_watches') /\ InverseMaps(child_watches')
      /\ w \notin DOMAIN child_watches'.watch_to_paths
      /\ SameForOthers(data_watches, data_watches', w)
      /\ SameForOthers(child_watches, child_watches', w)
  BY <1>1, Managers, RemoveWatcherOK, OthersSame
<1>5. Cared(w)'
  BY <1>1, <1>2, <1>3, <1>4, Zenon DEF Cared, Watching
<1> QED BY <1>1, <1>2, <1>3, <1>4, <1>5, Managers, ReaderOK, Zenon
-----------------------------------------------------------------------------
(* The thread that executes the log.                                       *)

\* The calls announce every change from tree t to tree u that a watch on a
\* path other than the root is about.
Announced(t, u, calls) ==
  \A p \in Path \ {Root} :
    /\ \/ DataView(u, p) = DataView(t, p)
       \/ \E i \in DOMAIN calls : calls[i] = Trigger("data", p)
    /\ \/ ChildView(u, p) = ChildView(t, p)
       \/ \E i \in DOMAIN calls : calls[i] = Trigger("child", p)

Calls == Seq([kind : {"data", "child"}, path : Path])

\* A write that announces what it changes keeps the invariant.
LEMMA WriteOK ==
  ASSUME IInv, NEW u, NEW calls \in Calls, Write(u, calls),
         IsTree(u), WellFormed(u, {}), Announced(tree, u, calls)
  PROVE  IInv'
<1>1. TypeOK'
  BY ReadAssumption DEF IInv, TypeOK, Write, Calls
<1>2. WellFormed(tree, {})' /\ WatchMapsInverse'
  BY Zenon DEF IInv, Write, WatchMapsInverse
<1>3. ASSUME NEW w \in Watcher
      PROVE  Cared(w)'
  <2>1. /\ Cared(w) /\ Asked(request[w])
        /\ request' = request /\ object' = object
        /\ data_watches' = data_watches
        /\ child_watches' = child_watches
        /\ tree' = u /\ triggers = << >> /\ triggers' = calls
    BY Managers, Zenon DEF Write
  <2>2. Watching(w)' = Watching(w) /\ Armed(w)' = Armed(w)
    BY <2>1, Zenon DEF Watching, Armed
  <2>3. ASSUME Watching(w), ~request[w].told
        PROVE  View(w)' = request[w].base \/ TriggerPending(w)'
    <3>1. request[w].path \in Path \ {Root}
      BY <2>1, <2>3, Zenon DEF Cared, Asked, Watching
    <3>2. View(w) = request[w].base
      BY <2>1, <2>3 DEF Cared, TriggerPending
    <3>3. CASE Kind(request[w].op) = "data"
      BY <2>1, <3>1, <3>2, <3>3, Zenon DEF Announced, View, TriggerPending
    <3>4. CASE Kind(request[w].op) = "child"
      BY <2>1, <3>1, <3>2, <3>4, Zenon DEF Announced, View, TriggerPending
    <3> QED BY <3>3, <3>4, Zenon DEF Kind
  <2> QED BY <2>1, <2>2, <2>3, Zenon DEF Cared
<1>4. \A w \in Watcher : Asked(request[w])'
  BY Managers, Zenon DEF Write
<1> QED BY <1>1, <1>2, <1>3, <1>4, Zenon DEF IInv

\* The calls at the end of Create and Delete announce a change of the node
\* at q and of the children of its parent.
LEMMA NodeTriggersOK ==
  ASSUME NEW t, NEW u, NEW q \in Path, q # Root,
         \A p : /\ p # q => DataView(u, p) = DataView(t, p)
                /\ p # Parent(q) => ChildView(u, p) = ChildView(t, p)
  PROVE  NodeTriggers(q) \in Calls /\ Announced(t, u, NodeTriggers(q))
<1>1. Parent(q) \in Path
  BY PathParts, Zenon
<1>2. CASE Parent(q) = Root
  <2>1. NodeTriggers(q) = <<Trigger("data", q)>>
    BY <1>2, Zenon DEF NodeTriggers
  <2> QED BY <1>2, <2>1 DEF Calls, Trigger, Announced
<1>3. CASE Parent(q) # Root
  <2>1. NodeTriggers(q) = <<Trigger("data", q), Trigger("child", Parent(q))>>
    BY <1>3, Zenon DEF NodeTriggers
  <2>2. NodeTriggers(q) \in Calls
    BY <1>1, <2>1 DEF Calls, Trigger
  <2>3. /\ 1 \in DOMAIN NodeTriggers(q) /\ 2 \in DOMAIN NodeTriggers(q)
        /\ NodeTriggers(q)[1] = Trigger("data", q)
        /\ NodeTriggers(q)[2] = Trigger("child", Parent(q))
    BY <2>1
  <2> QED BY <2>2, <2>3, Zenon DEF Announced
<1> QED BY <1>2, <1>3, Zenon

\* Without a change there is nothing to announce.
LEMMA NothingAnnounced ==
  ASSUME NEW t, NEW u, \A p : /\ DataView(u, p) = DataView(t, p)
                              /\ ChildView(u, p) = ChildView(t, p)
  PROVE  << >> \in Calls /\ Announced(t, u, << >>)
BY DEF Calls, Announced

\* An executed create.
LEMMA ExecuteCreateOK ==
  ASSUME IInv, NEW args \in CreateArgs, NEW sid \in SessionId,
         ExecuteCreate(args, sid)
  PROVE  IInv'
<1> DEFINE u == Create(tree, args, Txn(sid))
           q == NewPath(tree, args.path)
           ok == CreateCode(tree, args.path) = "RC_OK"
           calls == IF ok THEN NodeTriggers(q) ELSE << >>
<1>1. args.path \in Path /\ args.node_type \in NodeType /\ args.data \in Data
  BY WriteAssumption, Zenon
<1>2. Txn(sid).instance_id \in Nat /\ Txn(sid).session_id \in SessionId
  BY ReadAssumption DEF Txn, IInv, TypeOK
<1>3. IsTree(tree) /\ WellFormed(tree, {})
  BY Zenon DEF IInv, TypeOK
<1>4. IsTree(u) /\ WellFormed(u, {})
  BY <1>1, <1>2, <1>3, CreateOK, Zenon
<1>5. \A p : /\ ~ok \/ p # q => DataView(u, p) = DataView(tree, p)
             /\ ~ok \/ p # Parent(q) => ChildView(u, p) = ChildView(tree, p)
  BY <1>1, <1>3, CreateViews
<1>6. ok => q \in Path /\ q # Root
  BY <1>1, <1>3, NewPathOK, Zenon
<1>7. Write(u, calls)
  BY Zenon DEF ExecuteCreate
<1> HIDE DEF u, q, ok
<1>8. calls \in Calls /\ Announced(tree, u, calls)
  BY <1>5, <1>6, NodeTriggersOK, NothingAnnounced
<1> QED BY <1>4, <1>7, <1>8, WriteOK, Zenon

\* An executed delete.
LEMMA ExecuteDeleteOK ==
  ASSUME IInv, NEW args \in DeleteArgs, ExecuteDelete(args)
  PROVE  IInv'
<1> DEFINE u == Delete(tree, args, Txn(0))
           q == args.path
           ok == DeleteCode(tree, q, args.version) = "RC_OK"
           calls == IF ok THEN NodeTriggers(q) ELSE << >>
<1>1. q \in Path
  BY WriteAssumption, Zenon
<1>2. Txn(0).instance_id \in Nat
  BY ReadAssumption DEF Txn, IInv, TypeOK
<1>3. IsTree(tree) /\ WellFormed(tree, {})
  BY Zenon DEF IInv, TypeOK
<1>4. IsTree(u) /\ WellFormed(u, {} \ {q})
  BY <1>1, <1>2, <1>3, DeleteOK, Zenon
<1>5. \A p : /\ ~ok \/ p # q => DataView(u, p) = DataView(tree, p)
             /\ ~ok \/ p # Parent(q) => ChildView(u, p) = ChildView(tree, p)
  BY <1>1, <1>3, DeleteViews
<1>6. ok => q # Root
  BY Zenon DEF DeleteCode, ParsePath
<1>7. Write(u, calls)
  BY Zenon DEF ExecuteDelete
<1>8. {} \ {q} = {}
  BY Zenon
<1> HIDE DEF u, q, ok
<1>9. calls \in Calls /\ Announced(tree, u, calls)
  BY <1>1, <1>5, <1>6, NodeTriggersOK, NothingAnnounced
<1> QED BY <1>4, <1>7, <1>8, <1>9, WriteOK, Zenon

\* An executed write of data.
LEMMA ExecuteSetDataOK ==
  ASSUME IInv, NEW args \in SetDataArgs, ExecuteSetData(args)
  PROVE  IInv'
<1> DEFINE u == SetData(tree, args, Txn(0))
           q == args.path
           ok == SetDataCode(tree, q, args.version) = "RC_OK"
           calls == IF ok THEN <<Trigger("data", q)>> ELSE << >>
<1>1. q \in Path /\ args.data \in Data
  BY WriteAssumption, Zenon
<1>2. Txn(0).instance_id \in Nat
  BY ReadAssumption DEF Txn, IInv, TypeOK
<1>3. IsTree(tree) /\ WellFormed(tree, {})
  BY DEF IInv, TypeOK
<1>4. IsTree(u) /\ WellFormed(u, {})
  BY <1>1, <1>2, <1>3, SetDataOK, Zenon
<1>5. \A p : /\ ~ok \/ p # q => DataView(u, p) = DataView(tree, p)
             /\ ChildView(u, p) = ChildView(tree, p)
  BY <1>1, <1>3, SetDataViews
<1>6. Write(u, calls)
  BY Zenon DEF ExecuteSetData
<1> HIDE DEF u, q, ok
<1>7. calls \in Calls /\ Announced(tree, u, calls)
  <2>1. CASE ~ok
    BY <1>5, <2>1, NothingAnnounced, Zenon
  <2>2. CASE ok
    BY <1>1, <1>5, <2>2 DEF Calls, Trigger, Announced
  <2> QED BY <2>1, <2>2, Zenon
<1> QED BY <1>4, <1>6, <1>7, WriteOK, Zenon

\* Setting told leaves the rest of a request as it was.
LEMMA TellFields ==
  ASSUME NEW A, NEW P, NEW B,
         NEW r \in [op : A, path : P, running : BOOLEAN, base : B,
                    told : BOOLEAN]
  PROVE  LET n == [r EXCEPT !.told = TRUE]
         IN  /\ n \in [op : A, path : P, running : BOOLEAN, base : B,
                       told : BOOLEAN]
             /\ n.op = r.op /\ n.path = r.path /\ n.running = r.running
             /\ n.base = r.base /\ n.told = TRUE
BY Zenon

\* The first of the calls that are still to be made, and the others.
LEMMA FirstCall ==
  ASSUME NEW S, NEW s \in Seq(S), s # << >>
  PROVE  Head(s) \in S /\ Tail(s) \in Seq(S)
OBVIOUS

\* A TriggerWatcher call tells those whose watch it takes away, and leaves
\* the watches on other paths and of the other kind alone.
LEMMA FireOK ==
  ASSUME IInv, Fire
  PROVE  IInv'
<1> DEFINE t == Head(triggers)
           m == IF t.kind = "data" THEN data_watches ELSE child_watches
           told == {w \in Triggered(m, t.path) :
                      request[w].path = t.path /\ Kind(request[w].op) = t.kind}
<1>1. /\ triggers \in Calls /\ triggers # << >> /\ triggers' = Tail(triggers)
      /\ t \in [kind : {"data", "child"}, path : Path]
      /\ UNCHANGED <<tree, instance, object>>
  <2>1. triggers \in Calls
    BY Zenon DEF IInv, TypeOK, Calls
  <2>2. /\ triggers # << >> /\ triggers' = Tail(triggers)
        /\ UNCHANGED <<tree, instance, object>>
    BY Zenon DEF Fire
  <2> QED BY <2>1, <2>2, FirstCall, Zenon DEF Calls
<1>2. /\ data_watches' = IF t.kind = "data"
                         THEN TriggerWatcher(data_watches, t.path)
                         ELSE data_watches
      /\ child_watches' = IF t.kind = "child"
                          THEN TriggerWatcher(child_watches, t.path)
                          ELSE child_watches
      /\ request' = [w \in Watcher |->
           IF w \in told THEN [request[w] EXCEPT !.told = TRUE] ELSE request[w]]
  BY Zenon DEF Fire
<1>3. \A i \in DOMAIN triggers :
        triggers[i] = t \/ \E j \in DOMAIN triggers' : triggers'[j] = triggers[i]
  <2>1. ASSUME NEW i \in DOMAIN triggers, i # 1
        PROVE  i - 1 \in DOMAIN triggers' /\ triggers'[i - 1] = triggers[i]
    BY <1>1, <2>1 DEF Calls
  <2>2. triggers[1] = t
    BY <1>1 DEF Calls
  <2> HIDE DEF t
  <2> QED BY <2>1, <2>2, Zenon
<1>4. triggers' \in Calls
  BY <1>1 DEF Calls
<1> HIDE DEF t
<1>5. /\ IsWatches(data_watches') /\ InverseMaps(data_watches')
      /\ \A p : t.kind # "data" \/ p # t.path
                => Triggered(data_watches', p) = Triggered(data_watches, p)
      /\ DOMAIN data_watches'.watch_to_paths
           \subseteq DOMAIN data_watches.watch_to_paths
  BY <1>2, Managers, TriggerWatcherOK, Zenon
<1>6. /\ IsWatches(child_watches') /\ InverseMaps(child_watches')
      /\ \A p : t.kind # "child" \/ p # t.path
                => Triggered(child_watches', p) = Triggered(child_watches, p)
      /\ DOMAIN child_watches'.watch_to_paths
           \subseteq DOMAIN child_watches.watch_to_paths
  BY <1>2, Managers, TriggerWatcherOK, Zenon
<1>7. ASSUME NEW w \in Watcher
      PROVE  /\ Asked(request'[w])
             /\ request'[w].op = request[w].op
             /\ request'[w].path = request[w].path
             /\ request'[w].running = request[w].running
             /\ request'[w].base = request[w].base
             /\ w \in told => request'[w].told
             /\ w \notin told => request'[w].told = request[w].told
  <2> DEFINE r == request[w]
  <2>1. Asked(r)
    BY Managers, Zenon
  <2>2. CASE w \in told
    <3>1. request'[w] = [r EXCEPT !.told = TRUE]
      BY <1>2, <2>2, Zenon
    <3> HIDE DEF r
    <3>2. LET n == [r EXCEPT !.told = TRUE]
          IN  /\ Asked(n)
              /\ n.op = r.op /\ n.path = r.path /\ n.running = r.running
              /\ n.base = r.base /\ n.told = TRUE
      BY <2>1, TellFields, Zenon DEF Asked
    <3> QED BY <2>2, <3>1, <3>2, Zenon DEF r
  <2>3. CASE w \notin told
    BY <1>2, <2>1, <2>3, Zenon
  <2> QED BY <2>2, <2>3, Zenon
<1>8. TypeOK'
  BY <1>1, <1>2, <1>4, <1>5, <1>6, <1>7, Zenon DEF IInv, TypeOK, Asked, Calls
<1>9. WatchMapsInverse' /\ WellFormed(tree, {})'
  BY <1>1, <1>5, <1>6, Zenon DEF IInv, WatchMapsInverse
<1>10. ASSUME NEW w \in Watcher
       PROVE  Cared(w)'
  <2>1. Cared(w) /\ Asked(request[w])
    BY Managers, Zenon
  <2>2. Watching(w)' = Watching(w)
    BY <1>1, <1>7, Zenon DEF Watching
  <2>3. Kind(request[w].op) \in {"data", "child"}
    BY Zenon DEF Kind
  <2>4. ASSUME Armed(w), ~request'[w].told
        PROVE  /\ t # Trigger(Kind(request[w].op), request[w].path)
               /\ Armed(w)'
    <3>1. t.kind # Kind(request[w].op) \/ t.path # request[w].path
      BY <1>7, <2>3, <2>4, Zenon DEF Armed
    <3>2. t # Trigger(Kind(request[w].op), request[w].path)
      BY <3>1, SMTT(30) DEF Trigger
    <3>3. Armed(w)'
      BY <1>5, <1>6, <1>7, <2>3, <2>4, <3>1, SMTT(30) DEF Armed
    <3> QED BY <3>2, <3>3, Zenon
  <2>5. ~request'[w].told => ~request[w].told
    BY <1>7, Zenon
  <2>6. ASSUME Watching(w), ~request'[w].told
        PROVE  View(w)' = request'[w].base \/ TriggerPending(w)'
    <3>1. Armed(w) /\ (View(w) = request[w].base \/ TriggerPending(w))
      BY <2>1, <2>5, <2>6, Zenon DEF Cared, Watching
    <3>2. View(w)' = View(w) /\ request'[w].base = request[w].base
      BY <1>1, <1>7, Zenon DEF View
    <3>3. ASSUME TriggerPending(w) PROVE TriggerPending(w)'
      <4> DEFINE c == Trigger(Kind(request[w].op), request[w].path)
      <4>1. t # c
        BY <2>4, <2>6, <3>1, Zenon
      <4>2. PICK i \in DOMAIN triggers : triggers[i] = c
        BY <3>3, Zenon DEF TriggerPending
      <4>3. PICK j \in DOMAIN triggers' : triggers'[j] = c
        BY <1>3, <4>1, <4>2, Zenon
      <4>4. request'[w].op = request[w].op /\ request'[w].path = request[w].path
        BY <1>7, Zenon
      <4> QED BY <4>3, <4>4, Zenon DEF TriggerPending
    <3> QED BY <3>1, <3>2, <3>3, Zenon
  <2>7. /\ w \notin DOMAIN data_watches.watch_to_paths
             => w \notin DOMAIN data_watches'.watch_to_paths
        /\ w \notin DOMAIN child_watches.watch_to_paths
             => w \notin DOMAIN child_watches'.watch_to_paths
    BY <1>5, <1>6, Zenon
  <2> QED BY <1>1, <1>7, <2>1, <2>2, <2>4, <2>5, <2>6, <2>7, Zenon DEF Cared
<1> QED BY <1>7, <1>8, <1>9, <1>10, Zenon DEF IInv

\* Every step of the reads, of the executing thread and of the triggers
\* keeps the invariant.
LEMMA NextOK == IInv /\ [Next]_vars => IInv'
<1> SUFFICES ASSUME IInv, [Next]_vars PROVE IInv'
  BY Zenon
<1>1. CASE WriteStep
  BY <1>1, ExecuteCreateOK, ExecuteDeleteOK, ExecuteSetDataOK, FireOK, Zenon
     DEF WriteStep
<1>2. ASSUME NEW w \in Watcher, ReadStep(w)
      PROVE  IInv'
  BY <1>2, StartExistsOK, FinishExistsOK, StartGetDataOK, FinishGetDataOK,
     GetChildrenOK, OtherMessageOK, StartRemoveWatcherOK, FinishRemoveWatcherOK, Zenon DEF ReadStep
<1>3. CASE UNCHANGED vars
  BY <1>3, ZenonT(40) DEF vars, IInv, TypeOK, WatchMapsInverse, Asked, Cared, Watching,
     Armed, View, TriggerPending
<1> QED BY <1>1, <1>2, <1>3, Zenon DEF Next

\* The inductive invariant holds in every reachable state.
LEMMA SpecIInv == Spec => []IInv
BY InitOK, NextOK, PTL DEF Spec

\* Every variable of the tree and its watches keeps its type.
THEOREM Typed == Spec => []TypeOK
<1>1. IInv => TypeOK
  BY Zenon DEF IInv
<1> QED BY <1>1, SpecIInv, PTL

\* path_to_watches_ and watch_to_paths_ stay inverse in both managers, so
\* the iterators that RemoveWatcher and TriggerWatcher dereference without a
\* test are valid.
THEOREM MapsStayInverse == Spec => []WatchMapsInverse
<1>1. IInv => WatchMapsInverse
  BY Zenon DEF IInv
<1> QED BY <1>1, SpecIInv, PTL

\* A watch misses no change, whatever writes and triggers come between the
\* parts of a read.
THEOREM NothingMissed == Spec => []WatchNeverMisses
<1>1. IInv => WatchNeverMisses
  BY Zenon DEF IInv, Cared, Watching, WatchNeverMisses
<1> QED BY <1>1, SpecIInv, PTL

\* Once ~SaberSession has run, neither manager has the session in its maps,
\* unless a HandleMessage with a bare `this` waited or ran when it began.
THEOREM NoneDangles == Spec => []NoDanglingWatcher
<1>1. IInv => NoDanglingWatcher
  <2> SUFFICES ASSUME IInv, NEW w \in Watcher,
                      object[w].life = "gone", ~object[w].stray,
                      NEW m \in {data_watches, child_watches}
               PROVE  /\ w \notin DOMAIN m.watch_to_paths
                      /\ \A p \in DOMAIN m.path_to_watches :
                           w \notin m.path_to_watches[p]
    BY Zenon DEF NoDanglingWatcher
  <2>1. IsWatches(m) /\ InverseMaps(m)
    BY Managers, Zenon
  <2>2. object[w].life # "alive"
    OBVIOUS
  <2>3. w \notin DOMAIN m.watch_to_paths
    BY <2>2, Managers, Zenon DEF Cared
  <2> QED BY <2>1, <2>3, Zenon DEF InverseMaps, SetAt
<1> QED BY <1>1, SpecIInv, PTL
=============================================================================
