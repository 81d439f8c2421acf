-------------------------- MODULE DataTreeWatches --------------------------
(***************************************************************************)
(* A DataTree with its data watches and its child watches, used by the     *)
(* thread that executes the log and by the event loops that serve reads.   *)
(* A method of DataTree holds the tree's mutex only while it touches the   *)
(* maps of the tree; the watch managers have a mutex of their own.  So     *)
(*   - a write changes the tree and triggers the watches in later steps,   *)
(*   - Exists adds its watch before it reads, GetData after it has read,   *)
(*     GetChildren while it reads,                                         *)
(*   - ~SaberSession removes its watches from one manager, then the other. *)
(* A watcher is a SaberSession; its requests are served one at a time.     *)
(* OnMessage handles a request for an Entry, which holds the session; Done *)
(* queues the next one to the loop with a bare `this`, marked FIXME, and   *)
(* the session may be destroyed before that function runs or while it is   *)
(* running.  A bare `this` of a destroyed session still registers it: that *)
(* is what the freed memory does as long as nothing else uses it.          *)
(***************************************************************************)
EXTENDS DataTree, ServerWatchManager

CONSTANTS
  Watcher,      \* the sessions that set watches
  Eager,        \* those whose client sends on before it has the reply
  ReadPath,     \* the paths they read
  CreateArgs, DeleteArgs, SetDataArgs,  \* the writes that are executed
  MaxInstance   \* bound on the number of writes

ASSUME ReadAssumption == ReadPath \subseteq Path /\ MaxInstance \in Nat
ASSUME WriteAssumption ==
  /\ \A x \in CreateArgs : x \in [path : Path, node_type : NodeType, data : Data]
  /\ \A x \in DeleteArgs : x \in [path : Path, version : Int]
  /\ \A x \in SetDataArgs : x \in [path : Path, data : Data, version : Int]

VARIABLES
  tree,           \* the DataTree
  data_watches,   \* its data_watches_
  child_watches,  \* its child_watches_
  instance,       \* the instance id of the last executed write
  triggers,       \* the TriggerWatcher calls the last write has still to make
  request,        \* request[w]: the last read with a watch that w asked for
  object          \* object[w]: the SaberSession

vars == <<tree, data_watches, child_watches, instance, triggers, request,
          object>>

\* A request: the method, its path, whether it is still running, and as
\* history what the watch is set against, and whether an event has been
\* sent to the watcher since the watch was set.
NoRequest ==
  [op |-> "none", path |-> Root, running |-> FALSE, base |-> {}, told |-> FALSE]
Running(op, path) ==
  [op |-> op, path |-> path, running |-> TRUE, base |-> {}, told |-> FALSE]
Answered(op, path, base, told) ==
  [op |-> op, path |-> path, running |-> FALSE, base |-> base, told |-> told]

\* A session: how far its destructor is, whether a HandleMessage with a bare
\* `this` waits in a loop, whether the running request came from there, and
\* as history whether one waited or ran when the destructor began.
Object == [life : {"alive", "going", "gone"}, queued : BOOLEAN,
           bare : BOOLEAN, stray : BOOLEAN]
NewObject ==
  [life |-> "alive", queued |-> FALSE, bare |-> FALSE, stray |-> FALSE]

\* What a data watch and a child watch on path are about.
DataView(t, path) ==
  IF path \notin DOMAIN t.nodes THEN {}
  ELSE {<<t.nodes[path].created_id, t.nodes[path].version, t.nodes[path].data>>}
ChildView(t, path) == SetAt(t.childrens, path)

Trigger(kind, path) == [kind |-> kind, path |-> path]

\* Faulty: the child watches of the node itself are triggered.
NodeTriggersOfNode(path) ==
  IF Parent(path) = Root THEN <<Trigger("data", path)>>
  ELSE <<Trigger("data", path), Trigger("child", path)>>

\* The calls at the end of Create and Delete: there is none for the root.
NodeTriggers(path) ==
  IF Parent(path) = Root THEN <<Trigger("data", path)>>
  ELSE <<Trigger("data", path), Trigger("child", Parent(path))>>

-----------------------------------------------------------------------------
(* The thread that executes the log.                                       *)

Write(u, calls) ==
  /\ triggers = << >>
  /\ instance < MaxInstance
  /\ instance' = instance + 1
  /\ tree' = u
  /\ triggers' = calls
  /\ UNCHANGED <<data_watches, child_watches, request, object>>

Txn(sid) == [instance_id |-> instance + 1, session_id |-> sid]

ExecuteCreate(args, sid) ==
  Write(Create(tree, args, Txn(sid)),
        IF CreateCode(tree, args.path) = "RC_OK"
        THEN NodeTriggers(NewPath(tree, args.path)) ELSE << >>)

ExecuteDelete(args) ==
  Write(Delete(tree, args, Txn(0)),
        IF DeleteCode(tree, args.path, args.version) = "RC_OK"
        THEN NodeTriggers(args.path) ELSE << >>)

ExecuteSetData(args) ==
  Write(SetData(tree, args, Txn(0)),
        IF SetDataCode(tree, args.path, args.version) = "RC_OK"
        THEN <<Trigger("data", args.path)>> ELSE << >>)

\* The watch manager that a request's method uses.
Kind(op) == IF op = "GetChildren" THEN "child" ELSE "data"

Fire ==
  LET t == Head(triggers)
      m == IF t.kind = "data" THEN data_watches ELSE child_watches
      told == {w \in Triggered(m, t.path) :
                 request[w].path = t.path /\ Kind(request[w].op) = t.kind}
  IN  /\ triggers # << >>
      /\ triggers' = Tail(triggers)
      /\ data_watches' = IF t.kind = "data"
                         THEN TriggerWatcher(data_watches, t.path)
                         ELSE data_watches
      /\ child_watches' = IF t.kind = "child"
                          THEN TriggerWatcher(child_watches, t.path)
                          ELSE child_watches
      /\ request' = [w \in Watcher |->
           IF w \in told THEN [request[w] EXCEPT !.told = TRUE]
           ELSE request[w]]
      /\ UNCHANGED <<tree, instance, object>>

-----------------------------------------------------------------------------
(* The event loops: reads with a watch.                                    *)

\* HandleMessage may be called: by OnMessage, or by the loop it is queued to.
\* While it is queued last_finished_ is false and OnMessage does not call it.
Ready(w) ==
  /\ ~request[w].running
  /\ object[w].life = "alive" \/ object[w].queued

HandleMessage(w) ==
  object' = [object EXCEPT ![w].bare = object[w].queued, ![w].queued = FALSE]

\* The reply is sent; if another message waits, its HandleMessage is queued.
Done(w) ==
  \E waiting \in BOOLEAN :
    /\ waiting => w \in Eager
    /\ object' = [object EXCEPT ![w].queued = waiting, ![w].bare = FALSE]

StartExists(w, path) ==
  /\ Ready(w)
  /\ ParsePath(path) = "RC_OK"
  /\ data_watches' = AddWatcher(data_watches, path, w)
  /\ request' = [request EXCEPT ![w] = Running("Exists", path)]
  /\ HandleMessage(w)
  /\ UNCHANGED <<tree, child_watches, instance, triggers>>

FinishExists(w) ==
  /\ request[w].running /\ request[w].op = "Exists"
  /\ request' = [request EXCEPT ![w] =
        Answered("Exists", @.path, DataView(tree, @.path), @.told)]
  /\ Done(w)
  /\ UNCHANGED <<tree, data_watches, child_watches, instance, triggers>>

StartGetData(w, path) ==
  /\ Ready(w)
  /\ ParsePath(path) = "RC_OK"
  /\ path \in DOMAIN tree.nodes
  /\ request' = [request EXCEPT ![w] = Running("GetData", path)]
  /\ HandleMessage(w)
  /\ UNCHANGED <<tree, data_watches, child_watches, instance, triggers>>

FinishGetData(w) ==
  /\ request[w].running /\ request[w].op = "GetData"
  /\ data_watches' = AddWatcher(data_watches, request[w].path, w)
  /\ request' = [request EXCEPT ![w] =
        Answered("GetData", @.path, DataView(tree, @.path), FALSE)]
  /\ Done(w)
  /\ UNCHANGED <<tree, child_watches, instance, triggers>>

GetChildren(w, path) ==
  /\ Ready(w)
  /\ ParsePath(path) = "RC_OK"
  /\ path \in DOMAIN tree.nodes
  /\ ~IsEphemeral(tree.nodes[path].type)
  /\ child_watches' = AddWatcher(child_watches, path, w)
  /\ request' = [request EXCEPT ![w] =
        Answered("GetChildren", path, ChildView(tree, path), FALSE)]
  /\ Done(w)
  /\ UNCHANGED <<tree, data_watches, instance, triggers>>

\* A message that sets no watch: another type, or a read that is refused.
OtherMessage(w) ==
  /\ Ready(w)
  /\ Done(w)
  /\ UNCHANGED <<tree, data_watches, child_watches, instance, triggers, request>>

\* ~SaberSession: DataTree::RemoveWatcher.  A request that OnMessage handles
\* holds the session; one from the loop does not.
StartRemoveWatcher(w) ==
  /\ object[w].life = "alive"
  /\ request[w].running => object[w].bare
  /\ data_watches' = RemoveWatcher(data_watches, w)
  /\ object' = [object EXCEPT ![w].life = "going",
                  ![w].stray = object[w].queued \/ request[w].running]
  /\ UNCHANGED <<tree, child_watches, instance, triggers, request>>

\* Faulty: the child watches stay.
FinishRemoveWatcherDataOnly(w) ==
  /\ object[w].life = "going"
  /\ object' = [object EXCEPT ![w].life = "gone"]
  /\ UNCHANGED <<tree, data_watches, child_watches, instance, triggers, request>>

FinishRemoveWatcher(w) ==
  /\ object[w].life = "going"
  /\ child_watches' = RemoveWatcher(child_watches, w)
  /\ object' = [object EXCEPT ![w].life = "gone"]
  /\ UNCHANGED <<tree, data_watches, instance, triggers, request>>

-----------------------------------------------------------------------------
Init ==
  /\ tree = EmptyTree
  /\ data_watches = NoWatches
  /\ child_watches = NoWatches
  /\ instance = 0
  /\ triggers = << >>
  /\ request = [w \in Watcher |-> NoRequest]
  /\ object = [w \in Watcher |-> NewObject]

WriteStep ==
  \/ \E args \in CreateArgs, sid \in SessionId : ExecuteCreate(args, sid)
  \/ \E args \in DeleteArgs : ExecuteDelete(args)
  \/ \E args \in SetDataArgs : ExecuteSetData(args)
  \/ Fire

ReadStep(w) ==
  \/ \E path \in ReadPath :
       StartExists(w, path) \/ StartGetData(w, path) \/ GetChildren(w, path)
  \/ FinishExists(w)
  \/ FinishGetData(w)
  \/ OtherMessage(w)
  \/ StartRemoveWatcher(w)
  \/ FinishRemoveWatcher(w)

Next == WriteStep \/ \E w \in Watcher : ReadStep(w)

Spec == Init /\ [][Next]_vars

-----------------------------------------------------------------------------
(* Properties.                                                             *)

IsWatches(m) ==
  /\ m = [path_to_watches |-> m.path_to_watches,
          watch_to_paths |-> m.watch_to_paths]
  /\ IsMap(m.path_to_watches, Path, SUBSET Watcher)
  /\ IsMap(m.watch_to_paths, Watcher, SUBSET Path)

Op == {"none", "Exists", "GetData", "GetChildren"}

\* Every variable has the type of the field it models.
TypeOK ==
  /\ IsTree(tree)
  /\ IsWatches(data_watches)
  /\ IsWatches(child_watches)
  /\ instance \in 0 .. MaxInstance
  /\ triggers \in Seq([kind : {"data", "child"}, path : Path])
  /\ DOMAIN request = Watcher
  /\ \A w \in Watcher :
       /\ request[w].op \in Op
       /\ request[w].path \in Path
       /\ request[w].running \in BOOLEAN
       /\ request[w].told \in BOOLEAN
  /\ object \in [Watcher -> Object]

\* path_to_watches_ and watch_to_paths_ are inverse to each other in both
\* managers: the iterators that RemoveWatcher and TriggerWatcher
\* dereference without a test are never end().
WatchMapsInverse == InverseMaps(data_watches) /\ InverseMaps(child_watches)

\* The session is there and its last read with a watch has been answered.
Watching(w) ==
  /\ object[w].life = "alive"
  /\ ~request[w].running
  /\ request[w].op \in {"Exists", "GetData", "GetChildren"}

Armed(w) ==
  w \in Triggered(IF Kind(request[w].op) = "data" THEN data_watches
                  ELSE child_watches, request[w].path)

View(w) ==
  IF Kind(request[w].op) = "data" THEN DataView(tree, request[w].path)
  ELSE ChildView(tree, request[w].path)

TriggerPending(w) ==
  \E i \in DOMAIN triggers :
    triggers[i] = Trigger(Kind(request[w].op), request[w].path)

\* A watch misses no change: until an event is sent for it the watcher stays
\* registered, and when the node is no longer what the watch was set against
\* (for Exists and GetChildren what the reply says, for GetData what the node
\* was when the watch was added) the trigger is on its way.
WatchNeverMisses ==
  \A w \in Watcher : Watching(w) /\ ~request[w].told =>
    /\ Armed(w)
    /\ View(w) = request[w].base \/ TriggerPending(w)

\* After ~SaberSession no watch manager holds a pointer to the session,
\* whatever watches it has set, lost and set again: unless a HandleMessage
\* with a bare `this` was queued or running when the destructor began
\* (saber_session.cc:231), which may register the session again behind it.
NoDanglingWatcher ==
  \A w \in Watcher : object[w].life = "gone" /\ ~object[w].stray =>
    \A m \in {data_watches, child_watches} :
      /\ w \notin DOMAIN m.watch_to_paths
      /\ \A p \in DOMAIN m.path_to_watches : w \notin m.path_to_watches[p]
=============================================================================
