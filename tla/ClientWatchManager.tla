------------------------ MODULE ClientWatchManager ------------------------
(***************************************************************************)
(* The watches of a client (saber/client/client_watch_manager.cc): two     *)
(* maps from a path to watchers.  An event of a node takes the watchers of *)
(* its path out of one map, an event of the session takes all of them out  *)
(* of both; default is the watcher_ that hears every event of the session. *)
(* An event is [type, path].                                               *)
(***************************************************************************)
EXTENDS HashMap

NoWatches == [kind \in {"data", "child"} |-> EmptyMap]

\* AddDataWatcher and AddChildWatcher, by the kind of the watch.
AddWatcher(m, kind, path, watcher) ==
  [m EXCEPT ![kind] = Put(@, path, SetAt(@, path) \cup {watcher})]

\* The map that an event of a node is about.
KindOf(type) == IF type = "ET_NODE_CHILDREN_CHANGED" THEN "child" ELSE "data"

All(f) == UNION {f[p] : p \in DOMAIN f}

\* Faulty: an event of the session does not reach the watchers of children.
TriggeredDataOnly(m, default, event) ==
  IF event.type = "ET_NONE" THEN default \cup All(m["data"])
  ELSE SetAt(m[KindOf(event.type)], event.path)

\* TriggerWatcher: the watchers whose Process is called.
Triggered(m, default, event) ==
  IF event.type = "ET_NONE" THEN default \cup All(m["data"]) \cup All(m["child"])
  ELSE SetAt(m[KindOf(event.type)], event.path)

\* The watches that it leaves.
Untriggered(m, event) ==
  IF event.type = "ET_NONE" THEN NoWatches
  ELSE [m EXCEPT ![KindOf(event.type)] = Erase(@, event.path)]
=============================================================================
