------------------------ MODULE ServerWatchManager ------------------------
(***************************************************************************)
(* The watches of one kind on a server (saber/server/server_watch_manager  *)
(* .cc): a value with the two maps of class ServerWatchManager, from a     *)
(* path to its watchers and from a watcher to its paths, and one operator  *)
(* per method.  Every method holds the manager's mutex from its first to   *)
(* its last line, the calls of Process included.                           *)
(***************************************************************************)
EXTENDS HashMap

NoWatches == [path_to_watches |-> EmptyMap, watch_to_paths |-> EmptyMap]

AddWatcher(m, path, watcher) ==
  [path_to_watches |-> Put(m.path_to_watches, path,
                           SetAt(m.path_to_watches, path) \cup {watcher}),
   watch_to_paths |-> Put(m.watch_to_paths, watcher,
                          SetAt(m.watch_to_paths, watcher) \cup {path})]

\* For each path of watcher the code dereferences path_to_watches_.find(path)
\* without a test.
RemoveWatcher(m, watcher) ==
  IF watcher \notin DOMAIN m.watch_to_paths THEN m
  ELSE [path_to_watches |-> Discard(m.path_to_watches,
                                    m.watch_to_paths[watcher], watcher),
        watch_to_paths |-> Erase(m.watch_to_paths, watcher)]

\* The watchers that get the event, and the maps without them.
Triggered(m, path) == SetAt(m.path_to_watches, path)

\* Faulty: the watchers keep the path.
TriggerWatcherOneMap(m, path) ==
  [m EXCEPT !.path_to_watches = Erase(@, path)]

TriggerWatcher(m, path) ==
  IF path \notin DOMAIN m.path_to_watches THEN m
  ELSE [path_to_watches |-> Erase(m.path_to_watches, path),
        watch_to_paths |-> Discard(m.watch_to_paths,
                                   m.path_to_watches[path], path)]

\* The two maps say the same: each watcher of a path has the path, each
\* path of a watcher has the watcher, and no set is empty.
InverseMaps(m) ==
  /\ \A p \in DOMAIN m.path_to_watches :
       /\ m.path_to_watches[p] # {}
       /\ \A w \in m.path_to_watches[p] : p \in SetAt(m.watch_to_paths, w)
  /\ \A w \in DOMAIN m.watch_to_paths :
       /\ m.watch_to_paths[w] # {}
       /\ \A p \in m.watch_to_paths[w] : w \in SetAt(m.path_to_watches, p)
=============================================================================
