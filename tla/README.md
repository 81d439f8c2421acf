# Saber: TLA+ models, checks and proofs

Saber is a lock and naming service in the manner of ZooKeeper. A client keeps a
session with the master of a group of servers and reads and writes a tree of
nodes; ephemeral nodes go with their session, watches tell of changes. The
servers agree on the order of writes, connects and closes with Skywalker
(Paxos) and talk over Voyager (event loops and TCP); neither library is part of
the repository, and both are modelled from how Saber uses them.

## The system and its parts

| part | sources | modules |
|---|---|---|
| data tree of a replica | `server/data_tree.*` | `DataTree` (on `HashMap`) |
| watches of a replica | `server/server_watch_manager.*` | `ServerWatchManager`, `DataTreeWatches` |
| session table of a replica | `server/session_manager.*` | `SessionManager` |
| replicated database | `server/saber_db.*` | `SaberDB` |
| session object on the master | `server/saber_session.*` | `SaberSession`, `ClientServer` |
| connections, entries, expiry, mastership | `server/saber_server.*` | `SaberServer`, `SessionBuckets`, `ClientServer` |
| requests of a client | `client/saber_client.*` | `SaberClient`, `ClientServer` |
| session of a client: server, states, watches | `client/saber_client.*`, `client_watch_manager.*`, `server_manager*` | `ClientSession`, `ClientWatchManager` |
| run loop, timers | `util/runloop.*`, `util/timerlist.*` | `RunLoop`, `TimerList`, `TaskQueue` |
| facade, options, sequence numbers, logging | `client/saber.*`, `util/` | not modelled |
| messages, watcher interface | `proto/`, `service/` | as records in the modules above |
| version, programs, tests, benchmarks | `public/`, `main/`, `test/`, `benchmarks/` | not modelled |

How they meet: a request of the client goes over a connection to the loop
thread of that connection, from there to the session, which handles one message
at a time. A read is answered from the tree. A write is checked against the
tree of the master and proposed; every replica executes what is chosen
(`SaberDB`); the callback of the proposal lets the session reply. A tick of
every loop clears a bucket of entries, and an entry that dies closes its
session by proposing a close with the session's version (`SaberServer`). The
client keeps looking for the master, asks it for its session and hears of
changes (`ClientSession`). Both sides have a `RunLoop` for timers and for what
must not run in the thread that asks for it.

`PROJECT.json` lists every part with its status, the hazards of the code with
the properties that watch them, and for each definition the lines it models.

## The modules

Values and operators. `HashMap` is the part of `std::unordered_map` the code
uses, including `operator[]`, which inserts. `DataTree` has a tree as a record
of `nodes`, `childrens` and `ephemerals` and an operator for each method: one
for the code it answers (`CreateCode`, `DeleteCode`, ...) and one for the new
tree (`CheckCreate`, ...). `DeleteAnswer` adds to `DeleteCode` the
`RC_NO_PARENT` of a node that is deleted all the same. A path is a sequence of
names, a name a sequence of a base and a number, so that sequential names are
made and not guessed. `ServerWatchManager`, `ClientWatchManager`,
`SessionManager`, `SaberClient`, `SaberSession` and `TimerList` are of the same
kind.

State machines.

* `SaberDB`: any number of replicas with tree, session table, position in the
  log and checkpoints. `ProposeCreate/Delete/SetData` are the checks followed by
  a proposal, by a session that the server has had (`Served`), also when its
  session has been closed since; `ProposeConnect/Close` are those of the
  sessions, `Choose` and `Lose` are Skywalker, `Execute*` execute a chosen
  value. A close is executed in steps (`ExecuteClose`, `CloseNext`, `KillNext`),
  because the tree's mutex is released between two deletions. `MakeCheckpoint`
  copies the state, `WriteCheckpoint` runs later in the loop, `Restart`
  recovers.
* `DataTreeWatches`: one replica's tree with the two watch managers. A read
  with a watch is two steps where the code has two critical sections (`Exists`
  adds its watch before reading, `GetData` after), a write triggers in steps of
  their own. `object` is the session itself: `Done` may queue the next message
  to the loop with a bare `this` (`queued`), and the destructor
  (`StartRemoveWatcher`, `FinishRemoveWatcher`) waits for a request that an entry
  holds, and for none that came from there. The memory of a destroyed session is
  taken to be as it was, so such a request still reads and sets its watch.
* `SessionBuckets`: the circle of buckets of one loop, time in units of
  `Grain`, ticks, messages, connect callbacks that hold an entry, and clients
  that ping at the interval `SaberClient::OnConnect` computes.
* `ClientServer`: one client, its successive connections, the session objects
  of the server and the server's threads: a loop thread per connection, one
  callback thread, the run loop. `OnMessage` is cut before its lock and `Done`
  between its send and its lock, where other threads come in. A message queued
  with `QueueInLoop` waits in `functors`. Proposals are decided in any order
  and their callbacks run in the order of the decisions.

* `SaberServer`: the sessions of one group on one server, with the references
  that keep them alive. An entry is `kept` by the buckets or by the callback of
  a connect; `Expire` begins its destructor, `CloseSessionLocked` and `EndEntry`
  are the two halves of `CloseSession`, around the release of `mutexes_[group]`.
  `Holders(o)` are the entries that have session object `o`, and the callback
  thread holds one more while it is in `WeakCallback`: this is `unique()`.
  `ConnectRequest` and `ProposeConnect` are the halves of `OnConnectRequest`,
  `ConnectCallback` calls `CreateSession`. `MasterChanges` queues
  `CleanSessions`, which copies the table for the timer `CleanTimer` or tells
  the sessions of the new master. `mishaps` is a history of four things that the
  code lets happen (below).
* `RunLoop`: the thread of the loop, step by step (`Begin`, `Test`, `Lock`,
  `Wake`, `Procs`, `Fire`, `RunFunc`, ...), other threads that queue functions,
  set and remove timers and call `Exit` at any moment, and the clock, which
  runs (`Elapse`) and may be set back. A callback may itself set and remove
  timers. `TaskQueue` is the abstract specification: a queue whose functions
  run one at a time.
* `ClientSession`: one client and several servers. The client's handlers are
  actions (`OnConnection`, `OnFailue`, `OnClose`, `OnMessage`, ...); the servers
  answer a connect as `OnConnectRequest` does, notice late that a connection is
  gone, name masters that are not the master any more, notify, end sessions and
  send new lists of servers.

Definitions marked *Faulty* are variants of the definition that follows them,
with a plausible mistake. No specification uses them; they show that the
properties notice.

## What the runs check

| run | instance | result |
|---|---|---|
| `saberdb_tree` | 2 replicas, 1 session, log of 4, 1 open proposal, checkpoint at 3, restarts | trees well formed, sequential names new, replicas part only through a refused delete |
| `saberdb_sessions` | 1 replica, 2 sessions, log of 4, 2 open proposals, checkpoint at 3, restarts | only the first of the connects and closes with one version counts; a kill is never refused, touches only dead sessions, leaves nothing |
| `watches` | 2 watchers, of which 1 has messages queued, 2 paths, 3 writes | both maps inverse, no change missed once the watch is set, no dangling watcher but through a queued message |
| `session` | a lasting connection, 3 requests, a ping, refused writes, failed proposals; or 1 request, Close and Connect; or 2 connections that break, 1 request, a ping; or the mastership is lost; fairness | one message at a time; callbacks once and in order; RC_OK only if executed; a session told of the master is not opened again; where the connection stays: replies in order, all requests answered, a close that finds its session idle ends it |
| `server` | 2 connections, 2 changes of the mastership, 2 instances of another master, failed proposals; fairness | weak pointers lead to live sessions; a connected session is spared; a session without an entry is closed |
| `time` | the loop: 2 functions, 2 timers, a clock of 3 ms that is set back once, with fairness; or the buckets: 1 connection, the default timeout of 12 s and tick of 3 s | implements `TaskQueue`; index and timers agree; no timer early; timers fire; `Exit` ends the loop; silent entries die, active ones live |
| `client` | 3 servers of which 1 is down, 1 change of the master or of the list, 2 faults, 1 read; fairness | every replaced session is reported; a watcher is called or can still be; the client settles on the master |

Five runs show that the code does not do what the repository says of it:

* `replicas_agree` (`ReplicasAgree`). A check of a create inserts an empty set
  of children for the parent, on the checking server only. When that create is
  lost or fails, `Delete` of the parent is refused there and succeeds
  elsewhere. `README.md:1` of the repository says strongly consistent.
* `replies_expected` (`RepliesExpected`). A message that was waiting when the
  old connection went is answered on the new one. The asserts of
  `saber_client.cc:394` and `461` fail; in a release build the client takes a
  request from its queue that is not the one replied to.
* `own_connection` (`OnOwnConnection`). `OnConnectRequest` refuses a connect for
  a session that is on a live connection, but the session is moved only when the
  connect has been executed and called back. With three connections, of which
  the first is gone, the connects of the other two can both pass: the one of the
  third is executed, the one of the second is read then, takes the version just
  written and is executed too, and the callbacks move the session to the third
  connection and back to the second. A message on the third fails the assert of
  `saber_server.cc:198`; in a release build its reply goes to the second, which
  the client has left. Two connections are not enough for this.
* `server_assert` (`AssertSession`). `CloseSession` takes a session out of
  `sessions_` only if the dying entry has the last reference. If a message's
  callback holds the session at that moment, the weak pointer stays and then
  expires; the next connect of that session locks it, and the assert of
  `saber_server.cc:336` fails; a release build uses the null pointer.

* `pings` (`PingersLive`). `server_options.h:64` makes the session timeout four
  ticks, the server tells it to the client, which pings 3 s before it is over.
  `OnTimer` clears the bucket that was filed three ticks ago, so with the default
  options an entry is dropped after little more than three ticks of silence, and
  the ping interval of 9 s leaves no margin: a ping that is 0.5 s late is too
  late. `ActiveEntriesLive` has the bound that the code does keep.

### Exceptions in the properties

Some properties name the cases in which the code does otherwise. Each is a
history variable that only the step in question sets, so all other ways to
violate the property are covered. No line of the repository speaks of them.

* `WeakPointersLive`: the last entry found the session held by something else
  (`shared`), which is what `server_assert` shows.
* `Spared`: the entry of an object from an earlier mastership has erased the
  session's new object from `sessions_` (`erased`; `saber_server.cc:354` erases
  by id), so the timer takes the session for absent.
* `OrphansClosed`: `shared`; the close was proposed and not chosen (`lost`),
  which nobody repeats; the timer passed over a session because `sessions_` had
  an older object of it (`passed`).
* `NeverEarly`: a timer set when the clock is already behind and `RunTimerProcs`
  has not yet seen it is moved back with the others.
* `ExitEnds`: an `Exit` before `Loop` has begun is undone by `Loop`.
* `WatchKept`: a notification that was sent before the reply to the read finds
  no watcher at the client.
* `StrictOrder`, `SteadyReplies` and `AllAnswered` speak of a connection that
  stays (`Stays`). Over a reconnect a `Done`
  that found the old connection gone clears requests of the new one
  (`saber_session.cc:221`), and a later request may be handled before them;
  `replies_expected` shows what becomes of the replies.
* `CloseTakesEffect`: a close that waits behind another message may be cleared
  with it.
* `ActiveEntriesLive` and `PingersLive`: only the callback of a connect has kept
  the entry alive for a whole circle (`detained`). Its `index` may then be that of
  the current bucket, in which `UpdateBuckets` takes it to be.
* `NoDanglingWatcher`: a message was queued with a bare `this`, or ran from there,
  when the destructor of its session began (`stray`; `saber_session.cc:232`,
  marked `FIXME`). The read that it makes registers a session that is gone.
* `WatchNeverMisses` takes for `GetData` what the node was when the watch was
  added: a change between the read and that moment is not told.

### Bounds

The bounds are constants: `MaxInstance`, `MaxProposed`, `MaxConn`, `Plans`,
`MaxMessage` (which only stops a connect from failing for ever), `Grain`,
`MaxTerm`, `MaxFunc`, `MaxTimer`, `MaxNow`, `MaxBack`, `MaxMove`, `MaxFault`,
`MaxRead`.

* `SaberDB`: a path and its parent (and one more for the sessions) and a log of
  four are enough for a check between a create and a delete with a restart
  before and after each, and for two connects that race with a close. Stale
  versions come from a replica that lags behind the log or was restarted, so one
  replica is enough for that race. A session may own two nodes, so that a kill
  has more than one step. `replicas_agree` takes a log of five. A sequential
  node that is deleted and made again is covered by the proof of `NamesFresh`
  only.
* `ClientServer` (about 320,000 states): two connections are enough for a message
  of an old connection to meet a reconnect; the proofs cover any number of
  connections and requests and all faults at once, and only they have two requests
  of one type over a break. `own_connection` takes three.
* `SessionBuckets`: one connection, because the entries of a loop do not
  influence each other, and the default options; the proofs cover all values.
  `MCTime` has it and `RunLoop` in one instance: they share nothing, so in each
  behaviour one of them runs and the other rests.
* `SaberServer` (about 295,000 states): two connections are two entries of one
  session, two sessions, or an old and a new object of one; the mastership is
  lost and comes back, with a connect or a close elsewhere in between. All four
  mishaps happen. The proofs cover all values.
* `RunLoop` (about 121,000 states): two functions and two timers, one of which
  may repeat, are enough for a callback that removes another timer or itself
  and for a function queued in every phase of the loop. The clock stops at
  `MaxNow`; the timers due by then still fire.
* `ClientSession` (about 514,000 states): with three servers the first of the
  list is down and the client has to choose between two; two faults are a
  broken connection and a connect that fails after it. With one read a watch
  that is set again after a reconnect is covered by the proof of `WatchesKept`
  only.
* `DataTreeWatches` (about 1,709,000 states): three writes are a create of the
  parent, a create of the child and a delete or a change of either; one session of
  two has messages queued. Reads of the root are among the inputs and are refused,
  as `ParsePath` refuses them.

Servers are symmetric where the configuration says `SYMMETRY`;
those runs check invariants only.

`CHECK_DEADLOCK FALSE` is set where the bounds let the system stop: the log is
full, the requests are issued, the connections are used up, the loop has ended.

### Fairness

* `session` assumes weak fairness of the loop threads, the sessions'
  steps and the callback thread, of `OnConnection` and of what the client
  receives, and of Skywalker's decisions: the loops run what is queued as long
  as the process lives, TCP delivers on a connection that stays open, and Paxos
  decides while a majority is up. The user, the pings, `CleanSessions` and the
  faults are never forced.
* `server` assumes it of the ends of entries, `CleanSessions`, its timer and the
  execution of what is proposed, for the same reasons; the buckets expire the
  entry of a closed connection (`SessionBuckets` has when). The callback thread
  takes its calls in turn, so that `ConnectCallback`, which the calls of
  `WeakCallback` interrupt again and again, is strongly fair. Clients, failures
  and the mastership are free.
* `time` assumes it of the thread of the loop, of time, and of the end of a
  wait that was notified or has timed out. A spurious wake-up is never forced.
  (`TimeoutMs` gives -1 for an empty list, with which `wait_for` returns at
  once: the loop polls, and this is why a notification of `Exit` between the
  test and the wait may get lost.)
* `client` assumes it of the client's handlers, of the server's answers, of
  noticing that a connection is gone and of learning the master. Changes and the
  end of sessions are free.

### Refinement

`FirstInFirstRun` is `TaskQueue`'s specification with its fairness, for the
queue made of what the loop has taken (`funcs`) and what waits (`funcs_`). TLC
checks all of it; `Implements` proves the part without fairness for every bound.

## What is proved

The theorems hold for every value of the constants.

* `DataTreeProofs`: each operation of the tree preserves
  its type and `WellFormed(t, killing)`: every node but the root has a parent
  that lists it, what `childrens` lists exists, ephemeral nodes are leaves,
  `ephemerals` indexes them by owner but for those in `killing`, which a kill
  has taken off the index and not yet deleted, `children_num` counts, and the
  sequence numbers given out are at most `children_version`.
* `SaberDBProofs`: `Typed`, `Formed`, `KillSucceeds`, `NamesFresh`,
  `KillsOnlyDead`, `ReplicasFollow`, `FirstTakesEffect`, `CloseIsComplete`. None
  is inductive alone. `IInv` says of each replica that
  its tree is well formed but for the paths of the running kill, that these are
  ephemeral nodes of a session that is not in the table, and that both the
  copied and the written checkpoint restore a well-formed tree. A restart needs
  the last part, a kill the second. There is one lemma per action.

  `ReplicasFollow`, `FirstTakesEffect` and `CloseIsComplete` compare replicas
  that are at different instances, so they need what the log alone says. `HInv`
  says that there is a history `h`, the nodes and the sessions after each
  instance, in which each entry follows from the one before and the value of its
  instance. Every checkpoint has an entry of it. Every replica will have one when
  the close it is executing is done: a close is one step in the history
  (`KillAll`) and many in a replica, and `KillOne` shows that each deletion gets
  closer to the same nodes. The history has no `childrens_`; `SameCreate`,
  `SameSetData` and `SameDelete` show that an empty entry there matters only to a
  `Delete`, which is the case that `refused` records. `Fences` adds that the
  versions in the log and in the proposals are instances of earlier connects and
  that only one connect of a session has none. A chosen value continues the
  history (`HistoryGrows`), so no induction over the log is needed.
* `DataTreeWatchesProofs`: `Typed`, `MapsStayInverse`, `NothingMissed`,
  `NoneDangles`. Lemmas say what each method of a watch manager does to the
  pairs of path and watcher, and which nodes each write changes in the eyes of a
  watch. `IInv` adds to the properties that the tree is well formed, that a
  running `Exists` is registered unless it was told, that no watch is on the
  root (whose children have no events), and, unless it is `stray`, that a session
  that is going has no request and is already off the data watches, and that one
  that is gone is off both. A write announces every change it makes
  (`Announced`); a trigger tells all whose watch it takes away.
* `TimeProofs`, of `SessionBuckets`: `BucketsTyped`, `ActiveLive`, `SilentDie`.
  `IInv` locates each living entry: it lies in the bucket its index names, no
  older copy is nearer to being the current one, and its idle time is that of
  the ticks since it was filed, give or take one.
* `TimeProofs`, of `RunLoop`: `Typed`, `IndexKept`, `NotEarly`, `Implements`.
  `Inv` adds
  that a timer that is still to be inserted is not in the list and is inserted
  by one function only, that the time of a timer that does not repeat is no
  earlier than the end of what is left of its delay, both by the clock and by
  `last_time_out_` (the first carries it over a move of the timers, the second
  over a clock that is set back), and that `funcs` is empty while the loop
  waits, which the refinement needs.
* `SaberServerProofs`: `ServerTyped`, `PointersLive`, `ConnectedSpared`. `IInv`
  has, besides the types: a connection has one connect under way, and no session
  until that is done (`OneConnect`); what `sessions_` has is held by an entry or
  `shared`, and an entry that kills its session is the only one to hold it
  (`Linked`); each version is that of one object or one callback, and none is
  ahead of the instances (`Versions`); no close is proposed for a version whose
  callback is due (`NotDue`); the session of a connection is in `sessions_` or
  was erased (`Listed`); and no close is proposed for its version
  (`NotClosed`). The last is `Spared` without the database, so that it is kept
  when the database changes. There is one lemma per action.
* `ClientSessionProofs`: `ClientTyped`, `ExpiryTold`, `WatchesKept`. `IInv` is
  `Core` (the types; what the connection, the session on it and what is under
  way say of each other; a watcher that is owed a call, or will be, has its watch
  on the server, or the notification is under way or came first), `Flow` (the
  replies and reads under way are, in order, for the reads of
  `outgoing_queue_`, so a reply meets the read it is for) and `Expiry` (the
  client knows the session of the last `SS_CONNECTED`, or `SS_EXPIRED` came).
* `ClientServerSteps` and `ClientServerProofs`: `SessionTyped`,
  `CallbacksInOrder`, `OKIsEarned`, `OneMessageInHand`, `MasterIsTold`, for any
  number of connections, any requests and any faults. Each has its own
  invariant, on top of the types (`TInv`):
  - `OrderedClient`: in each queue of the client the ids increase, and they are
    above those called back and not above `message_id`. `OnReply` takes a prefix
    of a queue, whatever reply comes (`OnReplyOK`), so nothing is needed of the
    server.
  - `HInv`: wherever a create with `RC_OK` is on its way back (decided, with the
    callback thread, being sent, on a connection), its id is in `executed`.
  - `TurnInv`: where `last_finished` is false, exactly one of the places
    (threads, loops, proposals, callbacks) has a message of the session, and only
    once; where it is true none has, and none waits. `TurnPlaces` shows that this
    is `OneAtATime`. A connection's session object must not be in use when the
    callback makes it: `FreshInv` and `CallingInv` say that a connection has one
    connect under way and no session until it is called back.
  - `ToldInv` is `MasterTold`, `MapInv` that a session that was visited cannot be
    found by a connect any more.

  `ClientServerSteps` has what each action leaves alone and that it keeps `TInv`,
  `OrderedClient` and `HInv`; `ClientServerProofs`, which extends it, has the
  other invariants and all the theorems. `BelowFound`, that a reply has a least
  request it does not reach, is a hypothesis of some lemmas and is proved before
  the theorems (`BelowOK`).

Assumptions are the named `ASSUME`s of the modules: requests have the shape the
protocol gives them, session ids are not 0 (0 marks a node without an owner),
bounds are numbers, and the session timeout is at least a tick.

Only model-checked: liveness (`AllAnswered`, `CloseTakesEffect`,
`OrphansClosed`, `ExitEnds`, `TimersFire`, `SettlesOnMaster`, the fairness in
`FirstInFirstRun`), which is out of the prover's reach; and `StrictOrder` and
`SteadyReplies` of `ClientServer`, whose invariant has to follow each request
from the client's queues through the connection, the session's queue, the threads,
the proposals and back, in order.

## What is not modelled

* The inside of Skywalker and Voyager. A proposal is chosen once, lost or
  reported as failed; a connection delivers in order until it ends, and its
  object may outlive it.
* The client: the six kinds of request are two. A user who calls `Connect`
  before the `OnClose` of an earlier `Close` is left out. `Saber` forwards to
  `SaberClient`.
* The server: connection limits, start and stop. Session ids are taken to be
  new: `GetNextSessionId` makes them from the clock, the server and a
  `SequenceNumber` modulo 1024, so this holds while the clock does not go back
  and no millisecond has more than 1024 connects.
* What one module leaves to another: in `ClientServer` sessions do not expire, a
  lost mastership does not return and a connect is checked in one step
  (`SaberServer` has all three), and a session is not destroyed while a message
  of it is queued (`DataTreeWatches` has that); in `SaberServer` a session is
  told of a new master at once, also when it is busy (`ClientServer` has the
  delay) and entries expire at any time (`SessionBuckets` has when); in
  `ClientSession` the master's threads are one step, every read succeeds, and a
  reply meets the read it is for (`ClientServer` has refused requests and
  replies that come for another one).
* `CleanTimer` waits until the callbacks that were due when the table was copied
  have been called (`Prompt`): the code relies on 8 s being enough for that.
* `RunLoopThread`, `CountDownLatch`, logging, the command line programs, tests
  and benchmarks.
* Data: names, contents and times are model values or numbers; protobuf
  encoding, logging and formatting are left out.
