--------------------------- MODULE ClientSession ---------------------------
(***************************************************************************)
(* How a client finds the master, keeps its session and hears of its       *)
(* watches (saber/client/saber_client.cc, server_manager_impl.cc,          *)
(* client_watch_manager.cc).  What becomes of its requests is the subject  *)
(* of ClientServer: here they are reads that set a watch on one path, of   *)
(* its data or of its children.  The watcher of a kind has its name.       *)
(*                                                                         *)
(* The servers have one replicated database.  One that is not the master   *)
(* names the one that it takes for the master, or none.  The answers to a  *)
(* connect are those of OnConnectRequest, without its threads, which       *)
(* SaberServer has.  A server may notice late that a connection is gone.   *)
(***************************************************************************)
EXTENDS ClientWatchManager, Sequences, FiniteSets, Naturals

CONSTANTS
  Servers,   \* the servers, 1 .. n
  Up,        \* those that can be connected to
  MaxMove,   \* bound on changes of the mastership and of the servers
  MaxFault,  \* bound on broken connections, failed connects and proposals
  MaxRead    \* bound on the reads

ASSUME BoundAssumption ==
  /\ IsFiniteSet(Servers) /\ Servers = 1 .. Cardinality(Servers)
  /\ Up \subseteq Servers /\ Up # {}
  /\ MaxMove \in Nat /\ MaxFault \in Nat /\ MaxRead \in Nat

VARIABLES
  state_, session_id_, can_send_, master_,
  servers_, next_,         \* of the ServerManager
  tcp,                     \* client_ waits for delay_, connects, or is open
  server,                  \* the server that it connects to
  watches,                 \* watch_manager_
  reads,                   \* outgoing_queue_
  c2s, s2c,                \* what is under way on the connection
  shut,                    \* the server has closed it
  on,                      \* the session that is on it, at the server
  reply,                   \* the read that the server is about to answer
  home,                    \* <<server, session id>> of a SaberSession
  lingers,                 \* its last connection is taken for open
  regs,                    \* the kinds of which it has a watch
  master,                  \* the server that is the master
  informed,                \* the servers know that
  db,                      \* the sessions in the database
  drawn,                   \* the last session id drawn
  moves, faults, readings, \* counters for the bounds
  told,                    \* history: the session of the last SS_CONNECTED
  expired,                 \* history: SS_EXPIRED came after that
  silent,                  \* history: a session took the place of another
                           \* without SS_EXPIRED
  owed,                    \* history: watchers set and not called since
  overtaken                \* history: kinds of notifications that have come
                           \* before the reply to the read

session == <<state_, session_id_, can_send_>>
choice == <<master_, servers_, next_, tcp, server>>
wires == <<c2s, s2c, shut>>
object == <<on, reply, home, lingers, regs>>
cluster == <<master, informed, db, drawn>>
bounds == <<moves, faults, readings>>
events == <<told, expired, silent>>
watching == <<watches, owed, overtaken>>
vars == <<session, choice, reads, wires, object, cluster, bounds, events, watching>>

Kinds == {"data", "child"}
Nobody == <<0, 0>>
Message(type, arg) == [type |-> type, arg |-> arg]
Orders == {f \in [Servers -> Servers] : \A s, t \in Servers : f[s] = f[t] => s = t}

\* Connect has been called.
Init ==
  /\ state_ = "SS_DISCONNECTED" /\ session_id_ = 0 /\ can_send_ = FALSE
  /\ master_ = 0 /\ servers_ = [i \in Servers |-> i] /\ next_ = 1
  /\ tcp = "connects" /\ server = servers_[1] /\ reads = <<>>
  /\ c2s = <<>> /\ s2c = <<>> /\ shut = FALSE
  /\ on = 0 /\ reply = "none" /\ home = Nobody /\ lingers = FALSE /\ regs = {}
  /\ master \in Up /\ informed = FALSE /\ db = {} /\ drawn = 0
  /\ moves = 0 /\ faults = 0 /\ readings = 0
  /\ told = 0 /\ expired = FALSE /\ silent = FALSE
  /\ watches = NoWatches /\ owed = {} /\ overtaken = {}

Fault == faults < MaxFault /\ faults' = faults + 1
-----------------------------------------------------------------------------
\* The client.

\* Faulty: the server that was tried last is tried again.
NextIndexLast == IF next_ = 0 THEN 0 ELSE next_ - 1

\* The index that GetNext uses.
NextIndex == IF next_ >= Cardinality(Servers) THEN 0 ELSE next_

\* TriggerWatcher.
TriggerWatcher(event) ==
  /\ watches' = Untriggered(watches, event)
  /\ owed' = owed \ Triggered(watches, {}, event)

\* TriggerState, if any event of the session is reported.
TriggerState(reported) ==
  IF reported THEN TriggerWatcher([type |-> "ET_NONE", path |-> ""])
  ELSE UNCHANGED <<watches, owed>>

OnConnection ==
  /\ tcp = "connects" /\ server \in Up /\ tcp' = "open"
  /\ c2s' = <<Message("MT_CONNECT", session_id_)>> /\ UNCHANGED <<s2c, shut>>
  /\ state_' = "SS_CONNECTING" /\ TriggerState(state_ # "SS_CONNECTING")
  /\ UNCHANGED <<session_id_, can_send_, master_, servers_, next_, server,
                 reads, object, cluster, bounds, events, overtaken>>

OnFailue ==
  /\ tcp = "connects" /\ (Fault \/ (server \notin Up /\ UNCHANGED faults))
  /\ can_send_' = FALSE /\ master_' = 0 /\ tcp' = "waits"
  /\ state_' = "SS_DISCONNECTED" /\ TriggerState(state_ # "SS_DISCONNECTED")
  /\ UNCHANGED <<session_id_, servers_, next_, server, reads, wires, object,
                 cluster, moves, readings, events, overtaken>>

\* The timer delay_: Connect(GetNext()).
OnDelay ==
  /\ tcp = "waits" /\ tcp' = "connects" /\ next_' = NextIndex + 1
  /\ server' = servers_[NextIndex + 1]
  /\ UNCHANGED <<session, master_, servers_, reads, wires, object, cluster,
                 bounds, events, watching>>

\* Faulty: an answer that names no master is followed, too.
OnCloseFollows(hint) ==
  /\ state_' = "SS_DISCONNECTED" /\ TriggerState(state_ # "SS_DISCONNECTED")
  /\ can_send_' = FALSE /\ master_' = hint /\ tcp' = "connects" /\ server' = hint
  /\ c2s' = <<>> /\ s2c' = <<>> /\ shut' = FALSE /\ on' = 0 /\ reply' = "none"
  /\ lingers' = (lingers \/ on # 0)
  /\ UNCHANGED <<session_id_, servers_, next_, reads, home, regs, cluster,
                 moves, readings, events, overtaken>>

\* OnClose, where hint is the master_ that it finds.
OnClose(hint) ==
  /\ state_' = "SS_DISCONNECTED" /\ TriggerState(state_ # "SS_DISCONNECTED")
  /\ can_send_' = FALSE /\ master_' = hint
  /\ tcp' = IF hint = 0 THEN "waits" ELSE "connects"
  /\ server' = IF hint = 0 THEN server ELSE hint
  /\ c2s' = <<>> /\ s2c' = <<>> /\ shut' = FALSE /\ on' = 0 /\ reply' = "none"
  /\ lingers' = (lingers \/ on # 0)
  /\ UNCHANGED <<session_id_, servers_, next_, reads, home, regs, cluster,
                 moves, readings, events, overtaken>>

\* The connection breaks, or the server has closed it.
Close ==
  /\ tcp = "open" /\ OnClose(master_)
  /\ Fault \/ (shut /\ s2c = <<>> /\ UNCHANGED faults)

\* GetData or GetChildren with a watcher.
Read(kind) ==
  /\ readings < MaxRead /\ readings' = readings + 1
  /\ reads' = Append(reads, kind)
  /\ c2s' = IF can_send_ THEN Append(c2s, Message("read", kind)) ELSE c2s
  /\ UNCHANGED <<session, choice, s2c, shut, object, cluster, moves, faults,
                 events, watching>>

\* Faulty: a session that the server has replaced is not reported.
ExpiresOnFailure(sid) == session_id_ # 0 /\ sid = 0

\* OnConnect reports SS_EXPIRED.
Expires(sid) == session_id_ # 0 /\ sid # session_id_

\* OnConnect.  sid is 0 in an answer other than RC_OK and RC_RECONNECT, after
\* which the client asks for a new session.
OnConnect(sid) ==
  LET ok == sid # 0
  IN /\ state_' = IF ok THEN "SS_CONNECTED" ELSE "SS_CONNECTING"
     /\ TriggerState(ok \/ Expires(sid))
     /\ session_id_' = sid /\ can_send_' = (ok \/ can_send_)
     /\ c2s' = c2s \o (IF ok THEN [i \in DOMAIN reads |-> Message("read", reads[i])]
                       ELSE <<Message("MT_CONNECT", 0)>>)
     /\ told' = IF ok THEN sid ELSE told
     /\ expired' = (~ok /\ (expired \/ Expires(sid)))
     /\ silent' = (silent \/ (ok /\ told \notin {0, sid} /\ ~expired /\ ~Expires(sid)))
     /\ UNCHANGED <<choice, reads, overtaken>>

\* OnGetData or OnGetChildren with RC_OK: the watcher is added.  (Exists adds
\* one to the same map as GetData.  The check of the id and the replies that
\* come for another read are in ClientServer.)
OnReply(kind) ==
  /\ reads' = Tail(reads)
  /\ watches' = AddWatcher(watches, kind, "path", kind)
  /\ owed' = owed \cup {kind}
  /\ UNCHANGED <<session, choice, c2s, events, overtaken>>

OnNotification(kind) ==
  /\ TriggerWatcher([type |-> IF kind = "data" THEN "ET_NODE_DATA_CHANGED"
                              ELSE "ET_NODE_CHILDREN_CHANGED", path |-> "path"])
  /\ overtaken' = IF reply = kind \/ \E i \in DOMAIN s2c : s2c[i] = Message("reply", kind)
                  THEN overtaken \cup {kind} ELSE overtaken
  /\ UNCHANGED <<session, choice, reads, c2s, events>>

UpdateServers ==
  /\ servers_' \in Orders /\ next_' = 0
  /\ UNCHANGED <<session, master_, tcp, server, reads, c2s, events, watching>>

OnMessage ==
  /\ tcp = "open" /\ s2c # <<>>
  /\ LET m == Head(s2c)
     IN \/ m.type = "MT_MASTER" /\ OnClose(m.arg) /\ UNCHANGED faults
        \/ /\ \/ m.type = "MT_CONNECT" /\ OnConnect(m.arg)
              \/ m.type = "reply" /\ OnReply(m.arg)
              \/ m.type = "MT_NOTIFICATION" /\ OnNotification(m.arg)
              \/ m.type = "MT_SERVERS" /\ UpdateServers
           /\ s2c' = Tail(s2c)
           /\ UNCHANGED <<shut, object, cluster, bounds>>
-----------------------------------------------------------------------------
\* The servers.

Answer(m) == s2c' = Append(s2c, m)
AnswerMaster ==
  \E hint \in IF informed THEN {master} ELSE Servers \cup {0} :
    Answer(Message("MT_MASTER", hint))
Asked(type) == tcp = "open" /\ ~shut /\ c2s # <<>> /\ Head(c2s).type = type

\* A connect: another server is the master; the session is on a connection that
\* is taken for open; the connect fails; or the session, or a new one, is on
\* this connection.
ServerConnect ==
  LET sid == Head(c2s).arg
      known == sid \in db
      id == IF known THEN sid ELSE drawn + 1
      held == sid # 0 /\ home = <<server, sid>> /\ lingers
  IN /\ Asked("MT_CONNECT") /\ c2s' = Tail(c2s)
     /\ \/ /\ server # master /\ AnswerMaster
           /\ shut' = TRUE /\ UNCHANGED <<on, home, lingers, regs, db, drawn, faults>>
        \/ /\ server = master /\ held /\ Answer(Message("MT_CONNECT", 0))
           /\ shut' = TRUE /\ UNCHANGED <<on, home, lingers, regs, db, drawn, faults>>
        \/ /\ server = master /\ ~held /\ Fault /\ Answer(Message("MT_CONNECT", 0))
           /\ UNCHANGED <<shut, on, home, lingers, regs, db, drawn>>
        \/ /\ server = master /\ ~held /\ Answer(Message("MT_CONNECT", id))
           /\ on' = id /\ home' = <<server, id>> /\ lingers' = FALSE
           /\ regs' = IF home = home' THEN regs ELSE {}
           /\ db' = db \cup {id} /\ drawn' = IF known THEN drawn ELSE id
           /\ UNCHANGED <<shut, faults>>
     /\ UNCHANGED <<session, choice, reads, reply, master, informed, moves,
                    readings, events, watching>>

\* DoIt for a read: the watch is set; Done sends the reply.
ServerRead ==
  /\ Asked("read") /\ on # 0 /\ reply = "none"
  /\ c2s' = Tail(c2s) /\ reply' = Head(c2s).arg
  /\ regs' = regs \cup {reply'} /\ overtaken' = overtaken \ {reply'}
  /\ UNCHANGED <<session, choice, reads, s2c, shut, on, home, lingers, cluster,
                 bounds, events, watches, owed>>

ServerReply ==
  /\ reply # "none" /\ reply' = "none" /\ Answer(Message("reply", reply))
  /\ UNCHANGED <<session, choice, reads, c2s, shut, on, home, lingers, regs,
                 cluster, bounds, events, watching>>

\* A change is executed, and Process tells the session.
Change(kind) ==
  /\ kind \in regs /\ regs' = regs \ {kind}
  /\ IF on = 0 \/ shut THEN UNCHANGED s2c ELSE Answer(Message("MT_NOTIFICATION", kind))
  /\ UNCHANGED <<session, choice, reads, c2s, shut, on, reply, home, lingers,
                 cluster, bounds, events, watching>>

\* The server sees that the connection is gone.
Notices ==
  /\ lingers /\ lingers' = FALSE
  /\ UNCHANGED <<session, choice, reads, wires, on, reply, home, regs, cluster,
                 bounds, events, watching>>

\* A session that is on no connection ends.
Expire(sid) ==
  /\ sid # on /\ db' = db \ {sid}
  /\ IF home[2] = sid THEN home' = Nobody /\ lingers' = FALSE /\ regs' = {}
     ELSE UNCHANGED <<home, lingers, regs>>
  /\ UNCHANGED <<session, choice, reads, wires, on, reply, master, informed,
                 drawn, bounds, events, watching>>

MasterMoves(s) ==
  /\ s # master /\ moves < MaxMove /\ moves' = moves + 1 /\ master' = s
  /\ informed' = FALSE
  /\ UNCHANGED <<session, choice, reads, wires, object, db, drawn, faults,
                 readings, events, watching>>

\* Before this a server names an earlier master, or none.
Learn ==
  /\ ~informed /\ informed' = TRUE
  /\ UNCHANGED <<session, choice, reads, wires, object, master, db, drawn,
                 bounds, events, watching>>

\* CleanSessions of a server that is not the master any more.
CleanSessions ==
  /\ home[1] \notin {0, master} /\ home' = Nobody /\ lingers' = FALSE /\ regs' = {}
  /\ IF on = 0 THEN UNCHANGED <<s2c, shut>>
     ELSE AnswerMaster /\ shut' = TRUE
  /\ on' = 0 /\ reply' = "none"
  /\ UNCHANGED <<session, choice, reads, c2s, cluster, bounds, events,
                 watching>>

NewServers ==
  /\ moves < MaxMove /\ moves' = moves + 1
  /\ on # 0 /\ Answer(Message("MT_SERVERS", 0))
  /\ UNCHANGED <<session, choice, reads, c2s, shut, object, cluster, faults,
                 readings, events, watching>>
-----------------------------------------------------------------------------
Client == OnConnection \/ OnFailue \/ OnDelay \/ Close \/ OnMessage
Server == ServerConnect \/ ServerRead \/ ServerReply \/ CleanSessions

Next ==
  \/ Client \/ Server \/ Notices \/ Learn \/ NewServers
  \/ \E kind \in Kinds : Read(kind) \/ Change(kind)
  \/ \E sid \in db : Expire(sid)
  \/ \E s \in Up : MasterMoves(s)

Spec == Init /\ [][Next]_vars

\* The loop of the client and the server go on, a server notices in the end
\* that a connection is gone, and learns who the master is.
FairSpec ==
  /\ Spec /\ WF_vars(Client) /\ WF_vars(Server) /\ WF_vars(Notices)
  /\ WF_vars(Learn)
-----------------------------------------------------------------------------
Msg == [type : {"MT_CONNECT"}, arg : 0 .. drawn]
       \cup [type : {"MT_MASTER", "MT_SERVERS"}, arg : Servers \cup {0}]
       \cup [type : {"read", "reply", "MT_NOTIFICATION"}, arg : Kinds]

\* The variables have the values that their declarations describe.
TypeOK ==
  /\ state_ \in {"SS_DISCONNECTED", "SS_CONNECTING", "SS_CONNECTED"}
  /\ session_id_ \in 0 .. drawn /\ can_send_ \in BOOLEAN
  /\ master_ \in Servers \cup {0} /\ servers_ \in Orders
  /\ next_ \in 0 .. Cardinality(Servers)
  /\ tcp \in {"waits", "connects", "open"} /\ server \in Servers
  /\ \A kind \in Kinds : IsMap(watches[kind], {"path"}, SUBSET Kinds)
  /\ reads \in Seq(Kinds)
  /\ c2s \in Seq(Msg) /\ s2c \in Seq(Msg) /\ shut \in BOOLEAN
  /\ on \in 0 .. drawn /\ home \in (Servers \cup {0}) \X (0 .. drawn)
  /\ reply \in Kinds \cup {"none"} /\ regs \subseteq Kinds
  /\ master \in Up /\ drawn \in Nat /\ db \subseteq 1 .. drawn
  /\ owed \subseteq Kinds /\ overtaken \subseteq Kinds

\* A client that is told SS_CONNECTED and has another session than the last
\* time was told SS_EXPIRED in between, whether the server gave it the new
\* session at once or after a connect that failed.
ExpiredTold == ~silent

\* A watcher that was added and has not been called since is in the watch
\* manager, and the server has the watch or its notification is under way.
\* The exceptions: the connection is gone, of which the watcher will be told;
\* and a notification that was sent before the reply to the read, which finds
\* no watcher at the client.
WatchKept ==
  \A kind \in owed :
    /\ kind \in SetAt(watches[kind], "path")
    /\ \/ on = 0 \/ kind \in regs \/ kind \in overtaken
       \/ \E i \in DOMAIN s2c : s2c[i] = Message("MT_NOTIFICATION", kind)

\* Once the mastership stays and nothing breaks any more, the client is
\* connected to the master and stays so, whatever servers were down, whatever
\* master it was told of before, and whatever order its list is in.
SettlesOnMaster == <>[](state_ = "SS_CONNECTED" /\ server = master)
=============================================================================
