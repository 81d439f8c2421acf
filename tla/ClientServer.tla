---------------------------- MODULE ClientServer ----------------------------
(***************************************************************************)
(* One client and one server: the connections between them, the session    *)
(* of the client on the server, and the threads of the server that handle  *)
(* the session's messages.                                                 *)
(*                                                                         *)
(* The server has a loop thread for every connection, one callback thread  *)
(* for Skywalker (paxos_callback_thread_size is 1 by default) and the      *)
(* RunLoop thread.  A handler is cut where another thread may come         *)
(* between: OnMessage before it takes the lock, Done between its send and  *)
(* its lock.  A connection makes at most one session object, so an object  *)
(* has the number of that connection.                                      *)
(*                                                                         *)
(* Sessions do not expire here (SessionBuckets models the expiry), so none *)
(* is destroyed while a message of it is queued (DataTreeWatches has that),*)
(* and a server that loses the mastership does not get it back.            *)
(***************************************************************************)
EXTENDS SessionManager, Sequences

CONSTANTS
  MaxConn,      \* connections the client makes
  MaxMessage,   \* no connect fails once the client's message_id is this
  Plans         \* what happens: requests, pings and faults

C == INSTANCE SaberClient
S == INSTANCE SaberSession

\* A connection breaks; the client calls Close; the server loses the
\* mastership; a proposal is not chosen; the database refuses a write.
AllFaults == {"break", "close", "lose_master", "propose_fails", "refuse"}

ASSUME BoundAssumption ==
  /\ MaxConn \in Nat /\ MaxMessage \in Nat
  /\ Plans \subseteq [requests : Seq(C!RequestType), pings : Nat,
                       faults : SUBSET AllFaults]

VARIABLES
  client,     \* the client's state
  link,       \* the connection of the client's TcpClient, 0 when there is none
  plan,       \* the requests still to be issued, the pings still to be sent,
              \* and the faults that may occur
  issued,     \* history: the requests issued since the last Connect
  conn,       \* the connections
  session,    \* the session objects of the server, by the connection made for
  sessions,   \* the server's sessions_: session id -> session object
  work,       \* what every thread of the server is doing
  functors,   \* the messages queued in the loop of a connection
  proposals,  \* proposed and not decided
  callbacks,  \* decided, for the callback thread, in order
  db,         \* the session table: session id -> version
  instance,   \* the instance of the last decision
  nextSid,    \* GetNextSessionId
  isMaster,
  cleaning,   \* CleanSessions: queued, holding the lock, still to visit, visited
  settled,    \* history: the requests executed, answered or refused
  executed    \* history: the writes executed

clientVars == <<client, link, plan, issued>>
serverVars == <<session, sessions, cleaning>>
paxosVars == <<proposals, callbacks, db, instance>>
history == <<settled, executed>>
vars == <<clientVars, conn, serverVars, work, functors, paxosVars, nextSid,
          isMaster, history>>

Conn == 1 .. MaxConn
CallbackThread == 0
RunLoopThread == MaxConn + 1
Thread == 0 .. MaxConn + 1

\* A thread at work: the message, where it is in its handling, the session
\* object (or the connection, for a connect), and Done's p.
Work(stage, m, object, p) ==
  [stage |-> stage, m |-> m, object |-> object, p |-> p]

NoMessage == C!Message("none", 0, 0)

Idle == Work("idle", NoMessage, 0, 0)

\* A connection: its state at each end, what is under way, and the
\* server's Entry.
NewConn ==
  [cli |-> "none", srv |-> "none", c2s |-> <<>>, s2c |-> <<>>,
   started |-> FALSE, session |-> 0]

NoSession == S!NewSession(0, 0, 0)

-----------------------------------------------------------------------------
(* Voyager's connections.                                                  *)

\* conn_wp_.lock(): the object is there until the last reference is gone.
Lock(k) == IF k # 0 /\ conn[k].srv \in {"open", "closing", "closed"} THEN k ELSE 0

IsConnected(k) == k # 0 /\ conn[k].srv = "open"

\* A message that the server sends on connection k; it is dropped if the
\* connection is not open.
ServerSend(cs, k, m) ==
  IF k # 0 /\ cs[k].srv = "open" THEN [cs EXCEPT ![k].s2c = Append(@, m)] ELSE cs

ForceClose(cs, k) ==
  IF cs[k].srv = "open" THEN [cs EXCEPT ![k].srv = "closing"] ELSE cs

ClientSend(cs, k, ms) ==
  IF k # 0 /\ cs[k].cli = "open" THEN [cs EXCEPT ![k].c2s = @ \o ms] ELSE cs

\* The connection ends at the server: what was not read is lost.
ServerCloses(k) ==
  /\ \/ conn[k].srv = "closing"
     \/ conn[k].srv = "open"
        /\ \/ "break" \in plan.faults
           \/ conn[k].cli = "closed" /\ conn[k].c2s = <<>>
  /\ work[k] = Idle
  /\ conn' = [conn EXCEPT ![k].srv = "closed", ![k].c2s = <<>>]
  /\ UNCHANGED <<clientVars, serverVars, work, functors, paxosVars, nextSid,
                 isMaster, history>>

\* The last reference to the connection goes away.
Freed(k) ==
  /\ conn[k].srv = "closed"
  /\ work[k] = Idle
  /\ \A t \in Thread : work[t].p # k
  /\ conn' = [conn EXCEPT ![k].srv = "freed"]
  /\ UNCHANGED <<clientVars, serverVars, work, functors, paxosVars, nextSid,
                 isMaster, history>>

\* The connection ends at the client.
ClientCloses(k) ==
  /\ link = k /\ conn[k].cli = "open"
  /\ \/ "break" \in plan.faults
     \/ conn[k].srv # "open" /\ conn[k].s2c = <<>>
  /\ conn' = [conn EXCEPT ![k].cli = "closed", ![k].s2c = <<>>]
  /\ client' = C!OnClose(client)
  /\ link' = 0
  /\ UNCHANGED <<plan, issued, serverVars, work, functors, paxosVars, nextSid,
                 isMaster, history>>

-----------------------------------------------------------------------------
(* The client.                                                             *)

Connect ==
  /\ ~client.has_started
  /\ \E k \in Conn : conn[k].cli = "none"
  /\ client' = C!ClearMessage(client)
  /\ issued' = {}
  /\ UNCHANGED <<link, plan, conn, serverVars, work, functors, paxosVars,
                 nextSid, isMaster, history>>

\* A TCP connection is made, on both sides.
OnConnection(k) ==
  /\ client.has_started /\ link = 0
  /\ conn[k].cli = "none" /\ \A j \in Conn : j < k => conn[j].cli # "none"
  /\ conn' = [conn EXCEPT ![k].cli = "open", ![k].srv = "open",
                          ![k].c2s = <<C!ConnectMessage(client)>>]
  /\ client' = C!OnConnection(client)
  /\ link' = k
  /\ UNCHANGED <<plan, issued, serverVars, work, functors, paxosVars, nextSid,
                 isMaster, history>>

\* The user issues requests after Connect, which clears the earlier ones.
Request ==
  /\ client.has_started /\ plan.requests # <<>>
  /\ plan' = [plan EXCEPT !.requests = Tail(@)]
  /\ LET c == C!Request(client, Head(plan.requests))
     IN  /\ client' = c
         /\ issued' = issued \cup {c.outgoing[Len(c.outgoing)]}
         /\ conn' = ClientSend(conn, link, C!TrySend(c))
  /\ UNCHANGED <<link, serverVars, work, functors, paxosVars, nextSid,
                 isMaster, history>>

\* The ping timer, which runs while the client is connected.
OnTimer ==
  /\ client.can_send /\ link # 0 /\ plan.pings > 0
  /\ plan' = [plan EXCEPT !.pings = @ - 1]
  /\ conn' = ClientSend(conn, link, <<C!Message("MT_PING", 0, 0)>>)
  /\ UNCHANGED <<client, link, issued, serverVars, work, functors,
                 paxosVars, nextSid, isMaster, history>>

\* SaberClient::Close, and the OnClose that follows it.  The user does not
\* call Connect again between the two.
Close ==
  /\ "close" \in plan.faults /\ client.has_started
  /\ client' = C!OnClose([client EXCEPT !.has_started = FALSE])
  /\ conn' = IF link = 0 THEN conn
             ELSE [ClientSend(conn, link, <<C!Message("MT_CLOSE", 0, 0)>>)
                     EXCEPT ![link].cli = "closed", ![link].s2c = <<>>]
  /\ link' = 0
  /\ UNCHANGED <<plan, issued, serverVars, work, functors, paxosVars, nextSid,
                 isMaster, history>>

\* SaberClient::OnMessage.
ClientReceive(k) ==
  /\ link = k /\ conn[k].cli = "open" /\ conn[k].s2c # <<>>
  /\ LET m   == Head(conn[k].s2c)
         cs  == [conn EXCEPT ![k].s2c = Tail(@)]
     IN  CASE m.type = "MT_CONNECT" ->
                /\ client' = C!OnConnect(client, m)
                /\ conn' = ClientSend(cs, k, C!OnConnectSends(client, m))
                /\ link' = k
           [] m.type = "MT_MASTER" ->
                /\ client' = C!OnClose(client)
                /\ conn' = [cs EXCEPT ![k].cli = "closed", ![k].s2c = <<>>]
                /\ link' = 0
           [] OTHER ->
                /\ client' = IF m.type \in C!RequestType THEN C!OnReply(client, m)
                             ELSE client
                /\ conn' = cs
                /\ link' = k
  /\ UNCHANGED <<plan, issued, serverVars, work, functors, paxosVars, nextSid,
                 isMaster, history>>

-----------------------------------------------------------------------------
(* The loop thread of a connection.                                        *)

Readable(k) ==
  conn[k].srv \in {"open", "closing"} /\ work[k] = Idle /\ conn[k].c2s # <<>>

\* The connections after the message at the front of c2s has been read.
Read(k) == [conn EXCEPT ![k].c2s = Tail(@)]

\* OnConnectRequest refuses to move a session from a live connection.
StillConnected(sid) ==
  sid \in DOMAIN sessions /\ IsConnected(session[sessions[sid]].conn)

\* Faulty: the version of a new session is -1.
ConnectProposalMinusOne(m, k) ==
  LET known == m.session_id \in DOMAIN db
  IN  [m |-> [m EXCEPT !.session_id = IF known THEN @ ELSE nextSid,
                       !.version = IF known THEN db[m.session_id] ELSE -1],
       object |-> k]

\* The connect that is proposed: for the session, or for a new one.
ConnectProposal(m, k) ==
  LET known == m.session_id \in DOMAIN db
  IN  [m |-> [m EXCEPT !.session_id = IF known THEN @ ELSE nextSid,
                       !.version = IF known THEN db[m.session_id] ELSE 0],
       object |-> k]

\* A connect that fails is sent again at once; the bound stops that.
ConnectMayFail == "propose_fails" \in plan.faults /\ client.message_id < MaxMessage

\* HandleMessage for a connect, in one step: what comes between its look at
\* sessions_ and its look at the database is in SaberServer.
ReceiveConnect(k) ==
  /\ Readable(k) /\ ~cleaning.held
  /\ LET m     == Head(conn[k].c2s)
         begun == [Read(k) EXCEPT ![k].started = TRUE]
         no    == [m EXCEPT !.session_id = 0, !.code = "RC_UNKNOWN"]
     IN  /\ m.type = "MT_CONNECT"
         /\ \/ /\ ~isMaster
               /\ conn' = ForceClose(
                    ServerSend(Read(k), k, [m EXCEPT !.type = "MT_MASTER"]), k)
               /\ UNCHANGED <<proposals, nextSid>>
            \/ /\ isMaster /\ conn[k].started
               /\ conn' = Read(k)
               /\ UNCHANGED <<proposals, nextSid>>
            \/ /\ isMaster /\ ~conn[k].started /\ StillConnected(m.session_id)
               /\ conn' = ForceClose(ServerSend(begun, k, no), k)
               /\ UNCHANGED <<proposals, nextSid>>
            \/ /\ isMaster /\ ~conn[k].started /\ ~StillConnected(m.session_id)
               /\ conn' = begun
               /\ proposals' = proposals \cup {ConnectProposal(m, k)}
               /\ nextSid' = IF m.session_id \in DOMAIN db THEN nextSid
                             ELSE nextSid + 1
            \/ /\ isMaster /\ ~conn[k].started /\ ~StillConnected(m.session_id)
               /\ ConnectMayFail
               /\ conn' = ServerSend(Read(k), k,
                            [m EXCEPT !.session_id = 0, !.code = "RC_FAILED"])
               /\ UNCHANGED <<proposals, nextSid>>
  /\ UNCHANGED <<clientVars, serverVars, work, functors, callbacks, db,
                 instance, isMaster, history>>

\* The connection has a session that takes messages.
Accepting(k) == conn[k].session # 0 /\ ~session[conn[k].session].closed

\* Faulty: a close names the session, but not its version.
WithSessionOnly(m, o) ==
  IF o = 0 \/ m.type # "MT_CLOSE" THEN m
  ELSE [m EXCEPT !.session_id = session[o].session_id]

\* OnMessage puts the session and its version into a close.
WithSession(m, o) ==
  IF o = 0 \/ m.type # "MT_CLOSE" THEN m
  ELSE [m EXCEPT !.session_id = session[o].session_id,
                 !.version = session[o].version]

\* HandleMessage for anything else, and OnMessage up to its lock.
Receive(k) ==
  /\ Readable(k)
  /\ LET o == conn[k].session
         m == WithSession(Head(conn[k].c2s), o)
     IN  /\ m.type # "MT_CONNECT"
         /\ \/ /\ ~Accepting(k)
               /\ conn' = ForceClose(Read(k), k)
               /\ UNCHANGED work
            \/ /\ Accepting(k)
               /\ conn' = Read(k)
               /\ work' = IF m.type = "MT_PING" /\ session[o].pending_messages # <<>>
                          THEN work
                          ELSE [work EXCEPT ![k] = Work("checked", m, o, 0)]
  /\ UNCHANGED <<clientVars, serverVars, functors, paxosVars, nextSid,
                 isMaster, history>>

\* A message that Done has queued in the loop.
RunFunctor(k) ==
  /\ work[k] = Idle /\ functors[k] # <<>>
  /\ LET f == Head(functors[k])
     IN  work' = [work EXCEPT ![k] = Work("handle", f.m, f.object, 0)]
  /\ functors' = [functors EXCEPT ![k] = Tail(@)]
  /\ UNCHANGED <<clientVars, conn, serverVars, paxosVars, nextSid, isMaster,
                 history>>

-----------------------------------------------------------------------------
(* A session handles a message, in whatever thread.                        *)

\* The locked part of OnMessage.
Enqueue(t) ==
  /\ work[t].stage = "checked"
  /\ LET o == work[t].object
     IN  /\ session' = [session EXCEPT ![o] = S!Enqueue(@, work[t].m)]
         /\ work' = IF session[o].last_finished
                    THEN [work EXCEPT ![t].stage = "handle"]
                    ELSE [work EXCEPT ![t] = Idle]
  /\ UNCHANGED <<clientVars, conn, sessions, cleaning, functors, paxosVars,
                 nextSid, isMaster, history>>

\* The request is answered by this thread, with a code.
Answer(t, code) ==
  /\ work' = [work EXCEPT ![t].stage = "reply", ![t].m.code = code]
  /\ settled' = settled \cup ({work[t].m.id} \ {0})
  /\ UNCHANGED proposals

\* Faulty: a create is answered when its check has passed.
IsProposedClose(m) == m.type = "MT_CLOSE"

\* The messages DoIt proposes once they have passed the check.
IsProposed(m) == m.type \in {"MT_CREATE", "MT_CLOSE"}

\* SaberSession::Propose, which Skywalker may turn down.
Propose(t) ==
  \/ /\ proposals' = proposals \cup {[m |-> work[t].m, object |-> work[t].object]}
     /\ work' = [work EXCEPT ![t] = Idle]
     /\ UNCHANGED settled
  \/ "propose_fails" \in plan.faults /\ Answer(t, "RC_FAILED")

\* DoIt: the message is answered at once, refused by its check, or proposed.
DoIt(t) ==
  \/ ~IsProposed(work[t].m) /\ Answer(t, "RC_OK")
  \/ /\ work[t].m.type = "MT_CREATE" /\ "refuse" \in plan.faults
     /\ Answer(t, "RC_NODE_EXISTS")
  \/ IsProposed(work[t].m) /\ Propose(t)

\* HandleMessage: only the master does it, another server names the master.
Handle(t) ==
  /\ work[t].stage = "handle"
  /\ \/ /\ work[t].m.type # "MT_MASTER" /\ isMaster
        /\ DoIt(t)
     \/ /\ work[t].m.type = "MT_MASTER" \/ ~isMaster
        /\ work' = [work EXCEPT ![t].stage = "reply", ![t].m.type = "MT_MASTER"]
        /\ UNCHANGED <<settled, proposals>>
  /\ UNCHANGED <<clientVars, conn, serverVars, functors, callbacks, db,
                 instance, nextSid, isMaster, executed>>

\* Done, up to its lock.
DoneSend(t) ==
  /\ work[t].stage = "reply"
  /\ LET p == Lock(session[work[t].object].conn)
         m == work[t].m
     IN  /\ conn' = IF m.type = "MT_PING" THEN conn ELSE ServerSend(conn, p, m)
         /\ work' = [work EXCEPT ![t].stage = "sent", ![t].p = p]
  /\ UNCHANGED <<clientVars, serverVars, functors, paxosVars, nextSid,
                 isMaster, history>>

\* The locked part of Done, and what follows it.
DoneFinish(t) ==
  /\ work[t].stage = "sent"
  /\ LET o == work[t].object
         m == work[t].m
         p == work[t].p
         s == session[o]
     IN  /\ session' = [session EXCEPT ![o] = S!Finish(@, m, p)]
         /\ functors' = IF S!HasNext(s, m, p)
                        THEN [functors EXCEPT ![p] =
                               Append(@, [m |-> Head(s.pending_messages), object |-> o])]
                        ELSE functors
         /\ conn' = IF p # 0 /\ ~S!GoesOn(m, p) THEN ForceClose(conn, p) ELSE conn
         /\ work' = [work EXCEPT ![t] = Idle]
  /\ UNCHANGED <<clientVars, sessions, cleaning, paxosVars, nextSid, isMaster,
                 history>>

-----------------------------------------------------------------------------
(* Skywalker decides the proposals, in some order, and the state machine   *)
(* executes what is chosen.                                                *)

Decided(pr, m) ==
  /\ proposals' = proposals \ {pr}
  /\ callbacks' = Append(callbacks, [m |-> m, object |-> pr.object])

\* A chosen value is executed.  The tree may have changed since the check of
\* a write, which is then refused here.
Execute(pr) ==
  /\ pr \in proposals
  /\ instance' = instance + 1
  /\ LET m   == pr.m
         sid == m.session_id
         ok  == CreateSessionOK(db, sid, m.version)
     IN  \/ /\ m.type = "MT_CONNECT"
            /\ db' = CreateSession(db, sid, instance + 1, m.version)
            /\ Decided(pr, [m EXCEPT !.session_id = IF ok THEN sid ELSE 0,
                                     !.version = instance + 1,
                                     !.code = IF ok THEN "RC_OK" ELSE "RC_UNKNOWN"])
            /\ UNCHANGED history
         \/ /\ m.type = "MT_CREATE"
            /\ Decided(pr, m)
            /\ executed' = executed \cup {m.id}
            /\ settled' = settled \cup {m.id}
            /\ UNCHANGED db
         \/ /\ m.type = "MT_CREATE" /\ "refuse" \in plan.faults
            /\ Decided(pr, [m EXCEPT !.code = "RC_NODE_EXISTS"])
            /\ settled' = settled \cup {m.id}
            /\ UNCHANGED <<db, executed>>
         \/ /\ m.type = "MT_CLOSE"
            /\ db' = CloseSession(db, sid, m.version)
            /\ Decided(pr, m)
            /\ UNCHANGED history
  /\ UNCHANGED <<clientVars, conn, serverVars, work, functors, nextSid, isMaster>>

\* A proposal is not chosen: the status that the callback gets is not ok.
Fail(pr) ==
  /\ pr \in proposals /\ "propose_fails" \in plan.faults
  /\ pr.m.type = "MT_CONNECT" => ConnectMayFail
  /\ Decided(pr, [pr.m EXCEPT !.session_id = 0, !.code = "RC_FAILED"])
  /\ settled' = settled \cup (IF pr.m.type = "MT_CREATE" THEN {pr.m.id} ELSE {})
  /\ UNCHANGED <<clientVars, conn, serverVars, work, functors, db, instance,
                 nextSid, isMaster, executed>>

-----------------------------------------------------------------------------
(* The callback thread.                                                    *)

\* WeakCallback, up to Done.
CallbackMessage ==
  /\ work[CallbackThread] = Idle /\ callbacks # <<>>
  /\ Head(callbacks).m.type # "MT_CONNECT"
  /\ LET b == Head(callbacks)
     IN  work' = [work EXCEPT ![CallbackThread] = Work("reply", b.m, b.object, 0)]
  /\ callbacks' = Tail(callbacks)
  /\ UNCHANGED <<clientVars, conn, serverVars, functors, proposals, db, instance,
                 nextSid, isMaster, history>>

\* The callback of a connect, up to OnConnectResponse: CreateSession finds
\* the session or makes a new one.
CallbackConnect ==
  /\ work[CallbackThread] = Idle /\ callbacks # <<>>
  /\ Head(callbacks).m.type = "MT_CONNECT"
  /\ callbacks' = Tail(callbacks)
  /\ LET m   == Head(callbacks).m
         k   == Head(callbacks).object
         sid == m.session_id
         Bind(o, s, code) ==
           /\ session' = [session EXCEPT ![o] = [s EXCEPT !.version = m.version]]
           /\ sessions' = Put(sessions, sid, o)
           /\ conn' = [conn EXCEPT ![k].session = o]
           /\ work' = [work EXCEPT ![CallbackThread] =
                         Work("respond", [m EXCEPT !.code = code], k, 0)]
     IN  \/ /\ m.code # "RC_OK"
            /\ conn' = [conn EXCEPT ![k].started = FALSE]
            /\ work' = [work EXCEPT ![CallbackThread] = Work("respond", m, k, 0)]
            /\ UNCHANGED <<session, sessions>>
         \/ /\ m.code = "RC_OK" /\ ~cleaning.held /\ sid \in DOMAIN sessions
            /\ Bind(sessions[sid], S!OnConnect(session[sessions[sid]], Lock(k)),
                    "RC_RECONNECT")
         \/ /\ m.code = "RC_OK" /\ ~cleaning.held /\ sid \notin DOMAIN sessions
            /\ Bind(k, S!NewSession(sid, m.version, Lock(k)), "RC_OK")
  /\ UNCHANGED <<clientVars, cleaning, functors, proposals, db, instance,
                 nextSid, isMaster, history>>

\* OnConnectResponse.
CallbackRespond ==
  /\ work[CallbackThread].stage = "respond"
  /\ LET w == work[CallbackThread]
     IN  conn' = ServerSend(conn, Lock(w.object), w.m)
  /\ work' = [work EXCEPT ![CallbackThread] = Idle]
  /\ UNCHANGED <<clientVars, serverVars, functors, paxosVars, nextSid, isMaster,
                 history>>

-----------------------------------------------------------------------------
(* The mastership is lost, and the RunLoop thread runs CleanSessions.      *)

LoseMaster ==
  /\ "lose_master" \in plan.faults /\ isMaster
  /\ isMaster' = FALSE
  /\ cleaning' = [cleaning EXCEPT !.due = TRUE]
  /\ UNCHANGED <<clientVars, conn, session, sessions, work, functors, paxosVars,
                 nextSid, history>>

CleanSessions ==
  /\ cleaning.due
  /\ cleaning' = [due |-> FALSE, held |-> TRUE, told |-> {},
                  todo |-> {sessions[sid] : sid \in DOMAIN sessions}]
  /\ UNCHANGED <<clientVars, conn, session, sessions, work, functors, paxosVars,
                 nextSid, isMaster, history>>

\* OnMessage with MT_MASTER, up to its lock, for one of the sessions.
CleanNext(o) ==
  /\ cleaning.held /\ work[RunLoopThread] = Idle /\ o \in cleaning.todo
  /\ cleaning' = [cleaning EXCEPT !.todo = @ \ {o}, !.told = @ \cup {o}]
  /\ work' = IF session[o].closed THEN work
             ELSE [work EXCEPT ![RunLoopThread] =
                    Work("checked", C!Message("MT_MASTER", 0, 0), o, 0)]
  /\ UNCHANGED <<clientVars, conn, session, sessions, functors, paxosVars,
                 nextSid, isMaster, history>>

\* Faulty: the sessions stay in the map.
CleanEndKeeps ==
  /\ cleaning.held /\ work[RunLoopThread] = Idle /\ cleaning.todo = {}
  /\ cleaning' = [cleaning EXCEPT !.held = FALSE]
  /\ UNCHANGED <<clientVars, conn, session, sessions, work, functors, paxosVars,
                 nextSid, isMaster, history>>

CleanEnd ==
  /\ cleaning.held /\ work[RunLoopThread] = Idle /\ cleaning.todo = {}
  /\ sessions' = EmptyMap
  /\ cleaning' = [cleaning EXCEPT !.held = FALSE]
  /\ UNCHANGED <<clientVars, conn, session, work, functors, paxosVars, nextSid,
                 isMaster, history>>

-----------------------------------------------------------------------------
Init ==
  /\ client = C!NewClient /\ link = 0
  /\ plan \in Plans /\ issued = {}
  /\ conn = [k \in Conn |-> NewConn]
  /\ session = [k \in Conn |-> NoSession] /\ sessions = EmptyMap
  /\ cleaning = [due |-> FALSE, held |-> FALSE, todo |-> {}, told |-> {}]
  /\ work = [t \in Thread |-> Idle]
  /\ functors = [k \in Conn |-> <<>>]
  /\ proposals = {} /\ callbacks = <<>> /\ db = EmptyMap /\ instance = 0
  /\ nextSid = 1 /\ isMaster = TRUE
  /\ settled = {} /\ executed = {}

User == Connect \/ Close \/ Request

Network ==
  \E k \in Conn : ServerCloses(k) \/ Freed(k) \/ ClientCloses(k)

ClientLoop ==
  \/ OnTimer
  \/ \E k \in Conn : OnConnection(k) \/ ClientReceive(k)

Loop(k) == ReceiveConnect(k) \/ Receive(k) \/ RunFunctor(k)

Session(t) == Enqueue(t) \/ Handle(t) \/ DoneSend(t) \/ DoneFinish(t)

Callback == CallbackMessage \/ CallbackConnect \/ CallbackRespond

Paxos == \E pr \in proposals : Execute(pr) \/ Fail(pr)

Clean == CleanSessions \/ CleanEnd \/ \E o \in Conn : CleanNext(o)

Next ==
  \/ User \/ Network \/ ClientLoop \/ Callback \/ Paxos \/ LoseMaster \/ Clean
  \/ \E k \in Conn : Loop(k)
  \/ \E t \in Thread : Session(t)

Spec == Init /\ [][Next]_vars

\* Every thread goes on with what it has to do, the network delivers what an
\* open connection carries, and Skywalker decides what is proposed.
FairSpec ==
  /\ Spec
  /\ \A k \in Conn : /\ WF_vars(OnConnection(k)) /\ WF_vars(ClientReceive(k))
                     /\ WF_vars(Loop(k))
  /\ \A t \in Thread : WF_vars(Session(t))
  /\ WF_vars(Callback) /\ WF_vars(Paxos)

-----------------------------------------------------------------------------
(* Properties.                                                             *)

Codes == {"RC_OK", "RC_RECONNECT", "RC_UNKNOWN", "RC_FAILED", "RC_NODE_EXISTS"}

Messages ==
  [type : C!RequestType \cup {"none", "MT_CONNECT", "MT_PING", "MT_CLOSE", "MT_MASTER"},
   id : Nat, session_id : Nat, version : Nat, code : Codes]

Items == [m : Messages, object : Conn]

Clients ==
  [has_started : BOOLEAN, session_id : Nat, can_send : BOOLEAN,
   message_id : Nat, outgoing : Seq(Messages),
   queue : [C!RequestType -> Seq(Nat)],
   calls : Seq([id : Nat, type : C!RequestType, code : Codes])]

Connections ==
  [cli : {"none", "open", "closed"},
   srv : {"none", "open", "closing", "closed", "freed"},
   c2s : Seq(Messages), s2c : Seq(Messages),
   started : BOOLEAN, session : 0 .. MaxConn]

Objects ==
  [session_id : Nat, version : Nat, conn : 0 .. MaxConn, closed : BOOLEAN,
   last_finished : BOOLEAN, pending_messages : Seq(Messages)]

Tasks ==
  [stage : {"idle", "checked", "handle", "reply", "sent", "respond"},
   m : Messages, object : 0 .. MaxConn, p : 0 .. MaxConn]

\* The values the variables of SaberClient, SaberSession, SaberServer and of
\* the connections between them can have.
TypeOK ==
  /\ client \in Clients /\ link \in 0 .. MaxConn /\ issued \subseteq Messages
  /\ plan \in [requests : Seq(C!RequestType), pings : Nat, faults : SUBSET AllFaults]
  /\ conn \in [Conn -> Connections]
  /\ session \in [Conn -> Objects] /\ IsMap(sessions, Nat, Conn)
  /\ cleaning \in [due : BOOLEAN, held : BOOLEAN, todo : SUBSET Conn, told : SUBSET Conn]
  /\ work \in [Thread -> Tasks] /\ functors \in [Conn -> Seq(Items)]
  /\ proposals \subseteq Items /\ callbacks \in Seq(Items)
  /\ IsMap(db, Nat, Nat) /\ instance \in Nat /\ nextSid \in Nat
  /\ isMaster \in BOOLEAN /\ settled \subseteq Nat /\ executed \subseteq Nat

\* Where session object o has a message in hand: in a thread, queued in a
\* loop, proposed, or decided.
IsMessageOf(b, o) == b.object = o /\ b.m.type # "MT_CONNECT"

InThread(o) ==
  {<<"thread", t>> : t \in {u \in Thread : /\ work[u].stage \in {"handle", "reply", "sent"}
                                           /\ work[u].object = o}}
InLoop(k, o) ==
  {<<"loop", k, i>> : i \in {j \in DOMAIN functors[k] : functors[k][j].object = o}}
Proposed(o) ==
  {<<"proposed", pr>> : pr \in {x \in proposals : IsMessageOf(x, o)}}
ToCallBack(o) ==
  {<<"decided", i>> : i \in {j \in DOMAIN callbacks : IsMessageOf(callbacks[j], o)}}

Handling(o) ==
  InThread(o) \cup (UNION {InLoop(k, o) : k \in Conn}) \cup Proposed(o) \cup ToCallBack(o)

\* A session handles one message at a time, whatever threads the messages,
\* the callbacks and the reconnects come in; and while it handles none,
\* none is waiting: last_finished_ is handed on by Done and never lost.
OneAtATime ==
  \A o \in Conn :
    IF session[o].last_finished
    THEN Handling(o) = {} /\ session[o].pending_messages = <<>>
    ELSE \E place \in Handling(o) : Handling(o) = {place}

\* The callbacks of the requests of one type are made in the order the
\* requests were issued, and never twice, whatever is sent again or
\* replied to twice.
CallsInOrder ==
  \A i, j \in DOMAIN client.calls :
    i < j /\ client.calls[i].type = client.calls[j].type
    => client.calls[i].id < client.calls[j].id

\* A write that is called back with RC_OK has been executed.
OKMeansExecuted ==
  \A i \in DOMAIN client.calls :
    client.calls[i].type = "MT_CREATE" /\ client.calls[i].code = "RC_OK"
    => client.calls[i].id \in executed

\* The assert of SaberServer::HandleMessage: a message for a session comes
\* on the connection the session is on.
OnOwnConnection ==
  \A k \in Conn :
    Readable(k) /\ conn[k].session # 0 /\ Head(conn[k].c2s).type # "MT_CONNECT"
    => Lock(session[conn[k].session].conn) = k

\* The asserts of SaberClient::OnMessage and OnCreate: a reply is for the
\* oldest request that waits.
RepliesExpected ==
  link # 0 /\ conn[link].s2c # <<>>
  => LET m == Head(conn[link].s2c)
     IN  m.type \in C!RequestType => C!ReplyExpected(client, m)

\* The connections do not break and the mastership is not lost.
Stays == plan.faults \cap {"break", "lose_master"} = {}

\* On connections that do not break, the asserts of the client hold.
SteadyReplies == Stays => RepliesExpected

\* The requests of a client that is not closed are executed, or answered,
\* in the order it issued them, as long as its connection stays.
StrictOrder ==
  Stays => \A m \in issued, id \in settled : m.id < id => m.id \in settled

\* A session that CleanSessions has visited is closed, or will be: the
\* message that names the master is on its way through it, and no reconnect
\* comes between.
MasterTold ==
  \A o \in cleaning.told :
    LET Told(b) == b.object = o /\ b.m.type = "MT_MASTER"
    IN  \/ session[o].closed
        \/ \E t \in Thread : Told(work[t])
        \/ \E i \in DOMAIN session[o].pending_messages :
             session[o].pending_messages[i].type = "MT_MASTER"
        \/ \E k \in Conn : \E i \in DOMAIN functors[k] : Told(functors[k][i])

\* A close that comes on an open connection and finds its session with
\* nothing else to do takes the session out of the table.  (One that has to
\* wait may be dropped with the other waiting messages, when Done finds that
\* the connection is gone.)
CloseTakesEffect ==
  \A o \in Conn :
    (\E k \in Conn :
       /\ IsConnected(k) /\ work[k] = Idle
       /\ conn[k].session = o /\ session[o].last_finished
       /\ Len(conn[k].c2s) = 1 /\ Head(conn[k].c2s).type = "MT_CLOSE")
    ~> session[o].session_id \notin DOMAIN db

\* Every request is called back in the end, unless the client is closed or
\* loses its connection.
\* (The requests are finitely many, so each of them is when none waits.)
Waiting ==
  /\ Stays /\ client.has_started
  /\ \E m \in issued : \A i \in DOMAIN client.calls : client.calls[i].id # m.id
AllAnswered == Waiting ~> ~Waiting

=============================================================================
