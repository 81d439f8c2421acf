---------------------------- MODULE SaberServer ----------------------------
(***************************************************************************)
(* How a server keeps the sessions of one group                            *)
(* (saber/server/saber_server.cc).  A SaberSession is kept alive by the    *)
(* entries of the connections it has been on and, for the time of a call,  *)
(* by the callback of a message (SaberSession::WeakCallback); sessions_    *)
(* only has weak pointers.  The last entry to die closes the session;      *)
(* CleanSessions closes, 8 s after the server has become the master, those *)
(* sessions of the database that nobody has come for.                      *)
(*                                                                         *)
(* The threads: an event loop for each connection, the callback thread of  *)
(* the group, the loop_ of the server, and the thread that executes what   *)
(* has been chosen.  A step is what a thread does under mutexes_[group],   *)
(* or between two calls of the node or the database.  A SaberSession       *)
(* object is named by the connection for which it was made.                *)
(*                                                                         *)
(* When entries expire is the subject of SessionBuckets, and what the      *)
(* messages of a session do that of ClientServer: here an entry may expire *)
(* whenever its event loop is idle, and a connection may close at any time.*)
(***************************************************************************)
EXTENDS SessionManager, Sequences, FiniteSets

CONSTANTS
  MaxConn,      \* bound on the connections that clients make
  MaxTerm,      \* bound on the changes of the mastership
  MaxInstance,  \* bound on the instances that another master uses
  Faults        \* a subset of {"propose_fails"}

ASSUME BoundAssumption ==
  /\ MaxConn \in Nat /\ MaxTerm \in Nat /\ MaxInstance \in Nat
  /\ Faults \subseteq {"propose_fails"}

Conn == 1 .. MaxConn

VARIABLES
  isMaster,   \* node_->IsMaster(group)
  term,       \* how often the mastership has changed
  entry,      \* entry[k]: the Entry of connection k
  session,    \* session[o]: the SaberSession made for connection o
  sessions_,  \* sessions_[group]: session id -> object
  asked,      \* the event loops between the two halves of OnConnectRequest
  proposed,   \* the values proposed and not yet chosen
  callbacks,  \* the callbacks of connects that the callback thread has to call
  locked,     \* the object that it has locked in WeakCallback
  db,         \* the SessionManager of this replica
  instance,   \* the last instance in which a session was connected
  drawn,      \* the last session id drawn by GetNextSessionId
  cleans,     \* the calls of CleanSessions queued in loop_
  timers,     \* the tables copied by CleanSessions that wait for the 8 s
  crashed,    \* CreateSession has used a null pointer
  mishaps     \* history: <<what, session id>>

node == <<isMaster, term>>
objects == <<session, sessions_>>
thread == <<callbacks, locked>>
data == <<db, instance>>
cleaning == <<cleans, timers>>
vars == <<node, entry, objects, asked, proposed, thread, data, drawn, cleaning,
          crashed, mishaps>>

NoSession == 0
NewEntry(open, started) == [life |-> "kept", open |-> open, started |-> started,
                            session |-> NoSession]
NoEntry == [life |-> "none", open |-> FALSE, started |-> FALSE,
            session |-> NoSession]
NoObject == [session_id |-> 0, version |-> 0, conn |-> 0, closed |-> FALSE,
             busy |-> FALSE]

\* The server is the master of an empty group, and the calls of CleanSessions
\* that come with that have been made.
Init ==
  /\ isMaster = TRUE /\ term = 0
  /\ entry = [k \in Conn |-> NoEntry]
  /\ session = [o \in Conn |-> NoObject] /\ sessions_ = EmptyMap
  /\ asked = {} /\ proposed = {} /\ callbacks = <<>> /\ locked = NoSession
  /\ db = EmptyMap /\ instance = 0 /\ drawn = 0
  /\ cleans = 0 /\ timers = {} /\ crashed = FALSE /\ mishaps = {}
-----------------------------------------------------------------------------
\* The references to entries and to sessions.

\* A proposed connect and its callback hold the entry.
InCallback(k) ==
  \/ \E p \in proposed : p.type = "connect" /\ p.conn = k
  \/ \E i \in DOMAIN callbacks : callbacks[i].conn = k

Holders(o) == {k \in Conn : /\ entry[k].life \notin {"none", "gone"}
                            /\ entry[k].session = o}
Alive(o) == Holders(o) # {} \/ o = locked
Unique(o) == Cardinality(Holders(o)) = 1 /\ o # locked

\* sessions_ has a weak pointer to a session that is gone.
Expired(sid) == sid \in DOMAIN sessions_ /\ ~Alive(sessions_[sid])
-----------------------------------------------------------------------------
\* The event loops.

\* The connection closes.  Nothing looks whether a connection is open before
\* it has its session, so one that closes earlier is like one that closes then.
OnClose(k) ==
  /\ entry[k].open /\ entry[k].session # NoSession
  /\ entry' = [entry EXCEPT ![k].open = FALSE]
  /\ UNCHANGED <<node, objects, asked, proposed, thread, data, drawn, cleaning,
                 crashed, mishaps>>

\* A message can come on k.
Readable(k) == /\ entry[k].open /\ entry[k].life = "kept"
               /\ \A q \in asked : q.conn # k

\* The session is alive and on an open connection.
Connected(sid) == /\ sid \in DOMAIN sessions_ /\ Alive(sessions_[sid])
                  /\ entry[session[sessions_[sid]].conn].open

\* A connect request, up to the check of sessions_.  It is the first message
\* on a connection, so OnConnection, which makes the entry, is the beginning
\* of the step.  A server that is not the master names the master and closes
\* the connection; a request for a session that is on an open connection is
\* refused, and its connection closed.
ConnectRequest(k, sid) ==
  /\ drawn + Cardinality(asked) < MaxConn
  /\ \/ entry[k] = NoEntry /\ \A j \in 1 .. k - 1 : entry[j] # NoEntry
     \/ Readable(k) /\ ~entry[k].started
  /\ entry' = [entry EXCEPT ![k] =
                  NewEntry(isMaster /\ ~Connected(sid), isMaster)]
  /\ asked' = IF isMaster /\ ~Connected(sid)
              THEN asked \cup {[conn |-> k, session_id |-> sid]} ELSE asked
  /\ UNCHANGED <<node, objects, proposed, thread, data, drawn, cleaning,
                 crashed, mishaps>>

\* The ids are distinct; that they also tell the time is of no interest.
GetNextSessionId == drawn + 1

\* The rest of OnConnectRequest: a session that the database does not know
\* gets a new id.
ProposeConnect(q) ==
  LET known == q.session_id \in DOMAIN db
      sid == IF known THEN q.session_id ELSE GetNextSessionId
      version == IF known THEN db[sid] ELSE 0
  IN /\ asked' = asked \ {q}
     /\ drawn' = IF known THEN drawn ELSE sid
     /\ \/ /\ proposed' = proposed \cup
                {[type |-> "connect", conn |-> q.conn, session_id |-> sid,
                  version |-> version]}
           /\ UNCHANGED entry
        \/ /\ "propose_fails" \in Faults
           /\ entry' = [entry EXCEPT ![q.conn].started = FALSE]
           /\ UNCHANGED proposed
     /\ UNCHANGED <<node, objects, thread, data, cleaning, crashed, mishaps>>

\* A write of the session on k, which is proposed.  (On a server that is not
\* the master it ends the connection, as OnClose does.)
Message(k) ==
  LET o == entry[k].session
  IN /\ Readable(k) /\ isMaster /\ o # NoSession
     /\ session[o].conn = k /\ ~session[o].closed /\ ~session[o].busy
     /\ session' = [session EXCEPT ![o].busy = TRUE]
     /\ UNCHANGED <<node, entry, sessions_, asked, proposed, thread, data, drawn,
                    cleaning, crashed, mishaps>>
-----------------------------------------------------------------------------
\* The end of an entry.

\* ~Entry: the connection is shut down, and a session is to be closed.
Ended(e) == [life |-> IF e.session = NoSession THEN "gone" ELSE "closing",
             open |-> FALSE, started |-> e.started, session |-> e.session]

\* OnTimer clears the last bucket in which k's entry is.  (An entry that the
\* callback of a connect holds dies when that ends, as if it had expired then.)
Expire(k) ==
  /\ entry[k].life = "kept" /\ ~InCallback(k) /\ \A q \in asked : q.conn # k
  /\ entry' = [entry EXCEPT ![k] = Ended(@)]
  /\ UNCHANGED <<node, objects, asked, proposed, thread, data, drawn, cleaning,
                 crashed, mishaps>>

\* Faulty: CloseSession leaves sessions_ alone.
ForgetNothing(sid) == sessions_

Forget(sid) == Erase(sessions_, sid)

\* The locked part of CloseSession.
CloseSessionLocked(k) ==
  LET o == entry[k].session
      sid == session[o].session_id
  IN /\ entry[k].life = "closing"
     /\ IF Unique(o)
        THEN /\ entry' = [entry EXCEPT ![k].life = "killing"]
             /\ sessions_' = Forget(sid)
             /\ mishaps' = IF sid \in DOMAIN sessions_ /\ sessions_[sid] # o
                           THEN mishaps \cup {<<"erased", sid>>} ELSE mishaps
        ELSE /\ entry' = [entry EXCEPT ![k].life = "leaving"]
             /\ UNCHANGED <<sessions_, mishaps>>
     /\ UNCHANGED <<node, session, asked, proposed, thread, data, drawn, cleaning,
                    crashed>>

\* The rest of it, and the end of the entry.
EndEntry(k) ==
  LET o == entry[k].session
      s == session[o]
      kill == /\ entry[k].life = "killing" /\ isMaster
              /\ s.session_id \in DOMAIN db /\ db[s.session_id] = s.version
  IN /\ entry[k].life \in {"killing", "leaving"}
     /\ entry' = [entry EXCEPT ![k].life = "gone"]
     /\ mishaps' = IF entry[k].life = "leaving" /\ Holders(o) = {k}
                   THEN mishaps \cup {<<"shared", s.session_id>>} ELSE mishaps
     /\ proposed' = IF kill
          THEN proposed \cup {[type |-> "close",
                               sessions |-> Put(EmptyMap, s.session_id, s.version)]}
          ELSE proposed
     /\ UNCHANGED <<node, objects, asked, thread, data, drawn, cleaning, crashed>>
-----------------------------------------------------------------------------
\* The values chosen, and the callback thread.

\* The replica executes a value, and the callback of a connect is due.
Choose(p) ==
  /\ proposed' = proposed \ {p}
  /\ \/ /\ p.type = "connect" /\ instance' = instance + 1
        /\ db' = CreateSession(db, p.session_id, instance', p.version)
        /\ callbacks' = Append(callbacks,
             [conn |-> p.conn, session_id |-> p.session_id, version |-> instance',
              ok |-> CreateSessionOK(db, p.session_id, p.version)])
     \/ /\ p.type = "close"
        /\ db' = [sid \in {i \in DOMAIN db : i \in DOMAIN p.sessions =>
                                             p.sessions[i] # db[i]} |-> db[sid]]
        /\ UNCHANGED <<instance, callbacks>>
  /\ UNCHANGED <<node, entry, objects, asked, locked, drawn, cleaning, crashed,
                 mishaps>>

\* A value that is not chosen: its callback is called with an error.  The
\* callback of a close does nothing, so the close is lost.
Fail(p) ==
  /\ "propose_fails" \in Faults /\ proposed' = proposed \ {p}
  /\ \/ /\ p.type = "connect"
        /\ callbacks' = Append(callbacks,
             [conn |-> p.conn, session_id |-> p.session_id, version |-> 0,
              ok |-> FALSE])
        /\ UNCHANGED mishaps
     \/ /\ p.type = "close"
        /\ mishaps' = mishaps \cup {<<"lost", i>> : i \in DOMAIN p.sessions}
        /\ UNCHANGED callbacks
  /\ UNCHANGED <<node, entry, objects, asked, locked, data, drawn, cleaning,
                 crashed>>

\* Faulty: the session keeps its version.
SessionOnKeepsVersion(o, k, sid, version) ==
  [session_id |-> sid, version |-> session[o].version, conn |-> k,
   closed |-> FALSE, busy |-> session[o].busy]

\* OnConnect, or a new session, and set_version.
SessionOn(o, k, sid, version) ==
  [session_id |-> sid, version |-> version, conn |-> k, closed |-> FALSE,
   busy |-> session[o].busy]

\* CreateSession: k is the session's connection now.  A pointer in sessions_
\* to a session that is gone is null when it is locked, and is used.
CreateSessionHere(k, sid, version) ==
  LET o == IF sid \in DOMAIN sessions_ THEN sessions_[sid] ELSE k
  IN IF Expired(sid)
     THEN crashed' = TRUE /\ UNCHANGED <<entry, objects>>
     ELSE /\ entry' = [entry EXCEPT ![k].session = o]
          /\ session' = [session EXCEPT ![o] = SessionOn(o, k, sid, version)]
          /\ sessions_' = Put(sessions_, sid, o)
          /\ UNCHANGED crashed

\* The callback of a connect.
ConnectCallback ==
  /\ callbacks # <<>> /\ callbacks' = Tail(callbacks) /\ locked = NoSession
  /\ LET c == Head(callbacks)
     IN \/ c.ok /\ CreateSessionHere(c.conn, c.session_id, c.version)
        \/ /\ ~c.ok /\ entry' = [entry EXCEPT ![c.conn].started = FALSE]
           /\ UNCHANGED <<objects, crashed>>
  /\ UNCHANGED <<node, asked, proposed, locked, data, drawn, cleaning, mishaps>>

\* WeakCallback, for the message of a session that is still there; it holds
\* the session until the call of Done has ended.
WeakCallback(o) ==
  /\ \/ /\ locked = NoSession /\ locked' = o
        /\ session[o].busy /\ Holders(o) # {} /\ UNCHANGED session
     \/ /\ locked = o /\ locked' = NoSession
        /\ session' = [session EXCEPT ![o].busy = FALSE]
  /\ UNCHANGED <<node, entry, sessions_, asked, proposed, callbacks, data, drawn,
                 cleaning, crashed, mishaps>>
-----------------------------------------------------------------------------
\* The mastership, and loop_.

\* The mastership changes, and master_cb queues CleanSessions.
MasterChanges ==
  /\ term < MaxTerm /\ term' = term + 1
  /\ isMaster' = ~isMaster /\ cleans' = cleans + 1
  /\ UNCHANGED <<entry, objects, asked, proposed, thread, data, drawn, timers,
                 crashed, mishaps>>

\* While another server is the master, a session connects there, or is closed.
Elsewhere(sid) ==
  /\ ~isMaster /\ sid \in DOMAIN db /\ instance < MaxInstance
  /\ instance' = instance + 1
  /\ \/ db' = [db EXCEPT ![sid] = instance + 1]
     \/ db' = Erase(db, sid)
  /\ UNCHANGED <<node, entry, objects, asked, proposed, thread, drawn, cleaning,
                 crashed, mishaps>>

\* What MT_MASTER makes of a session and of the entry of its connection: both
\* are closed.  (A session that is busy gets to MT_MASTER when its message is
\* done; ClientServer has that delay, here it is no time.)
Closed(s) == [session_id |-> s.session_id, version |-> s.version, conn |-> s.conn,
              closed |-> TRUE, busy |-> s.busy]
Shut(e) == [life |-> e.life, open |-> FALSE, started |-> e.started,
            session |-> e.session]

\* The sessions of a server that is not the master are given MT_MASTER; those
\* of the database are copied for a timer if it is.
CleanSessions ==
  LET told == {sessions_[sid] : sid \in DOMAIN sessions_}
  IN /\ cleans > 0 /\ cleans' = cleans - 1
     /\ \/ /\ ~isMaster /\ sessions_' = EmptyMap
           /\ session' = [o \in Conn |-> IF o \in told /\ Alive(o)
                                         THEN Closed(session[o]) ELSE session[o]]
           /\ entry' = [k \in Conn |->
                 IF \E o \in told : Alive(o) /\ session[o].conn = k
                 THEN Shut(entry[k]) ELSE entry[k]]
           /\ UNCHANGED timers
        \/ /\ isMaster
           /\ timers' = IF db # EmptyMap THEN timers \cup {db} ELSE timers
           /\ UNCHANGED <<entry, objects>>
     /\ UNCHANGED <<node, asked, proposed, thread, data, drawn, crashed, mishaps>>

\* In 8 s the callback thread has come to the connects that were executed
\* when t was copied.
Prompt(t) == \A i \in DOMAIN callbacks : LET c == callbacks[i]
  IN c.session_id \in DOMAIN t => c.version # t[c.session_id]

\* Faulty: sessions_ is not asked.
AbsentAll(t) == DOMAIN t

\* The sessions of t that have not come to this server.
Absent(t) == DOMAIN t \ DOMAIN sessions_

\* The timer of CleanSessions: the sessions that are not in sessions_ are
\* closed, with the versions that were copied.
CleanTimer(t) ==
  LET gone == Absent(t)
      old == {sid \in DOMAIN t \cap DOMAIN sessions_ :
                session[sessions_[sid]].version < t[sid]}
  IN /\ Prompt(t) /\ timers' = timers \ {t}
     /\ proposed' = IF gone = {} THEN proposed
          ELSE proposed \cup {[type |-> "close",
                               sessions |-> [sid \in gone |-> t[sid]]]}
     /\ mishaps' = mishaps \cup {<<"passed", sid>> : sid \in old}
     /\ UNCHANGED <<node, entry, objects, asked, thread, data, drawn, cleans,
                    crashed>>
-----------------------------------------------------------------------------
\* A client asks for the session that it was told of, or for a new one.
Told == {session[o].session_id : o \in Conn} \cup {0}

Next ==
  /\ ~crashed
  /\ \/ \E k \in Conn : OnClose(k) \/ Message(k) \/ Expire(k)
     \/ \E k \in Conn, sid \in Told : ConnectRequest(k, sid)
     \/ \E q \in asked : ProposeConnect(q)
     \/ \E k \in Conn : CloseSessionLocked(k) \/ EndEntry(k)
     \/ \E p \in proposed : Choose(p) \/ Fail(p)
     \/ \E o \in Conn : WeakCallback(o)
     \/ ConnectCallback \/ MasterChanges \/ CleanSessions
     \/ \E sid \in DOMAIN db : Elsewhere(sid)
     \/ \E t \in timers : CleanTimer(t)

Spec == Init /\ [][Next]_vars

\* The threads of the server go on: the event loops, which also expire the
\* entries of closed connections, loop_, and the callback thread, which takes
\* its calls in turn.  What is proposed is chosen or fails.  Clients, failures
\* and the mastership are free.
Ends(k) == \/ CloseSessionLocked(k) \/ EndEntry(k)
           \/ ~entry[k].open /\ Expire(k)
Chosen(type) == \E p \in proposed : p.type = type /\ Choose(p)
Closes == \/ \E k \in Conn : Ends(k)
          \/ CleanSessions \/ \E t \in timers : CleanTimer(t)
          \/ Chosen("close")
Connects == (\E q \in asked : ProposeConnect(q)) \/ Chosen("connect")
Unlocks == \E o \in Conn : locked = o /\ WeakCallback(o)

FairSpec ==
  /\ Spec
  /\ WF_vars(~crashed /\ Closes) /\ WF_vars(~crashed /\ Connects)
  /\ WF_vars(~crashed /\ Unlocks) /\ SF_vars(~crashed /\ ConnectCallback)
-----------------------------------------------------------------------------
Object == [session_id : Nat, version : Nat, conn : Conn \cup {0},
           closed : BOOLEAN, busy : BOOLEAN]

\* The variables have the values that their declarations describe; no more
\* ids are drawn than there are connections.
TypeOK ==
  /\ isMaster \in BOOLEAN /\ term \in 0 .. MaxTerm
  /\ entry \in [Conn -> [life : {"none", "kept", "closing", "killing", "leaving",
                                 "gone"},
                         open : BOOLEAN, started : BOOLEAN,
                         session : Conn \cup {NoSession}]]
  /\ session \in [Conn -> Object] /\ IsMap(sessions_, 1 .. MaxConn, Conn)
  /\ asked \subseteq [conn : Conn, session_id : 0 .. MaxConn]
  /\ \A p \in proposed :
       \/ p \in [type : {"connect"}, conn : Conn, session_id : 1 .. MaxConn,
                 version : Nat]
       \/ p.type = "close" /\ IsMap(p.sessions, 1 .. MaxConn, Nat)
  /\ callbacks \in Seq([conn : Conn, session_id : 1 .. MaxConn, version : Nat,
                        ok : BOOLEAN])
  /\ locked \in Conn \cup {NoSession}
  /\ IsMap(db, 1 .. MaxConn, Nat \ {0}) /\ instance \in Nat
  /\ drawn \in 0 .. MaxConn /\ cleans \in Nat
  /\ \A t \in timers : IsMap(t, 1 .. MaxConn, Nat \ {0})
  /\ crashed \in BOOLEAN
  /\ mishaps \subseteq {"erased", "shared", "lost", "passed"} \X (1 .. MaxConn)

\* CreateSession says of the pointer that it gets from sessions_
\* assert(entry->session): the session has not ended.
AssertSession == ~crashed

\* A session in sessions_ is alive, unless its last entry did not take it out
\* of sessions_ because at that time something else, another entry that was
\* about to end or WeakCallback, still held the session.
WeakPointersLive ==
  \A sid \in DOMAIN sessions_ : Expired(sid) => <<"shared", sid>> \in mishaps

\* Connection k has an entry, and its session is on k, with the version that
\* the database has, and was not told to go to another master.
Current(k) ==
  LET s == session[entry[k].session]
  IN /\ entry[k].life = "kept" /\ entry[k].session # NoSession
     /\ s.conn = k /\ ~s.closed
     /\ s.session_id \in DOMAIN db /\ db[s.session_id] = s.version

\* The server does not propose to close a session that has a connection: not
\* when another entry of it expires, and not when CleanSessions looks for the
\* sessions that did not come.  The exception is a session that the entry of
\* an earlier object of it has erased from sessions_.
Spared ==
  \A k \in Conn, p \in proposed :
    LET s == session[entry[k].session]
    IN (Current(k) /\ p.type = "close" /\ s.session_id \in DOMAIN p.sessions)
       => \/ p.sessions[s.session_id] # s.version
          \/ <<"erased", s.session_id>> \in mishaps

\* The database has a session that no entry is for.
Orphan(sid) ==
  /\ sid \in DOMAIN db /\ isMaster /\ ~crashed
  /\ \A k \in Conn : entry[k].session # NoSession =>
       (entry[k].life = "gone" \/ session[entry[k].session].session_id # sid)
  /\ \A what \in {"shared", "lost", "passed"} : <<what, sid>> \notin mishaps

\* While the server is the master, a session without an entry does not stay
\* for ever: CloseSession or CleanSessions closes it, or its client comes.
\* The exceptions: its last entry found it held by something else; the close
\* was proposed and failed, which nobody repeats; or the timer of CleanSessions
\* passed it over because sessions_ still had an older object of it.
OrphansClosed == \A sid \in 1 .. MaxConn : []<>~Orphan(sid)
=============================================================================
