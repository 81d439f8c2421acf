------------------------- MODULE SaberServerProofs -------------------------
(***************************************************************************)
(* Proofs about SaberServer, for any number of connections and sessions,   *)
(* of changes of the mastership, and with or without failures.             *)
(***************************************************************************)
EXTENDS SaberServer, FiniteSetTheorems, TLAPS

-----------------------------------------------------------------------------
(* The inductive invariant, and its first part, the types of the variables. *)

\* Ids are drawn for connections that have asked.
Typed == TypeOK /\ IsFiniteSet(asked) /\ drawn + Cardinality(asked) <= MaxConn
         /\ \A o \in Conn : session[o].session_id \in 0 .. MaxConn

IsConnect(p) == p.type = "connect"

\* Connection k is waiting for its session.
Fresh(k) == /\ entry[k].life = "kept" /\ entry[k].started
            /\ entry[k].session = NoSession

\* A connection has at most one connect under way, and no session until then.
OneConnect ==
  /\ \A q \in asked : Fresh(q.conn)
  /\ \A p \in proposed : IsConnect(p) => Fresh(p.conn)
  /\ \A i \in DOMAIN callbacks : Fresh(callbacks[i].conn)
  /\ \A q \in asked, r \in asked : q.conn = r.conn => q = r
  /\ \A p \in proposed, r \in proposed :
       IsConnect(p) /\ IsConnect(r) /\ p.conn = r.conn => p = r
  /\ \A i \in DOMAIN callbacks, j \in DOMAIN callbacks :
       callbacks[i].conn = callbacks[j].conn => i = j
  /\ \A q \in asked, p \in proposed : IsConnect(p) => q.conn # p.conn
  /\ \A q \in asked, i \in DOMAIN callbacks : q.conn # callbacks[i].conn
  /\ \A p \in proposed, i \in DOMAIN callbacks :
       IsConnect(p) => p.conn # callbacks[i].conn

\* Entry k holds object o.
Lives(k) == entry[k].life \notin {"none", "gone"}
Holds(k, o) == Lives(k) /\ entry[k].session = o

\* The objects of the entries and of sessions_.
Linked ==
  /\ \A k \in Conn : entry[k].session # NoSession =>
       /\ entry[k].started
       /\ entry[entry[k].session].session = entry[k].session
       /\ session[entry[k].session].session_id # 0
  /\ \A sid \in DOMAIN sessions_ :
       /\ entry[sessions_[sid]].session = sessions_[sid]
       /\ session[sessions_[sid]].session_id = sid
       /\ \/ \E k \in Conn : Holds(k, sessions_[sid])
          \/ <<"shared", sid>> \in mishaps
  /\ \A k \in Conn : entry[k].life \in {"closing", "killing", "leaving"} =>
       entry[k].session # NoSession
  /\ \A k \in Conn : entry[k].life = "killing" =>
       /\ \A sid \in DOMAIN sessions_ : sessions_[sid] # entry[k].session
       /\ \A j \in Conn : Holds(j, entry[k].session) => j = k

\* Versions are instances, of which each made one version of one object.
Versions ==
  /\ \A o \in Conn : session[o].version <= instance
  /\ \A i \in DOMAIN callbacks : callbacks[i].version <= instance
  /\ \A sid \in DOMAIN db : db[sid] <= instance
  /\ \A t \in timers : \A sid \in DOMAIN t : t[sid] <= instance
  /\ \A p \in proposed : ~IsConnect(p) =>
       \A sid \in DOMAIN p.sessions : p.sessions[sid] <= instance
  /\ \A i \in DOMAIN callbacks : callbacks[i].ok =>
       /\ callbacks[i].version # 0
       /\ \A o \in Conn : session[o].version # callbacks[i].version
       /\ \A j \in DOMAIN callbacks :
            callbacks[j].version = callbacks[i].version => j = i
  /\ \A o, u \in Conn : session[o].version = session[u].version =>
       o = u \/ session[o].version = 0
  /\ \A k \in Conn : entry[k].session # NoSession =>
       session[entry[k].session].version # 0

\* A close that is proposed is not for a version whose callback is due.
NotDue ==
  \A p \in proposed, i \in DOMAIN callbacks :
    (~IsConnect(p) /\ callbacks[i].session_id \in DOMAIN p.sessions)
      => p.sessions[callbacks[i].session_id] # callbacks[i].version \/ ~callbacks[i].ok

\* The session of a connection is in sessions_, unless it was erased there.
Listed ==
  \A k \in Conn :
    LET o == entry[k].session
        sid == session[o].session_id
    IN entry[k].life = "kept" /\ o # NoSession /\ session[o].conn = k /\ ~session[o].closed
       => \/ sid \in DOMAIN sessions_ /\ sessions_[sid] = o
          \/ <<"erased", sid>> \in mishaps

\* No close is proposed for the version of a session that has a connection.
NotClosed ==
  \A k \in Conn, p \in proposed :
    LET o == entry[k].session
        sid == session[o].session_id
    IN /\ entry[k].life = "kept" /\ o # NoSession
       /\ session[o].conn = k /\ ~session[o].closed
       /\ ~IsConnect(p) /\ sid \in DOMAIN p.sessions
       => p.sessions[sid] # session[o].version \/ <<"erased", sid>> \in mishaps

IInv == /\ Typed /\ OneConnect /\ Linked /\ Versions /\ NotDue /\ Listed
        /\ NotClosed
-----------------------------------------------------------------------------
Entry == [life : {"none", "kept", "closing", "killing", "leaving", "gone"},
          open : BOOLEAN, started : BOOLEAN, session : Conn \cup {NoSession}]
Connect == [type : {"connect"}, conn : Conn, session_id : 1 .. MaxConn, version : Nat]
Call == [conn : Conn, session_id : 1 .. MaxConn, version : Nat, ok : BOOLEAN]
Ask == [conn : Conn, session_id : 0 .. MaxConn]

\* The entries, the objects and sessions_.
TypedObjects ==
  /\ entry \in [Conn -> Entry] /\ session \in [Conn -> Object]
  /\ \A o \in Conn : session[o].session_id \in 0 .. MaxConn
  /\ IsMap(sessions_, 1 .. MaxConn, Conn) /\ locked \in Conn \cup {NoSession}

\* The connects under way and the closes.
TypedCalls ==
  /\ \A p \in proposed :
       p \in Connect \/ (p.type = "close" /\ IsMap(p.sessions, 1 .. MaxConn, Nat))
  /\ callbacks \in Seq(Call)
  /\ mishaps \subseteq {"erased", "shared", "lost", "passed"} \X (1 .. MaxConn)

\* The ids that have been drawn.
TypedIds ==
  /\ asked \subseteq Ask /\ IsFiniteSet(asked) /\ drawn \in 0 .. MaxConn
  /\ drawn + Cardinality(asked) <= MaxConn

\* The database, and the rest.
TypedData ==
  /\ IsMap(db, 1 .. MaxConn, Nat \ {0}) /\ instance \in Nat /\ cleans \in Nat
  /\ \A t \in timers : IsMap(t, 1 .. MaxConn, Nat \ {0})
  /\ isMaster \in BOOLEAN /\ term \in 0 .. MaxTerm /\ crashed \in BOOLEAN

\* The parts of the type invariant.
LEMMA TypedParts == Typed <=> TypedObjects /\ TypedCalls /\ TypedIds /\ TypedData
BY Zenon DEF Typed, TypeOK, TypedObjects, TypedCalls, TypedIds, TypedData, Entry, Connect,
   Call, Ask

\* The size of the set of questions when one comes or goes.
LEMMA AskedFinite ==
  ASSUME TypedIds
  PROVE  /\ Cardinality(asked) \in Nat
         /\ \A q : /\ IsFiniteSet(asked \cup {q})
                  /\ Cardinality(asked \cup {q}) <= Cardinality(asked) + 1
         /\ \A q \in asked : /\ IsFiniteSet(asked \ {q})
                             /\ Cardinality(asked \ {q}) = Cardinality(asked) - 1
<1>1. IsFiniteSet(asked)  BY Zenon DEF TypedIds
<1>2. Cardinality(asked) \in Nat  BY <1>1, FS_CardinalityType, Zenon
<1>3. ASSUME NEW q
      PROVE  /\ IsFiniteSet(asked \cup {q})
             /\ Cardinality(asked \cup {q}) <= Cardinality(asked) + 1
  BY <1>1, <1>2, FS_AddElement
<1>4. ASSUME NEW q \in asked
      PROVE  /\ IsFiniteSet(asked \ {q})
             /\ Cardinality(asked \ {q}) = Cardinality(asked) - 1
  BY <1>1, FS_RemoveElement, Zenon
<1> QED BY <1>1, <1>2, <1>3, <1>4, Zenon

\* What the callback thread takes is a call.
LEMMA HeadIsCall ==
  ASSUME TypedCalls, callbacks # <<>>
  PROVE  Head(callbacks) \in Call /\ Tail(callbacks) \in Seq(Call)
<1> HIDE DEF Call
<1> QED BY DEF TypedCalls

\* What CleanSessions does to the entries and to the objects.
LEMMA CleanEffect ==
  ASSUME TypedObjects, CleanSessions
  PROVE  /\ session' \in [Conn -> Object] /\ entry' \in [Conn -> Entry]
         /\ \A u \in Conn :
              /\ session'[u].session_id = session[u].session_id
              /\ session'[u].version = session[u].version
              /\ session'[u].conn = session[u].conn
              /\ entry'[u].life = entry[u].life
              /\ entry'[u].started = entry[u].started
              /\ entry'[u].session = entry[u].session
         /\ \/ sessions_' = EmptyMap /\ \A sid \in DOMAIN sessions_ :
                 Alive(sessions_[sid]) => session'[sessions_[sid]].closed
            \/ UNCHANGED <<sessions_, session>>
<1> DEFINE told == {sessions_[sid] : sid \in DOMAIN sessions_}
           shut(k) == \E o \in told : Alive(o) /\ session[o].conn = k
           close(o) == o \in told /\ Alive(o)
<1>1. entry \in [Conn -> Entry] /\ session \in [Conn -> Object]
      /\ IsMap(sessions_, 1 .. MaxConn, Conn)
  BY Zenon DEF TypedObjects
<1>2. CASE UNCHANGED <<entry, objects>>
  BY <1>1, <1>2, Zenon DEF objects
<1>3. CASE /\ sessions_' = EmptyMap
           /\ session' = [o \in Conn |-> IF close(o)
                 THEN Closed(session[o]) ELSE session[o]]
           /\ entry' = [k \in Conn |-> IF shut(k)
                 THEN Shut(entry[k]) ELSE entry[k]]
  <2>1. \A sid \in DOMAIN sessions_ :
          sessions_[sid] \in Conn /\ (Alive(sessions_[sid]) => close(sessions_[sid]))
    BY <1>1, Zenon DEF IsMap
  <2> HIDE DEF told, shut, close
  <2>2. \A u \in Conn :
          /\ session'[u] = IF close(u) THEN Closed(session[u]) ELSE session[u]
          /\ entry'[u] = IF shut(u) THEN Shut(entry[u]) ELSE entry[u]
    BY <1>3, Zenon
  <2>3. \A u \in Conn : session[u] \in Object /\ entry[u] \in Entry  BY <1>1, Zenon
  <2>4. ASSUME NEW u \in Conn
        PROVE  /\ Closed(session[u]) \in Object /\ Closed(session[u]).closed
               /\ Closed(session[u]).session_id = session[u].session_id
               /\ Closed(session[u]).version = session[u].version
               /\ Closed(session[u]).conn = session[u].conn
    BY <2>3, Zenon DEF Closed, Object
  <2>5. ASSUME NEW u \in Conn
        PROVE  /\ Shut(entry[u]) \in Entry /\ Shut(entry[u]).life = entry[u].life
               /\ Shut(entry[u]).started = entry[u].started
               /\ Shut(entry[u]).session = entry[u].session
    BY <2>3, Zenon DEF Shut, Entry
  <2>6. session' \in [Conn -> Object]  BY <1>3, <2>3, <2>4, Zenon
  <2>7. entry' \in [Conn -> Entry]  BY <1>3, <2>3, <2>5, Zenon
  <2> QED BY <1>3, <2>1, <2>2, <2>4, <2>5, <2>6, <2>7, Zenon
<1> QED BY <1>2, <1>3, Zenon DEF CleanSessions

\* The entries and the objects keep their types.
LEMMA TypedObjectsStep ==
  ASSUME TypedObjects, TypedCalls, TypedIds, TypedData, Next
  PROVE  TypedObjects'
<1> USE DEF node, objects, thread, data, cleaning
<1>1. /\ entry \in [Conn -> Entry] /\ session \in [Conn -> Object]
      /\ \A o \in Conn : session[o].session_id \in 0 .. MaxConn
      /\ IsMap(sessions_, 1 .. MaxConn, Conn) /\ locked \in Conn \cup {NoSession}
  BY Zenon DEF TypedObjects
<1>2. ASSUME NEW k \in Conn, OnClose(k) PROVE TypedObjects'
  <2>1. entry' \in [Conn -> Entry]  BY <1>1, <1>2, ZenonT(30) DEF OnClose, Entry
  <2> QED BY <1>1, <1>2, <2>1, Zenon DEF OnClose, TypedObjects
<1>3. ASSUME NEW k \in Conn, Expire(k) PROVE TypedObjects'
  <2>1. entry' \in [Conn -> Entry]  BY <1>1, <1>3, Zenon DEF Expire, Ended, Entry
  <2> QED BY <1>1, <1>3, <2>1, Zenon DEF Expire, TypedObjects
<1>4. ASSUME NEW k \in Conn, Message(k) PROVE TypedObjects'
  <2>1. entry[k].session \in Conn  BY <1>1, <1>4, Zenon DEF Message, Entry
  <2>2. /\ session' \in [Conn -> Object]
        /\ \A o \in Conn : session'[o].session_id = session[o].session_id
    <3>1. session' = [session EXCEPT ![entry[k].session].busy = TRUE]
      BY <1>4, Zenon DEF Message
    <3>2. session' \in [Conn -> Object]  BY <1>1, <2>1, <3>1, ZenonT(30) DEF Object
    <3> QED BY <1>1, <2>1, <3>1, <3>2, Zenon DEF Object
  <2> QED BY <1>1, <1>4, <2>2, Zenon DEF Message, TypedObjects
<1>5. ASSUME NEW k \in Conn, NEW sid \in Told, ConnectRequest(k, sid) PROVE TypedObjects'
  <2> DEFINE b == isMaster /\ ~Connected(sid)
  <2>1. b \in BOOLEAN  BY Zenon
  <2>2. isMaster \in BOOLEAN  BY Zenon DEF TypedData
  <2>3. entry' = [entry EXCEPT ![k] = NewEntry(b, isMaster)]  BY <1>5, Zenon DEF ConnectRequest
  <2> HIDE DEF b
  <2>4. entry' \in [Conn -> Entry]  BY <1>1, <2>1, <2>2, <2>3, Zenon DEF NewEntry, Entry
  <2> QED BY <1>1, <1>5, <2>4, Zenon DEF ConnectRequest, TypedObjects
<1>6. ASSUME NEW k \in Conn, CloseSessionLocked(k) PROVE TypedObjects'
  <2>1. entry' \in [Conn -> Entry]
    BY <1>1, <1>6 DEF CloseSessionLocked, Entry
  <2>2. IsMap(sessions_', 1 .. MaxConn, Conn)
    BY <1>1, <1>6 DEF CloseSessionLocked, Forget, IsMap, Erase
  <2> QED BY <1>1, <1>6, <2>1, <2>2, Zenon DEF CloseSessionLocked, TypedObjects
<1>7. ASSUME NEW k \in Conn, EndEntry(k) PROVE TypedObjects'
  <2>1. entry' \in [Conn -> Entry]
    BY <1>1, <1>7, ZenonT(30) DEF EndEntry, Entry
  <2> QED BY <1>1, <1>7, <2>1, Zenon DEF EndEntry, TypedObjects
<1>8. ASSUME NEW q \in asked, ProposeConnect(q) PROVE TypedObjects'
  <2>1. q.conn \in Conn  BY Zenon DEF TypedIds, Ask
  <2>2. entry' = entry \/ entry' = [entry EXCEPT ![q.conn].started = FALSE]
    BY <1>8, Zenon DEF ProposeConnect
  <2>3. entry' \in [Conn -> Entry]
    <3>1. CASE entry' = [entry EXCEPT ![q.conn].started = FALSE]
      BY <1>1, <2>1, <3>1, ZenonT(30) DEF Entry
    <3> QED BY <1>1, <2>2, <3>1, Zenon
  <2> QED BY <1>1, <1>8, <2>3, Zenon DEF ProposeConnect, TypedObjects
<1>9. ASSUME NEW o \in Conn, WeakCallback(o) PROVE TypedObjects'
  <2>1. /\ session' \in [Conn -> Object]
        /\ \A u \in Conn : session'[u].session_id = session[u].session_id
    <3>1. session' = session \/ session' = [session EXCEPT ![o].busy = FALSE]
      BY <1>9, Zenon DEF WeakCallback
    <3>2. CASE session' = session  BY <1>1, <3>2, Zenon
    <3>3. CASE session' = [session EXCEPT ![o].busy = FALSE]  BY <1>1, <3>3, ZenonT(30) DEF Object
    <3> QED BY <3>1, <3>2, <3>3, Zenon
  <2> QED BY <1>1, <1>9, <2>1, Zenon DEF WeakCallback, TypedObjects
<1>10. CASE CleanSessions
  <2>1. /\ session' \in [Conn -> Object] /\ entry' \in [Conn -> Entry]
        /\ \A u \in Conn : session'[u].session_id = session[u].session_id
    BY <1>10, CleanEffect, Zenon
  <2>3. IsMap(sessions_', 1 .. MaxConn, Conn)
    BY <1>1, <1>10, Zenon DEF CleanSessions, EmptyMap, IsMap
  <2> QED BY <1>1, <1>10, <2>1, <2>3, Zenon DEF CleanSessions, TypedObjects
<1>11. CASE ConnectCallback
  <2> DEFINE c == Head(callbacks)
  <2>1. c \in Call  BY <1>11, HeadIsCall, Zenon DEF ConnectCallback
  <2>2. c.conn \in Conn /\ c.session_id \in 1 .. MaxConn /\ c.version \in Nat
    BY <2>1, Zenon DEF Call
  <2> HIDE DEF c
  <2>3. CASE CreateSessionHere(c.conn, c.session_id, c.version)
    <3> DEFINE o == IF c.session_id \in DOMAIN sessions_ THEN sessions_[c.session_id]
                    ELSE c.conn
               x == SessionOn(o, c.conn, c.session_id, c.version)
    <3>1. o \in Conn  BY <1>1, <2>2, Zenon DEF IsMap
    <3>2. \/ UNCHANGED <<entry, session, sessions_>>
          \/ /\ entry' = [entry EXCEPT ![c.conn].session = o]
             /\ session' = [session EXCEPT ![o] = x]
             /\ sessions_' = Put(sessions_, c.session_id, o)
      BY <2>3, Zenon DEF CreateSessionHere
    <3> HIDE DEF o
    <3>3. x \in Object /\ x.session_id = c.session_id
      BY <1>1, <2>2, <3>1 DEF SessionOn, Object
    <3> HIDE DEF x
    <3>4. entry' \in [Conn -> Entry]  BY <1>1, <2>2, <3>1, <3>2, SMTT(30) DEF Entry
    <3>5. session' \in [Conn -> Object]  BY <1>1, <3>1, <3>2, <3>3, Zenon
    <3>6. \A u \in Conn : session'[u].session_id \in 0 .. MaxConn
      BY <1>1, <2>2, <3>1, <3>2, <3>3
    <3>7. IsMap(sessions_', 1 .. MaxConn, Conn)
      BY <1>1, <2>2, <3>1, <3>2 DEF IsMap, Put
    <3> QED BY <1>1, <1>11, <3>4, <3>5, <3>6, <3>7, Zenon DEF ConnectCallback, TypedObjects
  <2>4. CASE entry' = [entry EXCEPT ![c.conn].started = FALSE] /\ UNCHANGED objects
    <3>1. entry' \in [Conn -> Entry]  BY <1>1, <2>2, <2>4, ZenonT(30) DEF Entry
    <3> QED BY <1>1, <1>11, <2>4, <3>1, Zenon DEF ConnectCallback, TypedObjects
  <2> QED BY <1>11, <2>3, <2>4, Zenon DEF ConnectCallback, c
<1>12. ASSUME UNCHANGED <<entry, objects, locked>> PROVE TypedObjects'
  BY <1>1, <1>12, Zenon DEF TypedObjects
<1>13. ASSUME NEW p \in proposed, Choose(p) \/ Fail(p) PROVE TypedObjects'
  BY <1>12, <1>13, Zenon DEF Choose, Fail
<1>14. CASE MasterChanges \/ \E sid \in DOMAIN db : Elsewhere(sid)
  BY <1>12, <1>14, Zenon DEF MasterChanges, Elsewhere
<1>15. ASSUME NEW t \in timers, CleanTimer(t) PROVE TypedObjects'
  BY <1>12, <1>15, Zenon DEF CleanTimer
<1> QED BY <1>2, <1>3, <1>4, <1>5, <1>6, <1>7, <1>8, <1>9, <1>10, <1>11, <1>13,
          <1>14, <1>15, ZenonT(30) DEF Next

\* The ids that are drawn suffice for the connections that ask.
LEMMA TypedIdsStep ==
  ASSUME TypedObjects, TypedIds, Next
  PROVE  TypedIds'
<1> USE DEF node, objects, thread, data, cleaning
<1>1. /\ asked \subseteq Ask /\ IsFiniteSet(asked) /\ drawn \in 0 .. MaxConn
      /\ drawn + Cardinality(asked) <= MaxConn /\ Cardinality(asked) \in Nat
  BY AskedFinite, Zenon DEF TypedIds
<1>2. ASSUME UNCHANGED <<asked, drawn>> PROVE TypedIds'
  BY <1>1, <1>2, Zenon DEF TypedIds
<1>3. ASSUME NEW k \in Conn, NEW sid \in Told, ConnectRequest(k, sid) PROVE TypedIds'
  <2> DEFINE q == [conn |-> k, session_id |-> sid]
  <2>1. sid \in 0 .. MaxConn
    BY BoundAssumption DEF Told, TypedObjects
  <2>2. q \in Ask  BY <2>1, Zenon DEF Ask
  <2>3. /\ asked' = asked \/ asked' = asked \cup {q}
        /\ drawn' = drawn /\ drawn + Cardinality(asked) < MaxConn
    BY <1>3, Zenon DEF ConnectRequest
  <2> HIDE DEF q
  <2>4. /\ IsFiniteSet(asked \cup {q})
        /\ Cardinality(asked \cup {q}) <= Cardinality(asked) + 1
    BY AskedFinite, Zenon
  <2>5. CASE asked' = asked  BY <1>2, <2>3, <2>5, Zenon
  <2>6. CASE asked' = asked \cup {q}
    <3>1. Cardinality(asked') \in Nat  BY <2>4, <2>6, FS_CardinalityType, Zenon
    <3> QED BY <1>1, <2>2, <2>3, <2>4, <2>6, <3>1, BoundAssumption DEF TypedIds
  <2> QED BY <2>3, <2>5, <2>6, Zenon
<1>4. ASSUME NEW q \in asked, ProposeConnect(q) PROVE TypedIds'
  <2>1. asked' = asked \ {q} /\ (drawn' = drawn \/ drawn' = drawn + 1)
    BY <1>4, Zenon DEF ProposeConnect, GetNextSessionId
  <2>2. IsFiniteSet(asked') /\ Cardinality(asked') = Cardinality(asked) - 1
    BY <2>1, AskedFinite, Zenon
  <2>3. Cardinality(asked') \in Nat  BY <2>2, FS_CardinalityType, Zenon
  <2> QED BY <1>1, <2>1, <2>2, <2>3, BoundAssumption DEF TypedIds
<1>5. ASSUME NEW k \in Conn, \/ OnClose(k) \/ Message(k) \/ Expire(k)
                             \/ CloseSessionLocked(k) \/ EndEntry(k)
      PROVE  TypedIds'
  BY <1>2, <1>5, Zenon DEF OnClose, Message, Expire, CloseSessionLocked, EndEntry
<1>6. ASSUME NEW p \in proposed, Choose(p) \/ Fail(p) PROVE TypedIds'
  BY <1>2, <1>6, Zenon DEF Choose, Fail
<1>7. ASSUME NEW o \in Conn, WeakCallback(o) PROVE TypedIds'
  BY <1>2, <1>7, Zenon DEF WeakCallback
<1>8. CASE ConnectCallback \/ MasterChanges \/ CleanSessions
  BY <1>2, <1>8, Zenon DEF ConnectCallback, MasterChanges, CleanSessions
<1>9. ASSUME NEW sid \in DOMAIN db, Elsewhere(sid) PROVE TypedIds'
  BY <1>2, <1>9, Zenon DEF Elsewhere
<1>10. ASSUME NEW t \in timers, CleanTimer(t) PROVE TypedIds'
  BY <1>2, <1>10, Zenon DEF CleanTimer
<1> QED BY <1>3, <1>4, <1>5, <1>6, <1>7, <1>8, <1>9, <1>10, Zenon DEF Next

\* The database, the copies of it and the rest keep their types.
LEMMA TypedDataStep ==
  ASSUME TypedCalls, TypedData, Next
  PROVE  TypedData'
<1> USE DEF node, objects, thread, data, cleaning
<1>1. /\ IsMap(db, 1 .. MaxConn, Nat \ {0}) /\ instance \in Nat /\ cleans \in Nat
      /\ \A t \in timers : IsMap(t, 1 .. MaxConn, Nat \ {0})
      /\ isMaster \in BOOLEAN /\ term \in 0 .. MaxTerm /\ crashed \in BOOLEAN
  BY Zenon DEF TypedData
<1>2. ASSUME UNCHANGED <<data, cleaning, node>>, crashed' \in BOOLEAN PROVE TypedData'
  BY <1>1, <1>2, Zenon DEF TypedData
<1>3. ASSUME NEW k \in Conn, \/ OnClose(k) \/ Message(k) \/ Expire(k)
                             \/ CloseSessionLocked(k) \/ EndEntry(k)
                             \/ \E sid \in Told : ConnectRequest(k, sid)
      PROVE  TypedData'
  BY <1>1, <1>2, <1>3, Zenon DEF OnClose, Message, Expire, CloseSessionLocked, EndEntry,
                          ConnectRequest
<1>4. ASSUME NEW q \in asked, ProposeConnect(q) PROVE TypedData'
  BY <1>1, <1>2, <1>4, Zenon DEF ProposeConnect
<1>5. ASSUME NEW p \in proposed, Choose(p) PROVE TypedData'
  <2>1. UNCHANGED <<node, cleaning, crashed>>  BY <1>5, Zenon DEF Choose
  <2>2. CASE /\ p.type = "connect" /\ instance' = instance + 1
             /\ db' = CreateSession(db, p.session_id, instance', p.version)
    <3>1. p.session_id \in 1 .. MaxConn  BY <2>2, Zenon DEF TypedCalls, Connect
    <3>2. IsMap(db', 1 .. MaxConn, Nat \ {0})
      <4>1. db' = db \/ db' = Put(db, p.session_id, instance + 1)
        BY <2>2, Zenon DEF CreateSession
      <4> DEFINE f == Put(db, p.session_id, instance + 1)
      <4>2. IsMap(f, 1 .. MaxConn, Nat \ {0})
        <5>1. instance + 1 \in Nat \ {0}  BY <1>1
        <5> QED BY <1>1, <3>1, <5>1, ZenonT(30) DEF IsMap, Put
      <4> HIDE DEF f
      <4> QED BY <1>1, <4>1, <4>2, Zenon DEF f
    <3> QED BY <1>1, <2>1, <2>2, <3>2 DEF TypedData
  <2>3. CASE /\ UNCHANGED instance
             /\ db' = [sid \in {i \in DOMAIN db : i \in DOMAIN p.sessions =>
                                                  p.sessions[i] # db[i]} |-> db[sid]]
    <3>1. IsMap(db', 1 .. MaxConn, Nat \ {0})  BY <1>1, <2>3, Zenon DEF IsMap
    <3> QED BY <1>1, <2>1, <2>3, <3>1, Zenon DEF TypedData
  <2> QED BY <1>5, <2>2, <2>3, Zenon DEF Choose
<1>6. ASSUME NEW p \in proposed, Fail(p) PROVE TypedData'
  BY <1>1, <1>2, <1>6, Zenon DEF Fail
<1>7. ASSUME NEW o \in Conn, WeakCallback(o) PROVE TypedData'
  BY <1>1, <1>2, <1>7, Zenon DEF WeakCallback
<1>8. CASE ConnectCallback
  <2>1. crashed' = crashed \/ crashed' = TRUE
    BY <1>8, Zenon DEF ConnectCallback, CreateSessionHere
  <2>2. crashed' \in BOOLEAN  BY <1>1, <2>1, Zenon
  <2> QED BY <1>2, <1>8, <2>2, Zenon DEF ConnectCallback
<1>9. CASE MasterChanges
  <2>1. isMaster' \in BOOLEAN  BY <1>9, Zenon DEF MasterChanges
  <2>2. term' \in 0 .. MaxTerm  BY <1>1, <1>9, BoundAssumption DEF MasterChanges
  <2> QED BY <1>1, <1>9, <2>1, <2>2 DEF MasterChanges, TypedData
<1>10. CASE CleanSessions
  <2>1. cleans' \in Nat  BY <1>1, <1>10 DEF CleanSessions
  <2>2. timers' = timers \/ timers' = timers \cup {db}  BY <1>10, Zenon DEF CleanSessions
  <2> QED BY <1>1, <1>10, <2>1, <2>2, Zenon DEF CleanSessions, TypedData
<1>11. ASSUME NEW sid \in DOMAIN db, Elsewhere(sid) PROVE TypedData'
  <2>1. IsMap(db', 1 .. MaxConn, Nat \ {0})
    BY <1>1, <1>11 DEF Elsewhere, IsMap, Erase
  <2> QED BY <1>1, <1>11, <2>1 DEF Elsewhere, TypedData
<1>12. ASSUME NEW t \in timers, CleanTimer(t) PROVE TypedData'
  BY <1>1, <1>12, Zenon DEF CleanTimer, TypedData
<1> QED BY <1>3, <1>4, <1>5, <1>6, <1>7, <1>8, <1>9, <1>10, <1>11, <1>12, Zenon DEF Next

\* What is proposed, and the callbacks, keep their types.
LEMMA TypedCallsStep ==
  ASSUME TypedObjects, TypedCalls, TypedIds, TypedIds', TypedData, Linked, Next
  PROVE  TypedCalls'
<1> USE DEF node, objects, thread, data, cleaning
<1> DEFINE Proposals(S) == \A p \in S :
             p \in Connect \/ (p.type = "close" /\ IsMap(p.sessions, 1 .. MaxConn, Nat))
           Mishap == {"erased", "shared", "lost", "passed"} \X (1 .. MaxConn)
<1>1. Proposals(proposed) /\ callbacks \in Seq(Call) /\ mishaps \subseteq Mishap
  BY Zenon DEF TypedCalls
<1>2. ASSUME Proposals(proposed'), callbacks' \in Seq(Call), mishaps' \subseteq Mishap
      PROVE  TypedCalls'
  BY <1>2, Zenon DEF TypedCalls
<1>3. /\ entry \in [Conn -> Entry] /\ session \in [Conn -> Object]
      /\ IsMap(sessions_, 1 .. MaxConn, Conn)
      /\ IsMap(db, 1 .. MaxConn, Nat \ {0}) /\ instance \in Nat
      /\ \A t \in timers : IsMap(t, 1 .. MaxConn, Nat \ {0})
      /\ asked \subseteq Ask /\ drawn' \in 0 .. MaxConn /\ drawn \in 0 .. MaxConn
      /\ \A o \in Conn : session[o].session_id \in 0 .. MaxConn
  BY Zenon DEF TypedObjects, TypedIds, TypedData
<1>4. ASSUME UNCHANGED <<proposed, callbacks, mishaps>> PROVE TypedCalls'
  BY <1>1, <1>4, Zenon DEF TypedCalls
<1>5. ASSUME NEW k \in Conn, \/ OnClose(k) \/ Message(k) \/ Expire(k)
                             \/ \E sid \in Told : ConnectRequest(k, sid)
      PROVE  TypedCalls'
  BY <1>4, <1>5, Zenon DEF OnClose, Message, Expire, ConnectRequest
<1>6. ASSUME NEW q \in asked, ProposeConnect(q) PROVE TypedCalls'
  <2> DEFINE known == q.session_id \in DOMAIN db
             sid == IF known THEN q.session_id ELSE GetNextSessionId
             version == IF known THEN db[sid] ELSE 0
             p == [type |-> "connect", conn |-> q.conn, session_id |-> sid,
                   version |-> version]
  <2>1. /\ proposed' = proposed \/ proposed' = proposed \cup {p}
        /\ drawn' = IF known THEN drawn ELSE sid
        /\ UNCHANGED <<callbacks, mishaps>>
    BY <1>6, Zenon DEF ProposeConnect
  <2>2. q.conn \in Conn  BY <1>3, Zenon DEF Ask
  <2>3. sid \in 1 .. MaxConn /\ version \in Nat
    <3>1. CASE known  BY <1>3, <3>1, Zenon DEF IsMap
    <3>2. CASE ~known  BY <1>3, <2>1, <3>2 DEF GetNextSessionId
    <3> QED BY <3>1, <3>2, Zenon
  <2> HIDE DEF known, sid, version
  <2>4. p \in Connect  BY <2>2, <2>3, Zenon DEF Connect
  <2> HIDE DEF p
  <2> QED BY <1>1, <1>2, <2>1, <2>4, Zenon
<1>7. ASSUME NEW k \in Conn, CloseSessionLocked(k) PROVE TypedCalls'
  <2> DEFINE sid == session[entry[k].session].session_id
  <2>1. /\ UNCHANGED <<proposed, callbacks>>
        /\ \/ mishaps' = mishaps
           \/ sid \in DOMAIN sessions_ /\ mishaps' = mishaps \cup {<<"erased", sid>>}
    BY <1>7, Zenon DEF CloseSessionLocked
  <2>2. sid \in DOMAIN sessions_ => <<"erased", sid>> \in Mishap
    BY <1>3, Zenon DEF IsMap
  <2> QED BY <1>1, <1>2, <2>1, <2>2, Zenon
<1>8. ASSUME NEW k \in Conn, EndEntry(k) PROVE TypedCalls'
  <2> DEFINE s == session[entry[k].session]
             m == Put(EmptyMap, s.session_id, s.version)
             p == [type |-> "close", sessions |-> m]
  <2>1. /\ proposed' = proposed \/ proposed' = proposed \cup {p}
        /\ mishaps' = mishaps \/ mishaps' = mishaps \cup {<<"shared", s.session_id>>}
        /\ callbacks' = callbacks /\ entry[k].life \in {"killing", "leaving"}
    BY <1>8, Zenon DEF EndEntry
  <2>2. entry[k].session \in Conn /\ s.session_id # 0
    BY <1>3, <2>1, Zenon DEF Linked, Entry
  <2>3. s.session_id \in 1 .. MaxConn /\ s.version \in Nat
    <3>1. s \in Object  BY <1>3, <2>2, Zenon
    <3>2. s.session_id \in 0 .. MaxConn  BY <1>3, <2>2, Zenon
    <3> QED BY <2>2, <3>1, <3>2, BoundAssumption DEF Object
  <2> HIDE DEF s
  <2>4. IsMap(m, 1 .. MaxConn, Nat)  BY <2>3, Zenon DEF IsMap, Put, EmptyMap
  <2> HIDE DEF m
  <2>5. p.type = "close" /\ p.sessions = m  BY Zenon
  <2>6. <<"shared", s.session_id>> \in Mishap  BY <2>3, Zenon
  <2> HIDE DEF p
  <2>7. Proposals(proposed')  BY <1>1, <2>1, <2>4, <2>5, Zenon
  <2> QED BY <1>1, <1>2, <2>1, <2>6, <2>7, Zenon
<1>9. ASSUME NEW p \in proposed, Choose(p) PROVE TypedCalls'
  <2>1. proposed' = proposed \ {p} /\ mishaps' = mishaps  BY <1>9, Zenon DEF Choose
  <2>2. callbacks' \in Seq(Call)
    <3>1. CASE p.type = "connect"
      <4> DEFINE b == CreateSessionOK(db, p.session_id, p.version)
                 c == [conn |-> p.conn, session_id |-> p.session_id,
                       version |-> instance + 1, ok |-> b]
      <4>1. callbacks' = Append(callbacks, c)
        BY <1>9, <3>1, Zenon DEF Choose
      <4>2. p \in Connect  BY <1>1, <3>1, Zenon
      <4>3. b \in BOOLEAN  BY Zenon DEF CreateSessionOK
      <4> HIDE DEF b
      <4>4. c \in Call  BY <1>3, <4>2, <4>3 DEF Connect, Call
      <4> HIDE DEF c, Call
      <4> QED BY <1>1, <4>1, <4>4
    <3>2. CASE p.type # "connect"  BY <1>1, <1>9, <3>2, Zenon DEF Choose
    <3> QED BY <3>1, <3>2, Zenon
  <2> QED BY <1>1, <1>2, <2>1, <2>2, Zenon
<1>10. ASSUME NEW p \in proposed, Fail(p) PROVE TypedCalls'
  <2>1. proposed' = proposed \ {p}  BY <1>10, Zenon DEF Fail
  <2>2. CASE p.type = "connect"
    <3> DEFINE c == [conn |-> p.conn, session_id |-> p.session_id, version |-> 0,
                     ok |-> FALSE]
    <3>1. callbacks' = Append(callbacks, c) /\ mishaps' = mishaps
      BY <1>10, <2>2, Zenon DEF Fail
    <3>2. p \in Connect  BY <1>1, <2>2
    <3>3. c \in Call  BY <3>2, Zenon DEF Connect, Call
    <3> HIDE DEF c, Call
    <3>4. callbacks' \in Seq(Call)  BY <1>1, <3>1, <3>3
    <3> QED BY <1>1, <1>2, <2>1, <3>1, <3>4, Zenon
  <2>3. CASE p.type # "connect"
    <3>1. p.type = "close" /\ IsMap(p.sessions, 1 .. MaxConn, Nat)
      BY <1>1, <2>3, Zenon DEF Connect
    <3>2. callbacks' = callbacks
          /\ mishaps' = mishaps \cup {<<"lost", i>> : i \in DOMAIN p.sessions}
      BY <1>10, <2>3, Zenon DEF Fail
    <3>3. mishaps' \subseteq Mishap  BY <1>1, <3>1, <3>2 DEF IsMap
    <3> QED BY <1>1, <1>2, <2>1, <3>2, <3>3, Zenon
  <2> QED BY <2>2, <2>3, Zenon
<1>11. CASE ConnectCallback
  <2>1. callbacks' = Tail(callbacks) /\ callbacks # <<>> /\ UNCHANGED <<proposed, mishaps>>
    BY <1>11, Zenon DEF ConnectCallback
  <2>2. callbacks' \in Seq(Call)  BY <2>1, HeadIsCall, Zenon
  <2> QED BY <1>1, <1>2, <2>1, <2>2, Zenon
<1>12. ASSUME NEW t \in timers, CleanTimer(t) PROVE TypedCalls'
  <2> DEFINE gone == Absent(t)
             old == {sid \in DOMAIN t \cap DOMAIN sessions_ :
                       session[sessions_[sid]].version < t[sid]}
             m == [sid \in gone |-> t[sid]]
             p == [type |-> "close", sessions |-> m]
  <2>1. /\ proposed' = proposed \/ proposed' = proposed \cup {p}
        /\ mishaps' = mishaps \cup {<<"passed", sid>> : sid \in old}
        /\ callbacks' = callbacks
    BY <1>12, Zenon DEF CleanTimer
  <2>2. IsMap(m, 1 .. MaxConn, Nat)  BY <1>3, ZenonT(30) DEF Absent, IsMap
  <2>3. old \subseteq 1 .. MaxConn  BY <1>3, Zenon DEF IsMap
  <2> HIDE DEF m, old
  <2>4. p.type = "close" /\ p.sessions = m  BY Zenon
  <2>5. mishaps' \subseteq Mishap  BY <1>1, <2>1, <2>3
  <2> HIDE DEF p
  <2>6. Proposals(proposed')  BY <1>1, <2>1, <2>2, <2>4, Zenon
  <2> QED BY <1>1, <1>2, <2>1, <2>5, <2>6, Zenon
<1>13. ASSUME NEW o \in Conn, WeakCallback(o) PROVE TypedCalls'
  BY <1>4, <1>13, Zenon DEF WeakCallback
<1>14. CASE MasterChanges \/ CleanSessions \/ \E sid \in DOMAIN db : Elsewhere(sid)
  BY <1>4, <1>14, Zenon DEF MasterChanges, CleanSessions, Elsewhere
<1> QED BY <1>5, <1>6, <1>7, <1>8, <1>9, <1>10, <1>11, <1>12, <1>13, <1>14, Zenon DEF Next

-----------------------------------------------------------------------------
(* The other parts of the invariant, and what follows from it.             *)

\* The entries, the objects and the messages are the same in what the invariant
\* says of them.
SameEntries ==
  \A u \in Conn : /\ entry'[u].life = entry[u].life
                  /\ entry'[u].started = entry[u].started
                  /\ entry'[u].session = entry[u].session
SameObjects ==
  \A u \in Conn : /\ session'[u].session_id = session[u].session_id
                  /\ session'[u].version = session[u].version
                  /\ session'[u].conn = session[u].conn
                  /\ session'[u].closed = session[u].closed
SameCalls == UNCHANGED <<asked, proposed, callbacks>>

\* The instances have grown, and what the database and its copies have are
\* still instances.
Grown ==
  /\ instance \in Nat /\ instance' \in Nat /\ instance <= instance'
  /\ \A sid \in DOMAIN db' : db'[sid] <= instance'
  /\ \A t \in timers' : \A sid \in DOMAIN t : t[sid] <= instance'

\* The numbers that the invariant compares are numbers.
LEMMA Facts ==
  ASSUME Typed
  PROVE  /\ \A u \in Conn : /\ entry[u] \in Entry /\ entry[u].session \in Conn \cup {NoSession}
                            /\ session[u] \in Object /\ session[u].version \in Nat
         /\ \A sid \in DOMAIN sessions_ : sid \in 1 .. MaxConn /\ sessions_[sid] \in Conn
         /\ \A q \in asked : q.conn \in Conn
         /\ \A p \in proposed : IsConnect(p) => p.conn \in Conn
         /\ \A p \in proposed : ~IsConnect(p) =>
              \A sid \in DOMAIN p.sessions : p.sessions[sid] \in Nat
         /\ \A i \in DOMAIN callbacks : /\ callbacks[i].conn \in Conn
                                        /\ callbacks[i].version \in Nat
         /\ \A sid \in DOMAIN db : db[sid] \in Nat \ {0}
         /\ \A t \in timers : \A sid \in DOMAIN t : t[sid] \in Nat
         /\ instance \in Nat /\ NoSession \notin Conn
<1>1. TypedObjects /\ TypedCalls /\ TypedIds /\ TypedData  BY TypedParts, Zenon
<1>2. \A u \in Conn : entry[u] \in Entry /\ session[u] \in Object
  BY <1>1, Zenon DEF TypedObjects
<1>3. \A u \in Conn : entry[u].session \in Conn \cup {NoSession} /\ session[u].version \in Nat
  BY <1>2, Zenon DEF Entry, Object
<1>4. \A sid \in DOMAIN sessions_ : sid \in 1 .. MaxConn /\ sessions_[sid] \in Conn
  BY <1>1, Zenon DEF TypedObjects, IsMap
<1>5. \A q \in asked : q.conn \in Conn
  BY <1>1, Zenon DEF TypedIds, Ask
<1>6. \A p \in proposed : IsConnect(p) => p.conn \in Conn
  BY <1>1, Zenon DEF TypedCalls, Connect, IsConnect
<1>7. \A p \in proposed : ~IsConnect(p) =>
        \A sid \in DOMAIN p.sessions : p.sessions[sid] \in Nat
  BY <1>1, Zenon DEF TypedCalls, Connect, IsConnect, IsMap
<1>8. \A i \in DOMAIN callbacks : callbacks[i] \in Call
  <2> HIDE DEF Call
  <2> QED BY <1>1 DEF TypedCalls
<1>9. \A i \in DOMAIN callbacks : callbacks[i].conn \in Conn /\ callbacks[i].version \in Nat
  BY <1>8, Zenon DEF Call
<1>10. /\ \A sid \in DOMAIN db : db[sid] \in Nat \ {0}
       /\ \A t \in timers : \A sid \in DOMAIN t : t[sid] \in Nat
       /\ instance \in Nat /\ NoSession \notin Conn
  BY <1>1 DEF TypedData, IsMap, NoSession, Conn
<1> QED BY <1>2, <1>3, <1>4, <1>5, <1>6, <1>7, <1>9, <1>10, Zenon

\* A step that leaves the parts alone that the invariant relates.
LEMMA QuietStep ==
  ASSUME IInv, Typed', SameEntries, SameObjects, SameCalls, Grown,
         UNCHANGED <<sessions_, mishaps>>
  PROVE  IInv'
<1> USE Facts DEF SameEntries, SameObjects, SameCalls, Fresh, Holds, Lives
<1>1. Typed /\ OneConnect /\ Linked /\ Versions /\ NotDue /\ Listed /\ NotClosed
  BY Zenon DEF IInv
<1>2. OneConnect'  BY <1>1 DEF OneConnect
<1>3. Linked'  BY <1>1 DEF Linked
<1>4. Versions'  BY <1>1 DEF Versions, Grown
<1>5. NotDue'  BY <1>1, Zenon DEF NotDue
<1>6. Listed'
  <2> SUFFICES ASSUME NEW k \in Conn, entry'[k].life = "kept",
                      entry'[k].session # NoSession,
                      session'[entry'[k].session].conn = k,
                      ~session'[entry'[k].session].closed
               PROVE  LET sid == session'[entry'[k].session].session_id
                      IN \/ sid \in DOMAIN sessions_' /\ sessions_'[sid] = entry'[k].session
                         \/ <<"erased", sid>> \in mishaps'
    BY Zenon DEF Listed
  <2>1. entry[k].session \in Conn /\ entry'[k].session = entry[k].session  BY <1>1, Zenon
  <2>2. LET sid == session[entry[k].session].session_id
        IN \/ sid \in DOMAIN sessions_ /\ sessions_[sid] = entry[k].session
           \/ <<"erased", sid>> \in mishaps
    <3>1. entry[k].life = "kept" /\ session[entry[k].session].conn = k
      BY <2>1, Zenon
    <3>2. ~session[entry[k].session].closed
      <4>1. session'[entry[k].session].closed = session[entry[k].session].closed
        BY <2>1, Zenon
      <4> QED BY <4>1, <2>1, Zenon
    <3> QED BY <1>1, <2>1, <3>1, <3>2, Zenon DEF Listed
  <2>3. session'[entry[k].session].session_id = session[entry[k].session].session_id
    BY <2>1, ZenonT(30)
  <2> QED BY <2>1, <2>2, <2>3, Zenon
<1>7. NotClosed'  BY <1>1, SMTT(30) DEF NotClosed
<1> QED BY <1>2, <1>3, <1>4, <1>5, <1>6, <1>7, Zenon DEF IInv

\* The steps that leave alone what the invariant relates.
LEMMA QuietSteps ==
  ASSUME IInv, Typed',
         \/ \E k \in Conn : OnClose(k) \/ Message(k) \/ WeakCallback(k)
         \/ MasterChanges \/ (CleanSessions /\ isMaster)
         \/ \E sid \in DOMAIN db : Elsewhere(sid)
  PROVE  IInv'
<1> USE DEF node, objects, thread, data, cleaning
<1>1. Typed /\ Versions  BY Zenon DEF IInv
<1>2. /\ \A u \in Conn : /\ entry[u] \in Entry /\ entry[u].session \in Conn \cup {NoSession}
                         /\ session[u] \in Object
      /\ entry \in [Conn -> Entry] /\ session \in [Conn -> Object]
      /\ instance \in Nat /\ instance' \in Nat
      /\ \A sid \in DOMAIN db : db[sid] <= instance /\ db[sid] \in Nat
      /\ \A t \in timers : \A sid \in DOMAIN t : t[sid] <= instance /\ t[sid] \in Nat
  BY <1>1, Facts, TypedParts, Zenon DEF Versions, TypedObjects, Typed, TypeOK
<1>3. ASSUME NEW k \in Conn, OnClose(k) PROVE IInv'
  <2>1. SameEntries /\ SameObjects
    BY <1>2, <1>3, ZenonT(30) DEF OnClose, SameEntries, SameObjects, Entry
  <2>2. SameCalls /\ Grown /\ UNCHANGED <<sessions_, mishaps>>
    BY <1>2, <1>3 DEF OnClose, SameCalls, Grown
  <2> QED BY <2>1, <2>2, QuietStep, Zenon
<1>4. ASSUME NEW k \in Conn, Message(k) PROVE IInv'
  <2>1. SameEntries /\ SameObjects
    BY <1>2, <1>4, ZenonT(30) DEF Message, SameEntries, SameObjects, Object
  <2>2. SameCalls /\ Grown /\ UNCHANGED <<sessions_, mishaps>>
    BY <1>2, <1>4 DEF Message, SameCalls, Grown
  <2> QED BY <2>1, <2>2, QuietStep
<1>5. ASSUME NEW o \in Conn, WeakCallback(o) PROVE IInv'
  <2>1. SameEntries /\ SameObjects
    <3>1. CASE UNCHANGED session
      BY <1>2, <1>5, <3>1, Zenon DEF WeakCallback, SameEntries, SameObjects
    <3>2. CASE session' = [session EXCEPT ![o].busy = FALSE]
      BY <1>2, <1>5, <3>2, Zenon DEF WeakCallback, SameEntries, SameObjects, Object
    <3> QED BY <1>5, <3>1, <3>2, Zenon DEF WeakCallback
  <2>2. SameCalls /\ Grown /\ UNCHANGED <<sessions_, mishaps>>
    BY <1>2, <1>5 DEF WeakCallback, SameCalls, Grown
  <2> QED BY <2>1, <2>2, QuietStep
<1>6. ASSUME MasterChanges PROVE IInv'
  <2>1. /\ SameEntries /\ SameObjects /\ SameCalls /\ Grown
        /\ UNCHANGED <<sessions_, mishaps>>
    BY <1>2, <1>6 DEF MasterChanges, SameEntries, SameObjects, SameCalls, Grown
  <2> QED BY <2>1, QuietStep, Zenon
<1>7. ASSUME CleanSessions, isMaster PROVE IInv'
  <2>1. /\ UNCHANGED <<entry, session, sessions_, mishaps, asked, proposed, callbacks,
                       db, instance>>
        /\ timers' = (IF db # EmptyMap THEN timers \cup {db} ELSE timers)
    BY <1>7, Zenon DEF CleanSessions
  <2>2. /\ SameEntries /\ SameObjects /\ SameCalls /\ Grown
        /\ UNCHANGED <<sessions_, mishaps>>
    BY <1>2, <2>1 DEF SameEntries, SameObjects, SameCalls, Grown
  <2> QED BY <2>2, QuietStep
<1>8. ASSUME NEW sid \in DOMAIN db, Elsewhere(sid) PROVE IInv'
  <2>1. /\ SameEntries /\ SameObjects /\ SameCalls
        /\ UNCHANGED <<sessions_, mishaps>>
    BY <1>8, Zenon DEF Elsewhere, SameEntries, SameObjects, SameCalls
  <2>2. Grown
    <3>1. \A i \in DOMAIN db' : db'[i] <= instance'
      <4>1. CASE db' = [db EXCEPT ![sid] = instance + 1]
        BY <1>2, <1>8, <4>1 DEF Elsewhere
      <4>2. CASE db' = Erase(db, sid)
        BY <1>2, <1>8, <4>2 DEF Elsewhere, Erase
      <4> QED BY <1>8, <4>1, <4>2, Zenon DEF Elsewhere
    <3> QED BY <1>2, <1>8, <3>1 DEF Elsewhere, Grown
  <2> QED BY <2>1, <2>2, QuietStep, Zenon
<1> QED BY <1>3, <1>4, <1>5, <1>6, <1>7, <1>8, Zenon

\* The first half of OnConnectRequest.
LEMMA ConnectRequestStep ==
  ASSUME IInv, Typed', NEW k \in Conn, NEW sid, ConnectRequest(k, sid)
  PROVE  IInv'
<1> USE DEF node, objects, thread, data, cleaning
<1>1. Typed /\ OneConnect /\ Linked /\ Versions /\ NotDue /\ Listed /\ NotClosed
  BY ZenonT(30) DEF IInv
<1>2. /\ entry[k].life \in {"none", "kept"} /\ ~entry[k].started
      /\ entry[k].session = NoSession
  BY <1>1, Facts DEF ConnectRequest, Linked, NoEntry, Readable
<1>3. /\ entry'[k].life = "kept" /\ entry'[k].session = NoSession
      /\ entry'[k].started = isMaster
      /\ \A u \in Conn \ {k} : entry'[u] = entry[u]
  BY <1>1, TypedParts, Zenon DEF ConnectRequest, NewEntry, TypedObjects
<1>4. /\ UNCHANGED <<session, sessions_, mishaps, proposed, callbacks, db, instance, timers>>
      /\ \A q \in asked' : q \in asked \/ (q = [conn |-> k, session_id |-> sid] /\ isMaster)
  BY ZenonT(30) DEF ConnectRequest
<1>5. OneConnect'
  <2>1. \A u \in Conn : Fresh(u) => u # k /\ Fresh(u)'
    BY <1>2, <1>3, Zenon DEF Fresh
  <2>2. isMaster => Fresh(k)'
    BY <1>3, ZenonT(30) DEF Fresh
  <2> QED BY <1>1, <1>4, <2>1, <2>2, Facts DEF OneConnect
<1>6. Linked'
  <2>1. \A u \in Conn, o \in Conn : Holds(u, o)' <=> Holds(u, o)
    BY <1>1, <1>2, <1>3, Facts, Zenon DEF Holds, Lives
  <2>2. \A u \in Conn : /\ entry'[u].session = entry[u].session
                        /\ entry'[u].life # "kept" => entry'[u].life = entry[u].life
                        /\ entry[u].session # NoSession => entry'[u] = entry[u]
    BY <1>2, <1>3, Zenon
  <2> QED BY <1>1, <1>4, <2>1, <2>2, Facts DEF Linked
<1>7. \A u \in Conn : /\ entry'[u].session = entry[u].session
                      /\ entry[u].session # NoSession => entry'[u] = entry[u]
  BY <1>2, <1>3, Zenon
<1>8. Versions'  BY <1>1, <1>4, <1>7, ZenonT(30) DEF Versions
<1>9. NotDue'  BY <1>1, <1>4, Zenon DEF NotDue
<1>10. Listed'  BY <1>1, <1>4, <1>7, Zenon DEF Listed
<1>11. NotClosed'  BY <1>1, <1>4, <1>7, ZenonT(30) DEF NotClosed
<1> QED BY <1>5, <1>6, <1>8, <1>9, <1>10, <1>11, ZenonT(30) DEF IInv

\* The second half of it.
LEMMA ProposeConnectStep ==
  ASSUME IInv, Typed', NEW q \in asked, ProposeConnect(q)
  PROVE  IInv'
<1> USE DEF node, objects, thread, data, cleaning
<1> DEFINE k == q.conn
<1>1. Typed /\ OneConnect /\ Linked /\ Versions /\ NotDue /\ Listed /\ NotClosed
  BY Zenon DEF IInv
<1>2. k \in Conn /\ Fresh(k)  BY <1>1, Facts, Zenon DEF OneConnect
<1>3. /\ UNCHANGED <<session, sessions_, mishaps, callbacks, db, instance, timers>>
      /\ asked' = asked \ {q}
  BY Zenon DEF ProposeConnect
<1>4. /\ \A u \in Conn : /\ entry'[u].life = entry[u].life
                         /\ entry'[u].session = entry[u].session
      /\ \A u \in Conn \ {k} : entry'[u] = entry[u]
      /\ \A p \in proposed' :
           p \in proposed \/ (IsConnect(p) /\ p.conn = k /\ entry' = entry)
      /\ \A p \in proposed', r \in proposed' : p \in proposed \/ r \in proposed \/ p = r
  <2>1. CASE entry' = entry
    BY <2>1 DEF ProposeConnect, IsConnect
  <2>2. CASE entry' = [entry EXCEPT ![k].started = FALSE] /\ proposed' = proposed
    <3>1. entry \in [Conn -> Entry]  BY <1>1, TypedParts, Zenon DEF TypedObjects
    <3> QED BY <1>2, <2>2, <3>1, Zenon DEF Entry
  <2> QED BY <2>1, <2>2, Zenon DEF ProposeConnect
<1>5. OneConnect'
  <2>1. \A u \in Conn : Fresh(u) => u = k \/ Fresh(u)'
    BY <1>4, Zenon DEF Fresh
  <2>2. entry' = entry => Fresh(k)'
    BY <1>2, Zenon DEF Fresh
  <2>3. /\ \A r \in asked' : r \in asked /\ r.conn \in Conn /\ r.conn # k
        /\ \A p \in proposed : IsConnect(p) => p.conn \in Conn /\ p.conn # k
        /\ \A i \in DOMAIN callbacks : callbacks[i].conn \in Conn /\ callbacks[i].conn # k
    BY <1>1, <1>3, Facts, Zenon DEF OneConnect
  <2> HIDE DEF k
  <2> QED BY <1>1, <1>3, <1>4, <2>1, <2>2, <2>3 DEF OneConnect
<1>6. \A u \in Conn : entry[u].session # NoSession => entry'[u] = entry[u]
  BY <1>2, <1>4, Zenon DEF Fresh
<1>7. Linked'
  <2>1. \A u \in Conn, o \in Conn : Holds(u, o)' <=> Holds(u, o)
    BY <1>4, Zenon DEF Holds, Lives
  <2> QED BY <1>1, <1>3, <1>4, <1>6, <2>1, Facts DEF Linked
<1>8. Versions'  BY <1>1, <1>3, <1>4, <1>6, ZenonT(30) DEF Versions
<1>9. NotDue'  BY <1>1, <1>3, <1>4, Zenon DEF NotDue
<1>10. Listed'  BY <1>1, <1>3, <1>4, <1>6, Zenon DEF Listed
<1>11. NotClosed'  BY <1>1, <1>3, <1>4, <1>6, ZenonT(30) DEF NotClosed
<1> QED BY <1>5, <1>7, <1>8, <1>9, <1>10, <1>11, Zenon DEF IInv

\* What is left of the life of an entry, of which the session stays what it is.
LEMMA EndingStep ==
  ASSUME Typed, OneConnect, Versions, Listed, NotClosed, Typed',
         NEW k \in Conn, ~Fresh(k), entry'[k].life # "kept",
         entry'[k].session = entry[k].session,
         \A u \in Conn \ {k} : entry'[u] = entry[u],
         UNCHANGED <<session, asked, callbacks, db, instance, timers>>
  PROVE  /\ (\A p \in proposed' : IsConnect(p) => p \in proposed) => OneConnect'
         /\ proposed' = proposed => Versions'
         /\ UNCHANGED <<sessions_, mishaps>> => Listed'
         /\ UNCHANGED <<proposed, mishaps>> => NotClosed'
<1>1. \A u \in Conn : Fresh(u) => Fresh(u)'  BY Zenon DEF Fresh
<1>2. (\A p \in proposed' : IsConnect(p) => p \in proposed) => OneConnect'
  BY <1>1, Facts DEF OneConnect
<1>3. proposed' = proposed => Versions'  BY DEF Versions
<1>4. UNCHANGED <<sessions_, mishaps>> => Listed'
  BY Zenon DEF Listed
<1>5. UNCHANGED <<proposed, mishaps>> => NotClosed'
  BY ZenonT(30) DEF NotClosed
<1> QED BY <1>2, <1>3, <1>4, <1>5, Zenon

\* An entry expires.
LEMMA ExpireStep ==
  ASSUME IInv, Typed', NEW k \in Conn, Expire(k)
  PROVE  IInv'
<1> USE DEF node, objects, thread, data, cleaning
<1>1. Typed /\ OneConnect /\ Linked /\ Versions /\ NotDue /\ Listed /\ NotClosed
  BY Zenon DEF IInv
<1>2. /\ UNCHANGED <<session, sessions_, mishaps, asked, proposed, callbacks, db, instance,
                     timers>>
      /\ entry[k].life = "kept"
  BY Zenon DEF Expire
<1>3. /\ entry'[k].life = IF entry[k].session = NoSession THEN "gone" ELSE "closing"
      /\ entry'[k].started = entry[k].started
      /\ entry'[k].session = entry[k].session
      /\ \A u \in Conn \ {k} : entry'[u] = entry[u]
  BY <1>1, TypedParts, Zenon DEF Expire, Ended, TypedObjects
<1>4. OneConnect'
  <2>1. \A u \in Conn \ {k} : Fresh(u) => Fresh(u)'  BY <1>3, Zenon DEF Fresh
  <2>2. /\ \A r \in asked : r.conn # k
        /\ \A p \in proposed : IsConnect(p) => p.conn # k
        /\ \A i \in DOMAIN callbacks : callbacks[i].conn # k
    BY ZenonT(30) DEF Expire, InCallback, IsConnect
  <2> QED BY <1>1, <1>2, <2>1, <2>2, Facts DEF OneConnect
<1>5. Linked'
  <2>1. \A u \in Conn, o \in Conn : Holds(u, o)' <=> Holds(u, o)
    BY <1>1, <1>2, <1>3, Facts, Zenon DEF Holds, Lives
  <2>2. \A u \in Conn : /\ entry'[u].session = entry[u].session
                        /\ entry'[u].started = entry[u].started
                        /\ entry'[u].life \in {"killing", "leaving"} =>
                             entry'[u].life = entry[u].life
                        /\ entry'[u].life = "closing" => entry[u].session # NoSession
    BY <1>1, <1>3, Zenon DEF Linked
  <2> QED BY <1>1, <1>2, <2>1, <2>2, Facts DEF Linked
<1>6. Versions'  BY <1>1, <1>2, <1>3 DEF Versions
<1>7. NotDue'  BY <1>1, <1>2, Zenon DEF NotDue
<1>8. Listed'  BY <1>1, <1>2, <1>3, Zenon DEF Listed
<1>9. NotClosed'  BY <1>1, <1>2, <1>3, ZenonT(30) DEF NotClosed
<1> QED BY <1>4, <1>5, <1>6, <1>7, <1>8, <1>9, Zenon DEF IInv

\* A session that is unique has one entry.
LEMMA UniqueHolder ==
  ASSUME NEW o, Unique(o), NEW k \in Holders(o), NEW j \in Holders(o)
  PROVE  j = k
<1>1. Conn \subseteq Nat /\ IsFiniteSet(Conn)
  BY FS_Interval, BoundAssumption DEF Conn
<1>2. IsFiniteSet(Holders(o))
  BY <1>1, FS_Subset, Zenon DEF Holders
<1>3. Cardinality(Holders(o)) = 1  BY Zenon DEF Unique
<1> QED BY <1>2, <1>3, FS_Singleton

\* CloseSession, under the mutex.
LEMMA CloseSessionStep ==
  ASSUME IInv, Typed', NEW k \in Conn, CloseSessionLocked(k)
  PROVE  IInv'
<1> USE DEF node, objects, thread, data, cleaning
<1> DEFINE o == entry[k].session
           sid == session[o].session_id
<1>1. Typed /\ OneConnect /\ Linked /\ Versions /\ NotDue /\ Listed /\ NotClosed
  BY DEF IInv
<1>2. /\ UNCHANGED <<session, asked, proposed, callbacks, db, instance, timers>>
      /\ entry[k].life = "closing"
  BY Zenon DEF CloseSessionLocked
<1>3. o \in Conn /\ o # NoSession /\ ~Fresh(k)
  BY <1>1, <1>2, Facts, Zenon DEF Linked, Fresh
<1>4. /\ entry'[k].life = IF Unique(o) THEN "killing" ELSE "leaving"
      /\ entry'[k].started = entry[k].started
      /\ entry'[k].session = entry[k].session
      /\ \A u \in Conn \ {k} : entry'[u] = entry[u]
  <2>1. entry \in [Conn -> Entry]  BY <1>1, TypedParts, Zenon DEF TypedObjects
  <2>2. CASE Unique(o)
    <3>1. entry' = [entry EXCEPT ![k].life = "killing"]
      BY <2>2, Zenon DEF CloseSessionLocked
    <3> QED BY <2>1, <2>2, <3>1, Zenon DEF Entry
  <2>3. CASE ~Unique(o)
    <3>1. entry' = [entry EXCEPT ![k].life = "leaving"]
      BY <2>3, Zenon DEF CloseSessionLocked
    <3> QED BY <2>1, <2>3, <3>1, Zenon DEF Entry
  <2> QED BY <2>2, <2>3, Zenon
<1>5. OneConnect' /\ Versions' /\ NotDue'
  BY <1>1, <1>2, <1>3, <1>4, EndingStep, Zenon DEF NotDue
<1>6. \A u \in Conn : Lives(u)' <=> Lives(u)
  BY <1>2, <1>4, Zenon DEF Lives
<1>7. CASE ~Unique(o)
  <2>1. UNCHANGED <<sessions_, mishaps>>
    BY <1>7, Zenon DEF CloseSessionLocked
  <2>2. Listed' /\ NotClosed'
    BY <1>1, <1>2, <1>3, <1>4, <2>1, EndingStep, ZenonT(30)
  <2>3. Linked'
    <3>1. \A u \in Conn : /\ entry'[u].session = entry[u].session
                          /\ entry'[u].started = entry[u].started
                          /\ entry'[u].life = "killing" => entry[u].life = "killing"
                          /\ entry'[u].life \in {"closing", "leaving"} =>
                               entry[u].session # NoSession
      BY <1>1, <1>2, <1>3, <1>4, <1>7 DEF Linked
    <3> QED BY <1>1, <1>2, <1>6, <2>1, <3>1, Facts, SMTT(30) DEF Linked, Holds
  <2> QED BY <1>5, <2>2, <2>3, Zenon DEF IInv
<1>8. CASE Unique(o)
  <2>1. /\ sessions_' = Erase(sessions_, sid)
        /\ mishaps' = IF sid \in DOMAIN sessions_ /\ sessions_[sid] # o
                      THEN mishaps \cup {<<"erased", sid>>} ELSE mishaps
    BY <1>8, Zenon DEF CloseSessionLocked, Forget
  <2>2. /\ DOMAIN sessions_' = DOMAIN sessions_ \ {sid}
        /\ \A s \in DOMAIN sessions_' : sessions_'[s] = sessions_[s]
    BY <2>1, Zenon DEF Erase
  <2>3. mishaps \subseteq mishaps'  BY <2>1, Zenon
  <2>4. \A j \in Conn : Holds(j, o) => j = k
    <3>1. k \in Holders(o)  BY <1>2, Zenon DEF Holders
    <3>2. \A j \in Conn : Holds(j, o) => j \in Holders(o)  BY Zenon DEF Holds, Lives, Holders
    <3> QED BY <1>8, <3>1, <3>2, UniqueHolder, Zenon
  <2> HIDE DEF o, sid
  <2>5. Linked'
    <3>a. \A s \in DOMAIN sessions_ :
            /\ entry[sessions_[s]].session = sessions_[s]
            /\ session[sessions_[s]].session_id = s
            /\ sessions_[s] \in Conn
      BY <1>1, Facts, Zenon DEF Linked
    <3>b. \A s \in DOMAIN sessions_ : \/ \E u \in Conn : Holds(u, sessions_[s])
                                      \/ <<"shared", s>> \in mishaps
      <4> HIDE DEF Holds
      <4> QED BY <1>1, Zenon DEF Linked
    <3>c. \A u \in Conn : entry[u].life = "killing" =>
            /\ \A s \in DOMAIN sessions_ : sessions_[s] # entry[u].session
            /\ \A j \in Conn : Holds(j, entry[u].session) => j = u
      <4> HIDE DEF Holds
      <4> QED BY <1>1, Zenon DEF Linked
    <3>1. \A s \in DOMAIN sessions_' : sessions_'[s] # o
      BY <3>a, <2>2, Zenon DEF sid
    <3>2. \A u \in Conn : /\ entry'[u].session = entry[u].session
                          /\ entry'[u].started = entry[u].started
                          /\ entry'[u].life = "killing" =>
                               entry[u].life = "killing" \/ u = k
                          /\ entry'[u].life \in {"closing", "killing", "leaving"} =>
                               entry[u].session # NoSession
      BY <1>1, <1>2, <1>3, <1>4, ZenonT(30) DEF Linked, o
    <3>3. entry[k].session = o  BY Zenon DEF o
    <3>4. \A u \in Conn : entry'[u].session # NoSession =>
            /\ entry'[u].started
            /\ entry'[entry'[u].session].session = entry'[u].session
            /\ session'[entry'[u].session].session_id # 0
      BY <1>1, <1>2, <3>2, Facts DEF Linked
    <3>5. \A s \in DOMAIN sessions_' :
            /\ entry'[sessions_'[s]].session = sessions_'[s]
            /\ session'[sessions_'[s]].session_id = s
            /\ \/ \E u \in Conn : (Lives(u)' /\ entry'[u].session = sessions_'[s])
               \/ <<"shared", s>> \in mishaps'
      <4>1. \A s \in DOMAIN sessions_' : /\ entry'[sessions_'[s]].session = sessions_'[s]
                                         /\ session'[sessions_'[s]].session_id = s
                                         /\ sessions_'[s] \in Conn
        BY <1>2, <2>2, <3>2, <3>a
      <4>2. \A s \in DOMAIN sessions_' :
              \/ \E u \in Conn : (Lives(u)' /\ entry'[u].session = sessions_'[s])
              \/ <<"shared", s>> \in mishaps'
        <5> SUFFICES ASSUME NEW s \in DOMAIN sessions_', <<"shared", s>> \notin mishaps'
                     PROVE  \E u \in Conn : Lives(u)' /\ entry'[u].session = sessions_'[s]
          BY Zenon
        <5>1. s \in DOMAIN sessions_ /\ sessions_'[s] = sessions_[s]  BY <2>2, Zenon
        <5>2. PICK u \in Conn : Holds(u, sessions_[s])  BY <2>3, <3>b, <5>1, ZenonT(30)
        <5> QED BY <1>6, <3>2, <5>1, <5>2, Zenon DEF Holds
      <4> QED BY <4>1, <4>2, Zenon
    <3>6. \A u \in Conn : entry'[u].life = "killing" =>
            /\ \A s \in DOMAIN sessions_' : sessions_'[s] # entry'[u].session
            /\ \A j \in Conn : (Lives(j)' /\ entry'[j].session = entry'[u].session) => j = u
      BY <1>1, <1>3, <1>6, <2>2, <2>4, <3>1, <3>2, <3>3, <3>c, Facts DEF Holds
    <3> QED BY <3>2, <3>4, <3>5, <3>6, Zenon DEF Linked, Holds
  <2>6. Listed'
    <3> SUFFICES ASSUME NEW u \in Conn, entry'[u].life = "kept",
                        entry'[u].session # NoSession,
                        session'[entry'[u].session].conn = u,
                        ~session'[entry'[u].session].closed
                 PROVE  LET s == session'[entry'[u].session].session_id
                        IN \/ s \in DOMAIN sessions_' /\ sessions_'[s] = entry'[u].session
                           \/ <<"erased", s>> \in mishaps'
      BY Zenon DEF Listed
    <3>1. u # k  BY <1>4, Zenon
    <3>2. entry'[u] = entry[u] /\ session' = session  BY <1>2, <1>4, <3>1, Zenon
    <3> DEFINE v == entry[u].session
               s == session[v].session_id
    <3>3. (s \in DOMAIN sessions_ /\ sessions_[s] = v) \/ <<"erased", s>> \in mishaps
      BY <1>1, <3>2, Zenon DEF Listed
    <3>4. v # o
      BY <2>4, <3>1, <3>2, Zenon DEF Holds, Lives
    <3>5. (s \in DOMAIN sessions_' /\ sessions_'[s] = v) \/ <<"erased", s>> \in mishaps'
      <4> HIDE DEF s, v
      <4> QED BY <2>1, <2>2, <3>3, <3>4
    <3> QED BY <3>2, <3>5, Zenon
  <2>7. NotClosed'
    BY <1>1, <1>2, <1>4, <2>3, ZenonT(30) DEF NotClosed
  <2> QED BY <1>5, <2>5, <2>6, <2>7, Zenon DEF IInv
<1> QED BY <1>7, <1>8, Zenon

\* What Linked says, with the entries' lives.
LEMMA LinkedParts ==
  ASSUME Typed, Linked
  PROVE  /\ \A u \in Conn : entry[u].session # NoSession =>
              /\ entry[u].started
              /\ entry[entry[u].session].session = entry[u].session
              /\ session[entry[u].session].session_id # 0
         /\ \A s \in DOMAIN sessions_ :
              /\ entry[sessions_[s]].session = sessions_[s]
              /\ session[sessions_[s]].session_id = s
              /\ sessions_[s] \in Conn
         /\ \A s \in DOMAIN sessions_ :
              \/ \E u \in Conn : Lives(u) /\ entry[u].session = sessions_[s]
              \/ <<"shared", s>> \in mishaps
         /\ \A u \in Conn : entry[u].life \in {"closing", "killing", "leaving"} =>
              entry[u].session # NoSession
         /\ \A u \in Conn : entry[u].life = "killing" =>
              /\ \A s \in DOMAIN sessions_ : sessions_[s] # entry[u].session
              /\ \A j \in Conn : Lives(j) /\ entry[j].session = entry[u].session => j = u
<1>1. \A s \in DOMAIN sessions_ : sessions_[s] \in Conn  BY Facts, Zenon
<1> QED BY <1>1, Zenon DEF Linked, Holds

\* The entries have the objects that they had, and sessions_ too or none.
LEMMA SameLinks ==
  ASSUME Typed, Linked, mishaps' = mishaps, sessions_' = sessions_ \/ DOMAIN sessions_' = {},
         \A u \in Conn : /\ entry'[u].life = entry[u].life
                         /\ entry'[u].session = entry[u].session
                         /\ session'[u].session_id = session[u].session_id,
         \A u \in Conn : entry[u].session # NoSession => entry'[u].started = entry[u].started
  PROVE  Linked'
<1>1. \A u \in Conn : Lives(u)' <=> Lives(u)  BY Zenon DEF Lives
<1>2. \A u \in Conn : entry[u].session # NoSession => entry[u].session \in Conn
  BY Facts, Zenon
<1>3. \A u \in Conn : entry'[u].session # NoSession =>
        /\ entry'[u].started
        /\ entry'[entry'[u].session].session = entry'[u].session
        /\ session'[entry'[u].session].session_id # 0
  BY <1>2, LinkedParts
<1>4. \A s \in DOMAIN sessions_' :
        /\ entry'[sessions_'[s]].session = sessions_'[s]
        /\ session'[sessions_'[s]].session_id = s
  BY LinkedParts
<1>5. \A s \in DOMAIN sessions_' :
        \/ \E u \in Conn : Lives(u)' /\ entry'[u].session = sessions_'[s]
        \/ <<"shared", s>> \in mishaps'
  <2> SUFFICES ASSUME NEW s \in DOMAIN sessions_'
               PROVE  \/ \E u \in Conn : Lives(u)' /\ entry'[u].session = sessions_'[s]
                      \/ <<"shared", s>> \in mishaps'
    BY Zenon
  <2>1. sessions_' = sessions_  BY Zenon
  <2>2. \/ \E u \in Conn : Lives(u) /\ entry[u].session = sessions_[s]
        \/ <<"shared", s>> \in mishaps
    BY <2>1, LinkedParts, Zenon
  <2> QED BY <1>1, <2>1, <2>2, Zenon
<1>6. \A u \in Conn : entry'[u].life \in {"closing", "killing", "leaving"} =>
        entry'[u].session # NoSession
  BY LinkedParts, ZenonT(30)
<1>7. \A u \in Conn : entry'[u].life = "killing" =>
        /\ \A s \in DOMAIN sessions_' : sessions_'[s] # entry'[u].session
        /\ \A j \in Conn : Lives(j)' /\ entry'[j].session = entry'[u].session => j = u
  BY <1>1, LinkedParts
<1> QED BY <1>3, <1>4, <1>5, <1>6, <1>7, Zenon DEF Linked, Holds

\* The end of an entry.
LEMMA EndEntryStep ==
  ASSUME IInv, Typed', NEW k \in Conn, EndEntry(k)
  PROVE  IInv'
<1> USE DEF node, objects, thread, data, cleaning
<1> DEFINE o == entry[k].session
           s == session[o]
           close == [type |-> "close", sessions |-> Put(EmptyMap, s.session_id, s.version)]
<1>1. Typed /\ OneConnect /\ Linked /\ Versions /\ NotDue /\ Listed /\ NotClosed
  BY DEF IInv
<1>2. /\ UNCHANGED <<session, sessions_, asked, callbacks, db, instance, timers>>
      /\ entry[k].life \in {"killing", "leaving"}
      /\ entry' = [entry EXCEPT ![k].life = "gone"]
      /\ mishaps' = IF entry[k].life = "leaving" /\ Holders(o) = {k}
                    THEN mishaps \cup {<<"shared", s.session_id>>} ELSE mishaps
      /\ \/ proposed' = proposed
         \/ proposed' = proposed \cup {close} /\ entry[k].life = "killing"
  BY Zenon DEF EndEntry
<1>3. o \in Conn /\ o # NoSession /\ ~Fresh(k) /\ s.version \in Nat /\ s.version <= instance
  BY <1>1, <1>2, Facts, Zenon DEF Linked, Fresh, Versions
<1>4. /\ entry'[k].life = "gone" /\ ~Lives(k)' /\ Lives(k)
      /\ \A u \in Conn : /\ entry'[u].started = entry[u].started
                         /\ entry'[u].session = entry[u].session
      /\ \A u \in Conn \ {k} : entry'[u] = entry[u] /\ (Lives(u)' <=> Lives(u))
  <2>1. entry \in [Conn -> Entry]  BY <1>1, TypedParts DEF TypedObjects
  <2> QED BY <1>2, <2>1, ZenonT(30) DEF Entry, Lives
<1>5. mishaps \subseteq mishaps'  BY <1>2, Zenon
<1>6. /\ ~IsConnect(close) /\ DOMAIN close.sessions = {s.session_id}
      /\ close.sessions[s.session_id] = s.version
  BY Zenon DEF IsConnect, Put, EmptyMap
<1> HIDE DEF close
<1>7. \A p \in proposed' : p \in proposed \/ (p = close /\ entry[k].life = "killing")
  BY <1>2, Zenon
<1>8. OneConnect'
  BY <1>1, <1>2, <1>3, <1>4, <1>6, <1>7, EndingStep, ZenonT(30)
<1>9. Linked'
  <2> HIDE DEF o, s
  <2>1. \A t \in DOMAIN sessions_ : <<"shared", t>> \notin mishaps' =>
          \E u \in Conn : Lives(u)' /\ entry'[u].session = sessions_[t]
    <3> SUFFICES ASSUME NEW t \in DOMAIN sessions_, <<"shared", t>> \notin mishaps'
                 PROVE  \E u \in Conn : Lives(u)' /\ entry'[u].session = sessions_[t]
      BY Zenon
    <3>1. PICK u \in Conn : Lives(u) /\ entry[u].session = sessions_[t]
      BY <1>1, <1>5, LinkedParts, Zenon
    <3>2. CASE u # k
      BY <1>4, <3>1, <3>2, Zenon
    <3>3. CASE u = k
      <4>1. o = sessions_[t] /\ s.session_id = t
        BY <1>1, <3>1, <3>3, LinkedParts, Zenon DEF o, s
      <4>2. entry[k].life = "leaving"
        BY <1>1, <1>2, <4>1, LinkedParts, ZenonT(30) DEF o
      <4>3. Holders(o) # {k}
        BY <1>2, <4>1, <4>2, Zenon
      <4>4. k \in Holders(o)
        BY <1>4, <3>1, <3>3, <4>1, Zenon DEF Holders, Lives
      <4>5. PICK j \in Holders(o) : j # k
        BY <4>3, <4>4, Zenon
      <4> QED BY <1>4, <4>1, <4>5, Zenon DEF Holders, Lives
    <3> QED BY <3>2, <3>3, Zenon
  <2>2. \A u \in Conn : entry'[u].session # NoSession =>
          /\ entry'[u].started
          /\ entry'[entry'[u].session].session = entry'[u].session
          /\ session'[entry'[u].session].session_id # 0
    BY <1>1, <1>2, <1>4, LinkedParts, Facts
  <2>3. \A t \in DOMAIN sessions_' : /\ entry'[sessions_'[t]].session = sessions_'[t]
                                     /\ session'[sessions_'[t]].session_id = t
    BY <1>1, <1>2, <1>4, LinkedParts
  <2>4. \A u \in Conn : entry'[u].life \in {"closing", "killing", "leaving"} =>
          entry'[u].session # NoSession
    BY <1>1, <1>4, LinkedParts, Zenon
  <2>5. \A u \in Conn : entry'[u].life = "killing" =>
          /\ \A t \in DOMAIN sessions_' : sessions_'[t] # entry'[u].session
          /\ \A j \in Conn : Lives(j)' /\ entry'[j].session = entry'[u].session => j = u
    BY <1>1, <1>2, <1>4, LinkedParts
  <2>6. \A t \in DOMAIN sessions_' :
          \/ \E u \in Conn : Lives(u)' /\ entry'[u].session = sessions_'[t]
          \/ <<"shared", t>> \in mishaps'
    BY <1>2, <2>1, Zenon
  <2> QED BY <2>2, <2>3, <2>4, <2>5, <2>6, Zenon DEF Linked, Holds
<1>10. Versions'
  <2>1. \A p \in proposed' : ~IsConnect(p) =>
          \A sid \in DOMAIN p.sessions : p.sessions[sid] <= instance
    BY <1>1, <1>3, <1>6, <1>7, Zenon DEF Versions
  <2> HIDE DEF o, s
  <2> QED BY <1>1, <1>2, <1>4, <2>1 DEF Versions
<1>11. NotDue'
  <2>1. \A i \in DOMAIN callbacks : callbacks[i].ok => s.version # callbacks[i].version
    BY <1>1, <1>3, Zenon DEF Versions
  <2> HIDE DEF o, s
  <2> QED BY <1>1, <1>2, <1>6, <1>7, <2>1, ZenonT(30) DEF NotDue
<1>12. Listed'
  <2> HIDE DEF o, s
  <2> QED BY <1>1, <1>2, <1>4, <1>5, SMTT(30) DEF Listed
<1>13. NotClosed'
  <2> SUFFICES ASSUME NEW u \in Conn, NEW p \in proposed',
                      entry'[u].life = "kept", entry'[u].session # NoSession,
                      session'[entry'[u].session].conn = u,
                      ~session'[entry'[u].session].closed, ~IsConnect(p),
                      session'[entry'[u].session].session_id \in DOMAIN p.sessions
               PROVE  LET sid == session'[entry'[u].session].session_id
                      IN \/ p.sessions[sid] # session'[entry'[u].session].version
                         \/ <<"erased", sid>> \in mishaps'
    BY Zenon DEF NotClosed
  <2>1. u # k /\ entry'[u] = entry[u] /\ session' = session  BY <1>2, <1>4, Zenon
  <2>2. CASE p \in proposed
    <3> HIDE DEF o, s
    <3> QED BY <1>1, <1>5, <2>1, <2>2, Zenon DEF NotClosed
  <2>3. CASE p = close /\ entry[k].life = "killing"
    <3>1. entry[u].session \in Conn /\ entry[u].session # o
      BY <1>1, <2>1, <2>3, LinkedParts, Facts DEF Lives
    <3>2. s.version # 0 /\ session[entry[u].session].version # s.version
      BY <1>1, <1>3, <3>1, Zenon DEF Versions
    <3> QED BY <1>6, <2>1, <2>3, <3>2, ZenonT(30)
  <2> QED BY <1>7, <2>2, <2>3, Zenon
<1> QED BY <1>8, <1>9, <1>10, <1>11, <1>12, <1>13 DEF IInv

\* The callbacks when one comes last.
LEMMA AppendCall ==
  ASSUME Typed, NEW c, callbacks' = Append(callbacks, c)
  PROVE  \E n : /\ n \notin DOMAIN callbacks /\ callbacks'[n] = c
                /\ DOMAIN callbacks' = DOMAIN callbacks \cup {n}
                /\ \A i \in DOMAIN callbacks : callbacks'[i] = callbacks[i]
<1>1. callbacks \in Seq(Call)  BY TypedParts, Zenon DEF TypedCalls
<1> HIDE DEF Call
<1>2. /\ Len(callbacks) \in Nat /\ DOMAIN callbacks = 1 .. Len(callbacks)
      /\ DOMAIN callbacks' = 1 .. (Len(callbacks) + 1)
      /\ callbacks'[Len(callbacks) + 1] = c
      /\ \A i \in 1 .. Len(callbacks) : callbacks'[i] = callbacks[i]
  BY <1>1
<1>3. /\ Len(callbacks) + 1 \notin DOMAIN callbacks
      /\ DOMAIN callbacks' = DOMAIN callbacks \cup {Len(callbacks) + 1}
  BY <1>2
<1> QED BY <1>2, <1>3, Zenon

\* The callbacks when the first goes.
LEMMA TailCalls ==
  ASSUME Typed, callbacks # <<>>, callbacks' = Tail(callbacks)
  PROVE  /\ 1 \in DOMAIN callbacks /\ Head(callbacks) = callbacks[1]
         /\ DOMAIN callbacks' \subseteq Nat
         /\ \A i \in DOMAIN callbacks' :
              /\ i + 1 \in DOMAIN callbacks /\ i + 1 # 1
              /\ callbacks'[i] = callbacks[i + 1]
<1>1. callbacks \in Seq(Call)  BY TypedParts, ZenonT(30) DEF TypedCalls
<1> HIDE DEF Call
<1> QED BY <1>1

\* A connect that is proposed becomes a callback, chosen or not.
LEMMA CalledStep ==
  ASSUME Typed, OneConnect, NEW p \in proposed, IsConnect(p), NEW c, c.conn = p.conn,
         callbacks' = Append(callbacks, c), proposed' = proposed \ {p},
         UNCHANGED <<entry, asked>>
  PROVE  OneConnect'
<1>1. PICK n : /\ n \notin DOMAIN callbacks /\ callbacks'[n] = c
               /\ DOMAIN callbacks' = DOMAIN callbacks \cup {n}
               /\ \A i \in DOMAIN callbacks : callbacks'[i] = callbacks[i]
  BY AppendCall, Zenon
<1>2. \A u \in Conn : Fresh(u)' <=> Fresh(u)  BY Zenon DEF Fresh
<1>3. /\ \A q \in asked : q.conn \in Conn /\ Fresh(q.conn) /\ q.conn # c.conn
      /\ \A r \in proposed' : IsConnect(r) =>
           r.conn \in Conn /\ Fresh(r.conn) /\ r.conn # c.conn
      /\ \A i \in DOMAIN callbacks :
           callbacks[i].conn \in Conn /\ Fresh(callbacks[i].conn) /\ callbacks[i].conn # c.conn
      /\ c.conn \in Conn /\ Fresh(c.conn)
  BY Facts, Zenon DEF OneConnect
<1> QED BY <1>1, <1>2, <1>3 DEF OneConnect

\* A value is chosen and executed.
LEMMA ChooseStep ==
  ASSUME IInv, Typed', NEW p \in proposed, Choose(p)
  PROVE  IInv'
<1> USE DEF node, objects, thread, data, cleaning
<1>1. Typed /\ OneConnect /\ Linked /\ Versions /\ NotDue /\ Listed /\ NotClosed
  BY DEF IInv
<1>2. /\ UNCHANGED <<entry, session, sessions_, asked, mishaps, timers>>
      /\ proposed' = proposed \ {p}
  BY ZenonT(30) DEF Choose
<1>3. Linked' /\ Listed' /\ NotClosed'
  BY <1>1, <1>2, ZenonT(30) DEF Linked, Holds, Lives, Listed, NotClosed
<1>4. CASE p.type = "connect"
  <2> DEFINE c == [conn |-> p.conn, session_id |-> p.session_id, version |-> instance',
                   ok |-> CreateSessionOK(db, p.session_id, p.version)]
  <2>1. /\ instance' = instance + 1 /\ callbacks' = Append(callbacks, c)
        /\ db' = CreateSession(db, p.session_id, instance', p.version)
    BY <1>4, Zenon DEF Choose
  <2>2. OneConnect'
    BY <1>1, <1>2, <1>4, <2>1, CalledStep, Zenon DEF IsConnect
  <2>3. c.version = instance + 1 /\ instance \in Nat  BY <1>1, <2>1, Facts, Zenon
  <2>4. \A sid \in DOMAIN db' : db'[sid] \in Nat /\ db'[sid] <= instance'
    <3>1. \A sid \in DOMAIN db' :
            (sid \in DOMAIN db /\ db'[sid] = db[sid]) \/ db'[sid] = instance'
      BY <2>1, Zenon DEF CreateSession, Put
    <3>2. \A sid \in DOMAIN db : db[sid] \in Nat /\ db[sid] <= instance
      BY <1>1, Facts, Zenon DEF Versions
    <3> QED BY <2>1, <2>3, <3>1, <3>2
  <2> HIDE DEF c
  <2>5. PICK n : /\ n \notin DOMAIN callbacks /\ callbacks'[n] = c
                 /\ DOMAIN callbacks' = DOMAIN callbacks \cup {n}
                 /\ \A i \in DOMAIN callbacks : callbacks'[i] = callbacks[i]
    BY <1>1, <2>1, AppendCall, Zenon
  <2>6. Versions'
    <3>1. \A x \in Nat : x <= instance => x <= instance' /\ x # instance + 1
      BY <2>1, <2>3
    <3>2. instance + 1 # 0 /\ instance + 1 <= instance'  BY <2>1, <2>3
    <3>3. \A v \in Conn : session[v].version \in Nat /\ session[v].version <= instance
      BY <1>1, Facts, Zenon DEF Versions
    <3>4. \A i \in DOMAIN callbacks :
            callbacks[i].version \in Nat /\ callbacks[i].version <= instance
      BY <1>1, Facts, Zenon DEF Versions
    <3>5. \A t \in timers : \A sid \in DOMAIN t : t[sid] <= instance'
      BY <1>1, <3>1, Facts, Zenon DEF Versions
    <3>6. \A r \in proposed : ~IsConnect(r) =>
            \A sid \in DOMAIN r.sessions : r.sessions[sid] <= instance'
      BY <1>1, <3>1, Facts, ZenonT(30) DEF Versions
    <3>7. \A i \in DOMAIN callbacks' : callbacks'[i].ok =>
            /\ callbacks'[i].version # 0
            /\ \A v \in Conn : session[v].version # callbacks'[i].version
            /\ \A j \in DOMAIN callbacks' :
                 callbacks'[j].version = callbacks'[i].version => j = i
      BY <1>1, <2>3, <2>5, <3>1, <3>2, <3>3, <3>4, SMTT(30) DEF Versions
    <3>8. \A i \in DOMAIN callbacks' : callbacks'[i].version <= instance'
      BY <2>3, <2>5, <3>1, <3>2, <3>4, Zenon
    <3>9. \A v \in Conn : session[v].version <= instance'  BY <3>1, <3>3, Zenon
    <3>10. /\ \A v, u \in Conn : session[v].version = session[u].version =>
                v = u \/ session[v].version = 0
           /\ \A u \in Conn : entry[u].session # NoSession =>
                session[entry[u].session].version # 0
      BY <1>1, Zenon DEF Versions
    <3> QED BY <1>2, <2>4, <3>5, <3>6, <3>7, <3>8, <3>9, <3>10, ZenonT(30) DEF Versions
  <2>7. NotDue'
    <3>1. \A r \in proposed : ~IsConnect(r) =>
            \A sid \in DOMAIN r.sessions : r.sessions[sid] # instance + 1
      BY <1>1, <2>3, Facts DEF Versions
    <3> QED BY <1>1, <1>2, <2>3, <2>5, <3>1, SMTT(30) DEF NotDue
  <2> QED BY <1>3, <2>2, <2>6, <2>7, Zenon DEF IInv
<1>5. CASE p.type = "close"
  <2>1. /\ UNCHANGED <<instance, callbacks>> /\ DOMAIN db' \subseteq DOMAIN db
        /\ \A sid \in DOMAIN db' : db'[sid] = db[sid]
    BY <1>5, Zenon DEF Choose
  <2>2. OneConnect'  BY <1>1, <1>2, <2>1, ZenonT(30) DEF OneConnect, Fresh
  <2>3. Versions'  BY <1>1, <1>2, <2>1 DEF Versions
  <2>4. NotDue'  BY <1>1, <1>2, <2>1, Zenon DEF NotDue
  <2> QED BY <1>3, <2>2, <2>3, <2>4 DEF IInv
<1> QED BY <1>4, <1>5, Zenon DEF Choose

\* A value is not chosen.
LEMMA FailStep ==
  ASSUME IInv, Typed', NEW p \in proposed, Fail(p)
  PROVE  IInv'
<1> USE DEF node, objects, thread, data, cleaning
<1>1. Typed /\ OneConnect /\ Linked /\ Versions /\ NotDue /\ Listed /\ NotClosed
  BY DEF IInv
<1>2. /\ UNCHANGED <<entry, session, sessions_, asked, db, instance, timers>>
      /\ proposed' = proposed \ {p} /\ mishaps \subseteq mishaps'
  BY Zenon DEF Fail
<1>3. Linked'
  <2>1. \A t \in DOMAIN sessions_ :
          \/ \E u \in Conn : Lives(u) /\ entry[u].session = sessions_[t]
          \/ <<"shared", t>> \in mishaps'
    BY <1>1, <1>2, LinkedParts, Zenon
  <2>2. \A u \in Conn : Lives(u)' <=> Lives(u)  BY <1>2, Zenon DEF Lives
  <2> QED BY <1>1, <1>2, <2>1, <2>2, LinkedParts, Zenon DEF Linked, Holds
<1>4. Listed' /\ NotClosed'
  BY <1>1, <1>2, Zenon DEF Listed, NotClosed
<1>5. CASE p.type = "connect"
  <2> DEFINE c == [conn |-> p.conn, session_id |-> p.session_id, version |-> 0, ok |-> FALSE]
  <2>1. callbacks' = Append(callbacks, c)
    BY <1>5, Zenon DEF Fail
  <2>2. OneConnect'
    BY <1>1, <1>2, <1>5, <2>1, CalledStep, Zenon DEF IsConnect
  <2>3. c.version = 0 /\ c.ok = FALSE /\ instance \in Nat  BY <1>1, Facts, Zenon
  <2> HIDE DEF c
  <2>4. PICK n : /\ n \notin DOMAIN callbacks /\ callbacks'[n] = c
                 /\ DOMAIN callbacks' = DOMAIN callbacks \cup {n}
                 /\ \A i \in DOMAIN callbacks : callbacks'[i] = callbacks[i]
    BY <1>1, <2>1, AppendCall, ZenonT(30)
  <2>5. Versions'  BY <1>1, <1>2, <2>3, <2>4 DEF Versions
  <2>6. NotDue'  BY <1>1, <1>2, <2>3, <2>4, ZenonT(30) DEF NotDue
  <2> QED BY <1>3, <1>4, <2>2, <2>5, <2>6, Zenon DEF IInv
<1>6. CASE p.type = "close"
  <2>1. UNCHANGED callbacks  BY <1>6, Zenon DEF Fail
  <2>2. OneConnect'  BY <1>1, <1>2, <2>1, ZenonT(30) DEF OneConnect, Fresh
  <2>3. Versions'  BY <1>1, <1>2, <2>1, ZenonT(30) DEF Versions
  <2>4. NotDue'  BY <1>1, <1>2, <2>1, Zenon DEF NotDue
  <2> QED BY <1>3, <1>4, <2>2, <2>3, <2>4 DEF IInv
<1> QED BY <1>5, <1>6, Zenon DEF Fail

\* CleanSessions of a server that is not the master.
LEMMA CleanSessionsStep ==
  ASSUME IInv, Typed', CleanSessions, ~isMaster
  PROVE  IInv'
<1> USE DEF node, objects, thread, data, cleaning
<1>1. Typed /\ OneConnect /\ Linked /\ Versions /\ NotDue /\ Listed /\ NotClosed
  BY Zenon DEF IInv
<1>2. /\ UNCHANGED <<asked, proposed, callbacks, db, instance, timers, mishaps>>
      /\ sessions_' = EmptyMap
  BY Zenon DEF CleanSessions
<1>3. \A u \in Conn : /\ session'[u].session_id = session[u].session_id
                      /\ session'[u].version = session[u].version
                      /\ session'[u].conn = session[u].conn
                      /\ entry'[u].life = entry[u].life
                      /\ entry'[u].started = entry[u].started
                      /\ entry'[u].session = entry[u].session
  BY <1>1, CleanEffect, TypedParts, Zenon
<1>4. /\ \A u \in Conn : session[u].closed => session'[u].closed
      /\ \A u \in Conn : Alive(u) /\ (\E s \in DOMAIN sessions_ : sessions_[s] = u)
           => session'[u].closed
  <2>1. \A u \in Conn :
          session'[u] = IF u \in {sessions_[s] : s \in DOMAIN sessions_} /\ Alive(u)
                        THEN Closed(session[u]) ELSE session[u]
    BY Zenon DEF CleanSessions
  <2>2. \A u \in Conn : Closed(session[u]).closed = TRUE  BY Zenon DEF Closed
  <2> HIDE DEF Closed, Alive
  <2>3. ASSUME NEW u \in Conn, session[u].closed PROVE session'[u].closed
    BY <2>1, <2>2, <2>3, Zenon
  <2>4. ASSUME NEW u \in Conn, Alive(u), NEW s \in DOMAIN sessions_, sessions_[s] = u
        PROVE  session'[u].closed
    <3>1. u \in {sessions_[t] : t \in DOMAIN sessions_}  BY <2>4, Zenon
    <3>2. session'[u] = Closed(session[u])  BY <2>1, <2>4, <3>1, ZenonT(30)
    <3> QED BY <2>2, <3>2, Zenon
  <2> QED BY <2>3, <2>4, Zenon
<1>5. OneConnect'
  <2>1. \A u \in Conn : Fresh(u) => Fresh(u)'  BY <1>3, Zenon DEF Fresh
  <2> QED BY <1>1, <1>2, <2>1, Facts DEF OneConnect
<1>6. Linked'
  <2>1. DOMAIN sessions_' = {}  BY <1>2, ZenonT(30) DEF EmptyMap
  <2> QED BY <1>1, <1>2, <1>3, <2>1, SameLinks, Zenon
<1>7. Versions'  BY <1>1, <1>2, <1>3, Facts DEF Versions
<1>8. NotDue'  BY <1>1, <1>2, Zenon DEF NotDue
<1>9. ASSUME NEW u \in Conn, entry'[u].life = "kept", entry'[u].session # NoSession,
             session'[entry'[u].session].conn = u, ~session'[entry'[u].session].closed
      PROVE  /\ entry[u].life = "kept" /\ entry[u].session \in Conn
             /\ entry[u].session # NoSession
             /\ entry'[u].session = entry[u].session
             /\ session[entry[u].session].conn = u /\ ~session[entry[u].session].closed
             /\ session'[entry[u].session].session_id = session[entry[u].session].session_id
             /\ session'[entry[u].session].version = session[entry[u].session].version
  <2>1. entry'[u].session = entry[u].session /\ entry[u].session \in Conn
    BY <1>1, <1>3, <1>9, Facts, Zenon
  <2>2. ~session[entry[u].session].closed  BY <1>4, <1>9, <2>1, Zenon
  <2> QED BY <1>3, <1>9, <2>1, <2>2, Zenon
<1>10. Listed'
  <2> SUFFICES ASSUME NEW u \in Conn, entry'[u].life = "kept",
                      entry'[u].session # NoSession,
                      session'[entry'[u].session].conn = u,
                      ~session'[entry'[u].session].closed
               PROVE  <<"erased", session'[entry'[u].session].session_id>> \in mishaps'
    BY Zenon DEF Listed
  <2> DEFINE v == entry[u].session
             s == session[v].session_id
  <2>1. (s \in DOMAIN sessions_ /\ sessions_[s] = v) \/ <<"erased", s>> \in mishaps
    BY <1>1, <1>9, Zenon DEF Listed
  <2>2. Alive(v)
    BY <1>9, Zenon DEF Alive, Holders
  <2>3. ~(s \in DOMAIN sessions_ /\ sessions_[s] = v)
    BY <1>4, <1>9, <2>2, ZenonT(30)
  <2> QED BY <1>2, <1>9, <2>1, <2>3, Zenon
<1>11. NotClosed'
  <2> SUFFICES ASSUME NEW u \in Conn, NEW p \in proposed,
                      entry'[u].life = "kept", entry'[u].session # NoSession,
                      session'[entry'[u].session].conn = u,
                      ~session'[entry'[u].session].closed, ~IsConnect(p),
                      session'[entry'[u].session].session_id \in DOMAIN p.sessions
               PROVE  LET sid == session'[entry'[u].session].session_id
                      IN \/ p.sessions[sid] # session'[entry'[u].session].version
                         \/ <<"erased", sid>> \in mishaps
    BY <1>2, Zenon DEF NotClosed
  <2> DEFINE v == session[entry[u].session]
  <2>1. /\ entry[u].life = "kept" /\ entry[u].session # NoSession /\ v.conn = u /\ ~v.closed
        /\ v.session_id \in DOMAIN p.sessions
    BY <1>9, Zenon
  <2>2. p.sessions[v.session_id] # v.version \/ <<"erased", v.session_id>> \in mishaps
    BY <1>1, <2>1, Zenon DEF NotClosed
  <2> QED BY <1>9, <2>2, Zenon
<1> QED BY <1>5, <1>6, <1>7, <1>8, <1>10, <1>11, Zenon DEF IInv

\* The timer of CleanSessions.
LEMMA CleanTimerStep ==
  ASSUME IInv, Typed', NEW t \in timers, CleanTimer(t)
  PROVE  IInv'
<1> USE DEF node, objects, thread, data, cleaning
<1> DEFINE gone == Absent(t)
           close == [type |-> "close", sessions |-> [sid \in gone |-> t[sid]]]
<1>1. Typed /\ OneConnect /\ Linked /\ Versions /\ NotDue /\ Listed /\ NotClosed
  BY DEF IInv
<1>2. /\ UNCHANGED <<entry, session, sessions_, asked, callbacks, db, instance>>
      /\ timers' \subseteq timers /\ mishaps \subseteq mishaps'
      /\ \A p \in proposed' : p \in proposed \/ p = close
  BY Zenon DEF CleanTimer
<1>3. /\ ~IsConnect(close) /\ DOMAIN close.sessions = DOMAIN t \ DOMAIN sessions_
      /\ \A sid \in DOMAIN t \ DOMAIN sessions_ : close.sessions[sid] = t[sid]
  BY ZenonT(30) DEF IsConnect, Absent
<1> HIDE DEF close, gone
<1>4. OneConnect'  BY <1>1, <1>2, <1>3 DEF OneConnect, Fresh
<1>5. Linked'
  <2>1. \A s \in DOMAIN sessions_ :
          \/ \E u \in Conn : Lives(u) /\ entry[u].session = sessions_[s]
          \/ <<"shared", s>> \in mishaps'
    BY <1>1, <1>2, LinkedParts, Zenon
  <2>2. \A u \in Conn : Lives(u)' <=> Lives(u)  BY <1>2, Zenon DEF Lives
  <2> QED BY <1>1, <1>2, <2>1, <2>2, LinkedParts, Zenon DEF Linked, Holds
<1>6. Versions'
  <2>1. \A p \in proposed' : ~IsConnect(p) =>
          \A sid \in DOMAIN p.sessions : p.sessions[sid] <= instance
    BY <1>1, <1>2, <1>3, ZenonT(30) DEF Versions
  <2> QED BY <1>1, <1>2, <2>1, Zenon DEF Versions
<1>7. NotDue'
  <2>1. \A i \in DOMAIN callbacks : callbacks[i].session_id \in DOMAIN t =>
          callbacks[i].version # t[callbacks[i].session_id]
    BY Zenon DEF CleanTimer, Prompt
  <2> QED BY <1>1, <1>2, <1>3, <2>1 DEF NotDue
<1>8. Listed'  BY <1>1, <1>2, Zenon DEF Listed
<1>9. NotClosed'
  <2> SUFFICES ASSUME NEW u \in Conn, NEW p \in proposed',
                      entry[u].life = "kept", entry[u].session # NoSession,
                      session[entry[u].session].conn = u,
                      ~session[entry[u].session].closed, ~IsConnect(p),
                      session[entry[u].session].session_id \in DOMAIN p.sessions
               PROVE  LET sid == session[entry[u].session].session_id
                      IN \/ p.sessions[sid] # session[entry[u].session].version
                         \/ <<"erased", sid>> \in mishaps'
    BY <1>2, Zenon DEF NotClosed
  <2>1. CASE p \in proposed  BY <1>1, <1>2, <2>1, Zenon DEF NotClosed
  <2>2. CASE p = close
    BY <1>1, <1>2, <1>3, <2>2, Zenon DEF Listed
  <2> QED BY <1>2, <2>1, <2>2, Zenon
<1> QED BY <1>4, <1>5, <1>6, <1>7, <1>8, <1>9 DEF IInv

\* The callback of a connect is not due any more.
LEMMA DoneStep ==
  ASSUME Typed, OneConnect, Versions, NotDue, callbacks # <<>>,
         callbacks' = Tail(callbacks), UNCHANGED <<asked, proposed>>,
         \A u \in Conn : u # Head(callbacks).conn => (Fresh(u) => Fresh(u)')
  PROVE  OneConnect' /\ NotDue'
<1> DEFINE c == Head(callbacks)
<1>1. /\ 1 \in DOMAIN callbacks /\ c = callbacks[1] /\ DOMAIN callbacks' \subseteq Nat
      /\ \A i \in DOMAIN callbacks' :
           i + 1 \in DOMAIN callbacks /\ i + 1 # 1 /\ callbacks'[i] = callbacks[i + 1]
  BY TailCalls, Zenon
<1> HIDE DEF c
<1>2. \A i, j \in Nat : i + 1 = j + 1 => i = j  BY SMTT(30)
<1>3. /\ \A q \in asked : q.conn \in Conn /\ q.conn # c.conn
      /\ \A p \in proposed : IsConnect(p) => p.conn \in Conn /\ p.conn # c.conn
      /\ \A i \in DOMAIN callbacks' : /\ callbacks'[i].conn \in Conn
                                      /\ callbacks'[i].conn # c.conn
                                      /\ Fresh(callbacks'[i].conn)
    BY <1>1, Facts, ZenonT(30) DEF OneConnect
<1>4. \A i \in DOMAIN callbacks', j \in DOMAIN callbacks' :
        callbacks'[i].conn = callbacks'[j].conn => i = j
  BY <1>1, <1>2 DEF OneConnect
<1>5. \A u \in Conn : u # c.conn => (Fresh(u) => Fresh(u)')  BY Zenon DEF c
<1>6. /\ \A q \in asked, i \in DOMAIN callbacks' : q.conn # callbacks'[i].conn
      /\ \A p \in proposed, i \in DOMAIN callbacks' :
           IsConnect(p) => p.conn # callbacks'[i].conn
  BY <1>1 DEF OneConnect
<1>7. OneConnect'  BY <1>3, <1>4, <1>5, <1>6, Zenon DEF OneConnect
<1>8. NotDue'  BY <1>1 DEF NotDue
<1> QED BY <1>7, <1>8, Zenon

\* CreateSession, for a session that sessions_ does not have or has alive.
LEMMA CreateSessionStep ==
  ASSUME IInv, Typed', ConnectCallback, Head(callbacks).ok,
         ~Expired(Head(callbacks).session_id)
  PROVE  IInv'
<1> USE DEF node, objects, thread, data, cleaning
<1> DEFINE c == Head(callbacks)
           k == c.conn
           sid == c.session_id
           o == IF sid \in DOMAIN sessions_ THEN sessions_[sid] ELSE k
<1>1. Typed /\ OneConnect /\ Linked /\ Versions /\ NotDue /\ Listed /\ NotClosed
  BY Zenon DEF IInv
<1>2. /\ callbacks # <<>> /\ callbacks' = Tail(callbacks)
      /\ UNCHANGED <<asked, proposed, db, instance, timers, mishaps>>
      /\ entry' = [entry EXCEPT ![k].session = o]
      /\ session' = [session EXCEPT ![o] = SessionOn(o, k, sid, c.version)]
      /\ sessions_' = Put(sessions_, sid, o)
  BY Zenon DEF ConnectCallback, CreateSessionHere
<1>3. /\ 1 \in DOMAIN callbacks /\ c = callbacks[1] /\ DOMAIN callbacks' \subseteq Nat
      /\ \A i \in DOMAIN callbacks' :
           i + 1 \in DOMAIN callbacks /\ i + 1 # 1 /\ callbacks'[i] = callbacks[i + 1]
  BY <1>1, <1>2, TailCalls, Zenon
<1>4. k \in Conn /\ Fresh(k) /\ c.version \in Nat
  BY <1>1, <1>3, Facts, Zenon DEF OneConnect
<1>5. sid \in 1 .. MaxConn /\ sid # 0
  <2>1. c \in Call  BY <1>1, <1>2, HeadIsCall, TypedParts, Zenon
  <2>2. c.session_id \in 1 .. MaxConn  BY <2>1, ZenonT(30) DEF Call
  <2> QED BY <2>2, BoundAssumption
<1>6. /\ entry[k].session = NoSession /\ entry[k].life = "kept" /\ Lives(k) /\ entry[k].started
      /\ \A u \in Conn : entry[u].session # k
      /\ \A s \in DOMAIN sessions_ : sessions_[s] # k
  BY <1>1, <1>4, LinkedParts, Facts DEF Fresh, Lives
<1>7. /\ o \in Conn /\ o # NoSession
      /\ sid \in DOMAIN sessions_ => o = sessions_[sid]
      /\ sid \notin DOMAIN sessions_ => o = k
  BY <1>1, <1>4, Facts, Zenon
<1>8. /\ entry'[k].session = o
      /\ \A u \in Conn : /\ entry'[u].life = entry[u].life
                         /\ entry'[u].started = entry[u].started
                         /\ Lives(u)' <=> Lives(u)
      /\ \A u \in Conn \ {k} : entry'[u].session = entry[u].session
  <2>1. entry \in [Conn -> Entry]  BY <1>1, TypedParts, Zenon DEF TypedObjects
  <2> HIDE DEF o, k
  <2> QED BY <1>2, <1>4, <1>7, <2>1, Zenon DEF Entry, Lives
<1>9. /\ session'[o].session_id = sid /\ session'[o].version = c.version
      /\ session'[o].conn = k
      /\ \A u \in Conn \ {o} : session'[u] = session[u]
  <2>1. session \in [Conn -> Object]  BY <1>1, TypedParts, Zenon DEF TypedObjects
  <2> HIDE DEF o, k, sid
  <2> QED BY <1>2, <1>7, <2>1, Zenon DEF SessionOn
<1>10. /\ DOMAIN sessions_' = DOMAIN sessions_ \cup {sid} /\ sessions_'[sid] = o
       /\ \A s \in DOMAIN sessions_ \ {sid} : sessions_'[s] = sessions_[s] /\ sessions_'[s] # o
  <2>1. /\ DOMAIN sessions_' = DOMAIN sessions_ \cup {sid} /\ sessions_'[sid] = o
        /\ \A s \in DOMAIN sessions_ \ {sid} : sessions_'[s] = sessions_[s]
    <3> HIDE DEF o, sid
    <3> QED BY <1>2, ZenonT(30) DEF Put
  <2>2. \A s \in DOMAIN sessions_ \ {sid} : sessions_[s] # o
    BY <1>1, <1>6, <1>7, LinkedParts, SMTT(30)
  <2> HIDE DEF o, sid
  <2> QED BY <2>1, <2>2, Zenon
<1>11. /\ \A v \in Conn : session[v].version # c.version
       /\ c.version # 0 /\ c.version <= instance
       /\ \A i \in DOMAIN callbacks' : callbacks'[i].version # c.version
  BY <1>1, <1>3 DEF Versions
<1>12. \A p \in proposed : ~IsConnect(p) /\ sid \in DOMAIN p.sessions =>
         p.sessions[sid] # c.version
  BY <1>1, <1>3, ZenonT(30) DEF NotDue
<1>13. OneConnect' /\ NotDue'
  <2>1. \A u \in Conn : u # k => (Fresh(u) => Fresh(u)')
    BY <1>8, Zenon DEF Fresh
  <2> QED BY <1>1, <1>2, <2>1, DoneStep, Zenon
<1> HIDE DEF c, k, sid, o
<1>14. Linked'
  <2>1. entry'[o].session = o
    <3>1. CASE o = k  BY <1>8, <3>1, Zenon
    <3>2. CASE o # k
      <4>1. entry[o].session = o  BY <1>1, <1>7, <3>2, LinkedParts
      <4> QED BY <1>7, <1>8, <3>2, <4>1, ZenonT(30)
    <3> QED BY <3>1, <3>2, Zenon
  <2>2. \A u \in Conn : entry'[u].session # NoSession =>
          /\ entry'[u].started
          /\ entry'[entry'[u].session].session = entry'[u].session
          /\ session'[entry'[u].session].session_id # 0
    <3> SUFFICES ASSUME NEW u \in Conn, entry'[u].session # NoSession
                 PROVE  /\ entry'[u].started
                        /\ entry'[entry'[u].session].session = entry'[u].session
                        /\ session'[entry'[u].session].session_id # 0
      BY Zenon
    <3>1. CASE entry'[u].session = o
      <4>1. entry'[u].started
        <5>1. CASE u = k  BY <1>4, <1>6, <1>8, <5>1, Zenon
        <5>2. CASE u # k  BY <1>1, <1>7, <1>8, <3>1, <5>2, LinkedParts, ZenonT(30)
        <5> QED BY <5>1, <5>2, Zenon
      <4> QED BY <1>5, <1>9, <2>1, <3>1, <4>1, Zenon
    <3>2. CASE entry'[u].session # o
      <4>1. u # k /\ entry'[u].session = entry[u].session  BY <1>8, <3>2, Zenon
      <4>2. entry[u].session \in Conn \ {o, k}
        BY <1>1, <1>6, <3>2, <4>1, Facts, ZenonT(30)
      <4> QED BY <1>1, <1>8, <1>9, <4>1, <4>2, LinkedParts
    <3> QED BY <3>1, <3>2, Zenon
  <2>3. \A s \in DOMAIN sessions_' : /\ entry'[sessions_'[s]].session = sessions_'[s]
                                     /\ session'[sessions_'[s]].session_id = s
    <3>1. \A s \in DOMAIN sessions_ \ {sid} : /\ entry'[sessions_'[s]].session = sessions_'[s]
                                              /\ session'[sessions_'[s]].session_id = s
      <4> SUFFICES ASSUME NEW s \in DOMAIN sessions_ \ {sid}
                   PROVE  /\ entry'[sessions_'[s]].session = sessions_'[s]
                          /\ session'[sessions_'[s]].session_id = s
        BY Zenon
      <4>1. /\ entry[sessions_[s]].session = sessions_[s]
            /\ session[sessions_[s]].session_id = s
            /\ sessions_[s] \in Conn
        BY <1>1, LinkedParts, Zenon
      <4>2. sessions_[s] # k  BY <1>6, Zenon
      <4>3. sessions_'[s] = sessions_[s] /\ sessions_[s] # o  BY <1>10, Zenon
      <4>4. entry'[sessions_[s]].session = entry[sessions_[s]].session
        BY <1>8, <4>1, <4>2, Zenon
      <4>5. session'[sessions_[s]] = session[sessions_[s]]  BY <1>9, <4>1, <4>3, Zenon
      <4> QED BY <4>1, <4>3, <4>4, <4>5, Zenon
    <3>2. entry'[sessions_'[sid]].session = sessions_'[sid]  BY <1>10, <2>1, Zenon
    <3>3. session'[sessions_'[sid]].session_id = sid  BY <1>9, <1>10, Zenon
    <3>4. \A s \in DOMAIN sessions_' : s = sid \/ s \in DOMAIN sessions_ \ {sid}
      BY <1>10, Zenon
    <3> QED BY <3>1, <3>2, <3>3, <3>4, Zenon
  <2>4. \A s \in DOMAIN sessions_' :
          \/ \E u \in Conn : Lives(u)' /\ entry'[u].session = sessions_'[s]
          \/ <<"shared", s>> \in mishaps'
    <3> SUFFICES ASSUME NEW s \in DOMAIN sessions_', <<"shared", s>> \notin mishaps'
                 PROVE  \E u \in Conn : Lives(u)' /\ entry'[u].session = sessions_'[s]
      BY Zenon
    <3>1. CASE s = sid  BY <1>4, <1>6, <1>8, <1>10, <3>1, Zenon
    <3>2. CASE s # sid
      <4>1. s \in DOMAIN sessions_ /\ sessions_'[s] = sessions_[s] /\ sessions_[s] \in Conn
        BY <1>1, <1>10, <3>2, LinkedParts, Zenon
      <4>2. PICK u \in Conn : Lives(u) /\ entry[u].session = sessions_[s]
        BY <1>1, <1>2, <4>1, LinkedParts, Zenon
      <4>3. u # k  BY <1>1, <1>6, <4>1, <4>2, Facts, Zenon
      <4> QED BY <1>8, <4>1, <4>2, <4>3, Zenon
    <3> QED BY <3>1, <3>2, Zenon
  <2>5. \A u \in Conn : entry'[u].life \in {"closing", "killing", "leaving"} =>
          entry'[u].session # NoSession
    BY <1>1, <1>7, <1>8, LinkedParts, ZenonT(30)
  <2>6. \A u \in Conn : entry'[u].life = "killing" =>
          /\ \A s \in DOMAIN sessions_' : sessions_'[s] # entry'[u].session
          /\ \A j \in Conn : Lives(j)' /\ entry'[j].session = entry'[u].session => j = u
    <3> SUFFICES ASSUME NEW u \in Conn, entry'[u].life = "killing"
                 PROVE  /\ \A s \in DOMAIN sessions_' : sessions_'[s] # entry'[u].session
                        /\ \A j \in Conn :
                             Lives(j)' /\ entry'[j].session = entry'[u].session => j = u
      BY Zenon
    <3>1. entry[u].life = "killing" /\ u # k /\ entry'[u].session = entry[u].session
      BY <1>6, <1>8, ZenonT(30)
    <3>2. entry[u].session # o  BY <1>1, <1>6, <1>7, <3>1, LinkedParts
    <3> QED BY <1>1, <1>8, <1>10, <3>1, <3>2, LinkedParts
  <2> QED BY <2>2, <2>3, <2>4, <2>5, <2>6, Zenon DEF Linked, Holds
<1>15. Versions'
  <2>1. \A i \in DOMAIN callbacks' : callbacks'[i].ok =>
          /\ callbacks'[i].version # 0
          /\ \A v \in Conn : session'[v].version # callbacks'[i].version
          /\ \A j \in DOMAIN callbacks' : callbacks'[j].version = callbacks'[i].version => j = i
    <3>1. \A i, j \in Nat : i + 1 = j + 1 => i = j  OBVIOUS
    <3> QED BY <1>1, <1>3, <1>7, <1>9, <1>11, <3>1 DEF Versions
  <2>2. \A i \in DOMAIN callbacks' : callbacks'[i].version <= instance
    BY <1>1, <1>3, Zenon DEF Versions
  <2>3. \A v \in Conn : session'[v].version <= instance
    BY <1>1, <1>7, <1>9, <1>11, ZenonT(30) DEF Versions
  <2>4. \A v, u \in Conn : session'[v].version = session'[u].version =>
          v = u \/ session'[v].version = 0
    BY <1>1, <1>7, <1>9, <1>11 DEF Versions
  <2>5. \A u \in Conn : entry'[u].session # NoSession => session'[entry'[u].session].version # 0
    <3> SUFFICES ASSUME NEW u \in Conn, entry'[u].session # NoSession
                 PROVE  session'[entry'[u].session].version # 0
      BY Zenon
    <3>1. CASE entry'[u].session = o  BY <1>9, <1>11, <3>1, Zenon
    <3>2. CASE entry'[u].session # o
      <4>1. entry'[u].session = entry[u].session /\ entry[u].session \in Conn
        BY <1>1, <1>8, <3>2, Facts, Zenon
      <4>2. session'[entry[u].session] = session[entry[u].session]  BY <1>9, <3>2, <4>1, Zenon
      <4> QED BY <1>1, <4>1, <4>2, ZenonT(30) DEF Versions
    <3> QED BY <3>1, <3>2, Zenon
  <2>6. /\ \A s \in DOMAIN db : db[s] <= instance
        /\ \A t \in timers : \A s \in DOMAIN t : t[s] <= instance
        /\ \A p \in proposed : ~IsConnect(p) =>
             \A s \in DOMAIN p.sessions : p.sessions[s] <= instance
    BY <1>1, Zenon DEF Versions
  <2> QED BY <1>2, <2>1, <2>2, <2>3, <2>4, <2>5, <2>6, ZenonT(30) DEF Versions
<1>16. ASSUME NEW u \in Conn, entry'[u].life = "kept", entry'[u].session # NoSession,
              session'[entry'[u].session].conn = u, ~session'[entry'[u].session].closed
       PROVE  \/ u = k /\ entry'[u].session = o
              \/ /\ entry'[u].session = entry[u].session /\ entry[u].session \in Conn \ {o}
                 /\ entry[u].life = "kept" /\ entry[u].session # NoSession
                 /\ session'[entry[u].session] = session[entry[u].session]
  <2>1. CASE u = k  BY <1>8, <2>1, Zenon
  <2>2. CASE u # k
    <3>1. /\ entry'[u].session = entry[u].session /\ entry[u].session \in Conn
          /\ entry[u].life = "kept"
      BY <1>1, <1>8, <1>16, <2>2, Facts, Zenon
    <3>2. entry[u].session # o  BY <1>9, <1>16, <2>2, <3>1, Zenon
    <3> QED BY <1>9, <1>16, <3>1, <3>2, Zenon
  <2> QED BY <2>1, <2>2, Zenon
<1>17. Listed'
  <2> SUFFICES ASSUME NEW u \in Conn, entry'[u].life = "kept",
                      entry'[u].session # NoSession,
                      session'[entry'[u].session].conn = u,
                      ~session'[entry'[u].session].closed
               PROVE  LET s == session'[entry'[u].session].session_id
                      IN \/ s \in DOMAIN sessions_' /\ sessions_'[s] = entry'[u].session
                         \/ <<"erased", s>> \in mishaps'
    BY Zenon DEF Listed
  <2>1. CASE u = k /\ entry'[u].session = o  BY <1>9, <1>10, <2>1, Zenon
  <2>2. CASE /\ entry'[u].session = entry[u].session /\ entry[u].session \in Conn \ {o}
             /\ entry[u].life = "kept" /\ entry[u].session # NoSession
             /\ session'[entry[u].session] = session[entry[u].session]
    <3> DEFINE v == entry[u].session
               s == session[v].session_id
    <3>1. (s \in DOMAIN sessions_ /\ sessions_[s] = v) \/ <<"erased", s>> \in mishaps
      BY <1>1, <2>2, Zenon DEF Listed
    <3>2. v # o /\ session'[v] = session[v] /\ entry'[u].session = v  BY <2>2, Zenon
    <3>3. (s \in DOMAIN sessions_' /\ sessions_'[s] = v) \/ <<"erased", s>> \in mishaps'
      <4> HIDE DEF s, v
      <4> QED BY <1>2, <1>7, <1>10, <3>1, <3>2, Zenon
    <3> QED BY <3>2, <3>3, Zenon
  <2> QED BY <1>16, <2>1, <2>2, Zenon
<1>18. NotClosed'
  <2> SUFFICES ASSUME NEW u \in Conn, NEW p \in proposed,
                      entry'[u].life = "kept", entry'[u].session # NoSession,
                      session'[entry'[u].session].conn = u,
                      ~session'[entry'[u].session].closed, ~IsConnect(p),
                      session'[entry'[u].session].session_id \in DOMAIN p.sessions
               PROVE  LET s == session'[entry'[u].session].session_id
                      IN \/ p.sessions[s] # session'[entry'[u].session].version
                         \/ <<"erased", s>> \in mishaps
    BY <1>2, Zenon DEF NotClosed
  <2>1. CASE u = k /\ entry'[u].session = o  BY <1>9, <1>12, <2>1, Zenon
  <2>2. CASE /\ entry'[u].session = entry[u].session /\ entry[u].session \in Conn \ {o}
             /\ entry[u].life = "kept" /\ entry[u].session # NoSession
             /\ session'[entry[u].session] = session[entry[u].session]
    BY <1>1, <2>2, Zenon DEF NotClosed
  <2> QED BY <1>16, <2>1, <2>2, Zenon
<1> QED BY <1>13, <1>14, <1>15, <1>17, <1>18, ZenonT(30) DEF IInv

\* The callback of a connect.
LEMMA ConnectCallbackStep ==
  ASSUME IInv, Typed', ConnectCallback
  PROVE  IInv'
<1> USE DEF node, objects, thread, data, cleaning
<1> DEFINE c == Head(callbacks)
           k == c.conn
<1>1. Typed /\ OneConnect /\ Linked /\ Versions /\ NotDue /\ Listed /\ NotClosed
  BY Zenon DEF IInv
<1>2. /\ callbacks # <<>> /\ callbacks' = Tail(callbacks)
      /\ UNCHANGED <<asked, proposed, db, instance, timers, mishaps>>
  BY Zenon DEF ConnectCallback
<1>3. CASE c.ok /\ ~Expired(c.session_id)
  BY <1>3, CreateSessionStep, Zenon
<1>4. CASE \/ c.ok /\ Expired(c.session_id) /\ UNCHANGED <<entry, session, sessions_>>
           \/ /\ entry' = [entry EXCEPT ![k].started = FALSE]
              /\ UNCHANGED <<session, sessions_>>
  <2>1. /\ 1 \in DOMAIN callbacks /\ c = callbacks[1] /\ DOMAIN callbacks' \subseteq Nat
        /\ \A i \in DOMAIN callbacks' :
             i + 1 \in DOMAIN callbacks /\ i + 1 # 1 /\ callbacks'[i] = callbacks[i + 1]
    BY <1>1, <1>2, TailCalls, Zenon
  <2>2. k \in Conn /\ entry[k].session = NoSession
    BY <1>1, <2>1, Facts, ZenonT(30) DEF OneConnect, Fresh
  <2>3. /\ \A u \in Conn : /\ entry'[u].life = entry[u].life
                           /\ entry'[u].session = entry[u].session
                           /\ Lives(u)' <=> Lives(u)
        /\ \A u \in Conn \ {k} : entry'[u] = entry[u]
        /\ UNCHANGED <<session, sessions_>>
    <3>1. entry \in [Conn -> Entry]  BY <1>1, TypedParts, Zenon DEF TypedObjects
    <3> HIDE DEF k, c
    <3>2. CASE UNCHANGED <<entry, session, sessions_>>  BY <3>2, Zenon DEF Lives
    <3>3. CASE entry' = [entry EXCEPT ![k].started = FALSE] /\ UNCHANGED <<session, sessions_>>
      BY <2>2, <3>1, <3>3, ZenonT(30) DEF Lives, Entry
    <3> QED BY <1>4, <3>2, <3>3, Zenon
  <2>4. OneConnect' /\ NotDue'
    <3>1. \A u \in Conn : u # k => (Fresh(u) => Fresh(u)')  BY <2>3, Zenon DEF Fresh
    <3> QED BY <1>1, <1>2, <3>1, DoneStep, Zenon
  <2>5. \A u \in Conn : entry[u].session # NoSession => entry'[u] = entry[u]
    BY <2>2, <2>3
  <2> HIDE DEF k, c
  <2>6. Linked'
    BY <1>1, <1>2, <2>3, <2>5, SameLinks, ZenonT(30)
  <2>7. Versions'
    <3>1. \A i, j \in Nat : i + 1 = j + 1 => i = j  BY SMTT(30)
    <3>2. \A i \in DOMAIN callbacks' :
            /\ callbacks'[i].version <= instance
            /\ callbacks'[i].ok =>
                 /\ callbacks'[i].version # 0
                 /\ \A v \in Conn : session[v].version # callbacks'[i].version
                 /\ \A j \in DOMAIN callbacks' :
                      callbacks'[j].version = callbacks'[i].version => j = i
      BY <1>1, <2>1, <3>1 DEF Versions
    <3> QED BY <1>1, <1>2, <2>3, <3>2 DEF Versions
  <2>8. Listed'  BY <1>1, <1>2, <2>3, <2>5, ZenonT(30) DEF Listed
  <2>9. NotClosed'  BY <1>1, <1>2, <2>3, <2>5, ZenonT(30) DEF NotClosed
  <2> QED BY <2>4, <2>6, <2>7, <2>8, <2>9, Zenon DEF IInv
<1> QED BY <1>3, <1>4, Zenon DEF ConnectCallback, CreateSessionHere
-----------------------------------------------------------------------------
\* The server begins with the invariant.
LEMMA InitInv == ASSUME Init PROVE IInv
<1>1. /\ asked = {} /\ proposed = {} /\ callbacks = <<>> /\ timers = {} /\ mishaps = {}
      /\ DOMAIN sessions_ = {} /\ DOMAIN db = {} /\ instance = 0 /\ drawn = 0
  BY Zenon DEF Init, EmptyMap
<1>2. /\ \A u \in Conn : /\ entry[u].life = "none" /\ entry[u].session = NoSession
                         /\ session[u].version = 0
      /\ DOMAIN callbacks = {}
  <2>1. DOMAIN callbacks = {}  BY <1>1
  <2> QED BY <2>1, Zenon DEF Init, NoEntry, NoObject
<1>3. Typed
  <2>1. NoEntry \in Entry  BY Zenon DEF NoEntry, Entry
  <2>2. NoObject \in Object /\ NoObject.session_id = 0  BY Zenon DEF NoObject, Object
  <2>3. TypedObjects
    <3>1. IsMap(sessions_, 1 .. MaxConn, Conn)  BY Zenon DEF Init, IsMap, EmptyMap
    <3>2. locked \in Conn \cup {NoSession}  BY Zenon DEF Init
    <3> HIDE DEF NoEntry, NoObject
    <3> QED BY <2>1, <2>2, <3>1, <3>2, BoundAssumption DEF Init, TypedObjects
  <2>4. TypedCalls
    <3> HIDE DEF Call
    <3> QED BY <1>1 DEF TypedCalls
  <2>5. TypedIds
    <3>1. IsFiniteSet({}) /\ Cardinality({}) = 0  BY FS_EmptySet, Zenon
    <3> QED BY <1>1, <3>1, BoundAssumption DEF TypedIds
  <2>6. TypedData
    <3>1. IsMap(db, 1 .. MaxConn, Nat \ {0})  BY Zenon DEF Init, IsMap, EmptyMap
    <3>2. isMaster \in BOOLEAN /\ crashed \in BOOLEAN  BY Zenon DEF Init
    <3>3. instance \in Nat /\ cleans \in Nat /\ term \in 0 .. MaxTerm
      BY BoundAssumption DEF Init
    <3> QED BY <1>1, <3>1, <3>2, <3>3, Zenon DEF TypedData
  <2> QED BY <2>3, <2>4, <2>5, <2>6, TypedParts, Zenon
<1>4. OneConnect  BY <1>1, <1>2, Zenon DEF OneConnect
<1>5. Linked  BY <1>1, <1>2, ZenonT(30) DEF Linked
<1>6. Versions  BY <1>1, <1>2 DEF Versions
<1>7. NotDue /\ Listed /\ NotClosed  BY <1>1, <1>2, Zenon DEF NotDue, Listed, NotClosed
<1> QED BY <1>3, <1>4, <1>5, <1>6, <1>7, Zenon DEF IInv

\* Every step of a thread, of a client or of the group keeps it.
LEMMA NextInv == ASSUME IInv, [Next]_vars PROVE IInv'
<1>1. CASE UNCHANGED vars
  <2>1. UNCHANGED <<isMaster, term, entry, session, sessions_, asked, proposed, callbacks,
                    locked, db, instance, drawn, cleans, timers, crashed, mishaps>>
    BY <1>1, Zenon DEF vars, node, objects, thread, data, cleaning
  <2>2. Typed'  BY <2>1, ZenonT(30) DEF IInv, Typed, TypeOK
  <2>3. OneConnect'  BY <2>1 DEF IInv, OneConnect, IsConnect, Fresh
  <2>4. Linked'  BY <2>1, ZenonT(30) DEF IInv, Linked, Holds, Lives
  <2>5. Versions'  BY <2>1, Zenon DEF IInv, Versions, IsConnect, Fresh
  <2>6. NotDue' /\ Listed' /\ NotClosed'
    BY <2>1, Zenon DEF IInv, NotDue, Listed, NotClosed, Holds, Lives, IsConnect
  <2> QED BY <2>2, <2>3, <2>4, <2>5, <2>6, Zenon DEF IInv
<1>2. CASE Next
  <2>1. Typed /\ Linked  BY Zenon DEF IInv
  <2>2. TypedObjects' /\ TypedIds' /\ TypedData'
    BY <1>2, <2>1, TypedParts, TypedObjectsStep, TypedIdsStep, TypedDataStep, Zenon
  <2>3. TypedCalls'
    BY <1>2, <2>1, <2>2, TypedParts, TypedCallsStep, Zenon
  <2>4. Typed'
    <3>1. Typed' <=> TypedObjects' /\ TypedCalls' /\ TypedIds' /\ TypedData'
      BY TypedParts, PTL
    <3> QED BY <2>2, <2>3, <3>1, Zenon
  <2>5. isMaster \in BOOLEAN  BY <2>1, Zenon DEF Typed, TypeOK
  <2>6. CleanSessions => IInv'
    BY <2>4, <2>5, CleanSessionsStep, QuietSteps, Zenon
  <2> QED BY <1>2, <2>4, <2>6, QuietSteps, ConnectRequestStep, ProposeConnectStep, ExpireStep,
            CloseSessionStep, EndEntryStep, ChooseStep, FailStep, ConnectCallbackStep,
            CleanTimerStep, ZenonT(30) DEF Next
<1> QED BY <1>1, <1>2, Zenon

\* The invariant: a connection has one connect under way at most, sessions_ has
\* what the entries hold, and versions tell the objects apart.
THEOREM Inductive == Spec => []IInv
<1>1. Init => IInv  BY InitInv, Zenon
<1>2. IInv /\ [Next]_vars => IInv'  BY NextInv, Zenon
<1> QED BY <1>1, <1>2, PTL DEF Spec

\* The variables have the values that their declarations describe; no more ids
\* are drawn than there are connections.
THEOREM ServerTyped == Spec => []TypeOK
<1>1. IInv => TypeOK  BY Zenon DEF IInv, Typed
<1> QED BY <1>1, Inductive, PTL

\* CloseSession and CreateSession: a weak pointer of sessions_ has its session,
\* unless the session's last entry found it held by something else.
THEOREM PointersLive == Spec => []WeakPointersLive
<1>1. ASSUME IInv PROVE WeakPointersLive
  <2> SUFFICES ASSUME NEW sid \in DOMAIN sessions_, Expired(sid)
               PROVE  <<"shared", sid>> \in mishaps
    BY Zenon DEF WeakPointersLive
  <2>1. Typed /\ Linked  BY <1>1, Zenon DEF IInv
  <2>2. Holders(sessions_[sid]) = {}  BY Zenon DEF Expired, Alive
  <2>3. ~\E u \in Conn : Lives(u) /\ entry[u].session = sessions_[sid]
    BY <2>2, Zenon DEF Holders, Lives
  <2> QED BY <2>1, <2>3, LinkedParts, Zenon
<1> QED BY <1>1, Inductive, PTL

\* CloseSession and CleanSessions: no close is proposed for the version of a
\* session that has a connection, unless an earlier object of the session has
\* erased it from sessions_.
THEOREM ConnectedSpared == Spec => []Spared
<1>1. ASSUME IInv PROVE Spared
  <2> SUFFICES ASSUME NEW k \in Conn, NEW p \in proposed, Current(k), p.type = "close",
                      session[entry[k].session].session_id \in DOMAIN p.sessions
               PROVE  LET s == session[entry[k].session]
                      IN \/ p.sessions[s.session_id] # s.version
                         \/ <<"erased", s.session_id>> \in mishaps
    BY Zenon DEF Spared
  <2>1. ~IsConnect(p)  BY Zenon DEF IsConnect
  <2> QED BY <1>1, <2>1, Zenon DEF IInv, NotClosed, Current
<1> QED BY <1>1, Inductive, PTL
=============================================================================
