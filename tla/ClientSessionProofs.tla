------------------------ MODULE ClientSessionProofs ------------------------
(***************************************************************************)
(* Proofs of the safety properties of ClientSession, for every number of   *)
(* servers, moves, faults and reads.                                       *)
(***************************************************************************)
EXTENDS ClientSession, FiniteSetTheorems, TLAPS

\* The client knows the session of the last SS_CONNECTED, or SS_EXPIRED came.
Expiry == ~silent /\ (told = 0 \/ expired \/ session_id_ = told)

\* The client waits for its session, which it has asked for, or it is about to
\* ask again.
Asking ==
  \/ Len(c2s) = 1 /\ s2c = <<>>
  \/ c2s = <<>> /\ Len(s2c) = 1 /\ s2c[1] = Message("MT_CONNECT", 0)

\* Nothing of an earlier connection is left.
Quiet == owed = {} /\ reply = "none" /\ can_send_ = FALSE

\* What the connection, the session on it and what is under way say of each
\* other.
Phases ==
  /\ (tcp = "open" /\ on = 0 /\ shut = FALSE) => Asking /\ Quiet
  /\ tcp = "open" => state_ # "SS_DISCONNECTED"
  /\ tcp # "open" => /\ Quiet /\ on = 0 /\ c2s = <<>> /\ s2c = <<>> /\ shut = FALSE
  /\ on # 0 =>
       /\ shut = FALSE /\ home = <<server, on>>
       /\ \A i \in 1 .. Len(c2s) : c2s[i].type # "MT_CONNECT"
       /\ \A i \in 1 .. Len(s2c) : s2c[i] # Message("MT_CONNECT", 0)
  /\ reply # "none" => on # 0

Has(s, m) == \E i \in 1 .. Len(s) : s[i] = m

\* The client has a watcher of that kind, or will have one.
Expected(kind) == kind \in owed \/ reply = kind \/ Has(s2c, Message("reply", kind))

\* Then the server has the watch, or the notification is under way, or came
\* before the reply.
Kept ==
  /\ \A kind \in Kinds : Expected(kind) =>
       \/ on = 0 \/ kind \in regs \/ kind \in overtaken
       \/ Has(s2c, Message("MT_NOTIFICATION", kind))

\* The watch manager has a map for each kind, with the watchers to be called.
GoodWatches(w) ==
  /\ w = [kind \in Kinds |-> w[kind]]
  /\ \A kind \in Kinds : IsMap(w[kind], {"path"}, SUBSET Kinds)
Set(w, o) == \A kind \in o : kind \in SetAt(w[kind], "path")
-----------------------------------------------------------------------------
\* What a sequence has after an Append, a Tail and a concatenation.
LEMMA HasAppend ==
  ASSUME NEW S, NEW s \in Seq(S), NEW x \in S
  PROVE  /\ Append(s, x) \in Seq(S) /\ Len(Append(s, x)) = Len(s) + 1
         /\ \A i \in 1 .. Len(s) + 1 : Append(s, x)[i] = IF i = Len(s) + 1 THEN x ELSE s[i]
         /\ \A m : Has(Append(s, x), m) <=> Has(s, m) \/ x = m
<1>1. /\ Append(s, x) \in Seq(S) /\ Len(Append(s, x)) = Len(s) + 1 /\ Len(s) \in Nat
      /\ \A i \in 1 .. Len(s) + 1 : Append(s, x)[i] = IF i = Len(s) + 1 THEN x ELSE s[i]
  OBVIOUS
<1>2. ASSUME NEW m PROVE Has(Append(s, x), m) <=> Has(s, m) \/ x = m
  <2>1. Has(Append(s, x), m) => Has(s, m) \/ x = m
    BY <1>1 DEF Has
  <2>2. x = m => Has(Append(s, x), m)
    <3>1. Len(s) + 1 \in 1 .. Len(Append(s, x))  BY <1>1
    <3> QED BY <1>1, <3>1, Zenon DEF Has
  <2>3. Has(s, m) => Has(Append(s, x), m)
    <3>1. \A i \in 1 .. Len(s) : i \in 1 .. Len(Append(s, x)) /\ i # Len(s) + 1
      BY <1>1
    <3> QED BY <1>1, <3>1, Zenon DEF Has
  <2> QED BY <2>1, <2>2, <2>3, Zenon
<1> QED BY <1>1, <1>2, Zenon

\* What taking the head off a queue leaves in it.
LEMMA HasTail ==
  ASSUME NEW S, NEW s \in Seq(S), s # <<>>
  PROVE  /\ Tail(s) \in Seq(S) /\ Len(Tail(s)) = Len(s) - 1 /\ Head(s) = s[1]
         /\ Head(s) \in S /\ Len(s) \in Nat \ {0}
         /\ \A i \in 1 .. Len(s) - 1 : i + 1 \in 1 .. Len(s) /\ Tail(s)[i] = s[i + 1]
         /\ \A m : Has(s, m) <=> Head(s) = m \/ Has(Tail(s), m)
<1>1. /\ Tail(s) \in Seq(S) /\ Len(Tail(s)) = Len(s) - 1 /\ Head(s) = s[1]
      /\ Len(s) \in Nat \ {0} /\ Head(s) \in S
      /\ \A i \in 1 .. Len(s) - 1 : i + 1 \in 1 .. Len(s) /\ Tail(s)[i] = s[i + 1]
  OBVIOUS
<1>2. ASSUME NEW m PROVE Has(s, m) <=> Head(s) = m \/ Has(Tail(s), m)
  <2>1. Has(Tail(s), m) => Has(s, m)
    BY <1>1, Zenon DEF Has
  <2>2. Head(s) = m => Has(s, m)
    BY <1>1 DEF Has
  <2>3. Has(s, m) => Head(s) = m \/ Has(Tail(s), m)
    <3>1. ASSUME NEW i \in 1 .. Len(s), s[i] = m, i # 1 PROVE Has(Tail(s), m)
      <4>1. i - 1 \in 1 .. Len(s) - 1 /\ (i - 1) + 1 = i  BY <1>1, <3>1
      <4>2. Tail(s)[i - 1] = m  BY <1>1, <3>1, <4>1, Zenon
      <4> QED BY <1>1, <4>1, <4>2, Zenon DEF Has
    <3> QED BY <1>1, <3>1, Zenon DEF Has
  <2> QED BY <2>1, <2>2, <2>3, Zenon
<1> QED BY <1>1, <1>2, Zenon
-----------------------------------------------------------------------------
\* Expiry.

\* Every step keeps what the client knows of the session it last had.
LEMMA ExpiryStep == Expiry /\ [Next]_vars => Expiry'
<1> SUFFICES ASSUME Expiry, [Next]_vars PROVE Expiry'
  BY Zenon
<1> DEFINE Same == UNCHANGED <<told, expired, silent, session_id_>>
<1>1. Same => Expiry'  BY DEF Expiry
<1>2. ASSUME NEW sid, OnConnect(sid) PROVE Expiry'
  <2>1. ~silent /\ (told = 0 \/ expired \/ session_id_ = told)  BY Zenon DEF Expiry
  <2>2. CASE sid # 0
    <3>1. told' = sid /\ session_id_' = sid  BY <1>2, <2>2, Zenon DEF OnConnect
    <3>2. ~silent'
      <4>1. silent' = (silent \/ (sid # 0 /\ told \notin {0, sid} /\ ~expired /\ ~Expires(sid)))
        BY <1>2, Zenon DEF OnConnect
      <4>2. ~(told \notin {0, sid} /\ ~expired /\ ~Expires(sid))
        BY <2>1, Zenon DEF Expires
      <4> QED BY <2>1, <4>1, <4>2, Zenon
    <3> QED BY <3>1, <3>2, Zenon DEF Expiry
  <2>3. CASE sid = 0
    <3>1. told' = told  BY <1>2, <2>3, Zenon DEF OnConnect
    <3>2. expired' = (expired \/ Expires(sid))  BY <1>2, <2>3, Zenon DEF OnConnect
    <3>3. silent' = (silent \/ FALSE)  BY <1>2, <2>3, Zenon DEF OnConnect
    <3>4. Expires(sid) \/ session_id_ = 0  BY <2>3, Zenon DEF Expires
    <3> QED BY <2>1, <3>1, <3>2, <3>3, <3>4, Zenon DEF Expiry
  <2> QED BY <2>2, <2>3, Zenon
<1>3. CASE Client
  <2>1. CASE OnMessage
    <3>1. \/ OnClose(Head(s2c).arg) \/ OnConnect(Head(s2c).arg) \/ OnReply(Head(s2c).arg)
          \/ OnNotification(Head(s2c).arg) \/ UpdateServers
      BY <2>1, Zenon DEF OnMessage
    <3> QED BY <1>1, <1>2, <3>1, Zenon DEF OnClose, OnReply, OnNotification, UpdateServers,
                                    session, events
  <2> QED BY <1>1, <1>3, <2>1, Zenon DEF Client, OnConnection, OnFailue, OnDelay, Close,
                                  OnClose, session, events
<1>4. CASE Server
  BY <1>1, <1>4, Zenon DEF Server, ServerConnect, ServerRead, ServerReply, CleanSessions,
                    session, events
<1>5. CASE Notices \/ Learn \/ NewServers
  BY <1>1, <1>5, Zenon DEF Notices, Learn, NewServers, session, events
<1>6. CASE \E kind \in Kinds : Read(kind) \/ Change(kind)
  BY <1>1, <1>6, Zenon DEF Read, Change, session, events
<1>7. CASE (\E sid \in db : Expire(sid)) \/ \E s \in Up : MasterMoves(s)
  BY <1>1, <1>7, Zenon DEF Expire, MasterMoves, session, events
<1>8. CASE UNCHANGED vars
  BY <1>1, <1>8, Zenon DEF vars, session, events
<1> QED BY <1>3, <1>4, <1>5, <1>6, <1>7, <1>8, Zenon DEF Next
-----------------------------------------------------------------------------
\* The watch manager and the watchers that are owed a call.

\* An event of the session calls every watcher.
LEMMA StateEffect ==
  ASSUME GoodWatches(watches), Set(watches, owed), owed \subseteq Kinds,
         NEW b \in BOOLEAN, TriggerState(b)
  PROVE  /\ GoodWatches(watches') /\ Set(watches', owed')
         /\ owed' \subseteq owed /\ (b \/ owed = {} => owed' = {})
<1> DEFINE e == [type |-> "ET_NONE", path |-> ""]
<1>1. CASE ~b
  BY <1>1, Zenon DEF TriggerState
<1>2. CASE b
  <2>1. watches' = NoWatches /\ owed' = owed \ (All(watches["data"]) \cup All(watches["child"]))
    BY <1>2, Zenon DEF TriggerState, TriggerWatcher, Untriggered, Triggered
  <2>2. \A kind \in owed : kind \in All(watches[kind])
    BY Zenon DEF Set, SetAt, All
  <2>3. owed' = {}  BY <2>1, <2>2, Zenon DEF Kinds
  <2>4. GoodWatches(NoWatches)
    <3>1. IsMap(EmptyMap, {"path"}, SUBSET Kinds)  BY Zenon DEF IsMap, EmptyMap
    <3> QED BY <3>1, Zenon DEF GoodWatches, NoWatches, Kinds
  <2> QED BY <2>1, <2>3, <2>4, Zenon DEF Set
<1> QED BY <1>1, <1>2, Zenon

\* A notification calls the watcher of its kind.
LEMMA NodeEffect ==
  ASSUME GoodWatches(watches), Set(watches, owed), owed \subseteq Kinds,
         NEW k \in Kinds,
         TriggerWatcher([type |-> IF k = "data" THEN "ET_NODE_DATA_CHANGED"
                                  ELSE "ET_NODE_CHILDREN_CHANGED", path |-> "path"])
  PROVE  /\ GoodWatches(watches') /\ Set(watches', owed')
         /\ owed' \subseteq owed /\ k \notin owed'
<1>1. /\ watches' = [watches EXCEPT ![k] = Erase(@, "path")]
      /\ owed' = owed \ SetAt(watches[k], "path")
  BY Zenon DEF TriggerWatcher, Untriggered, Triggered, KindOf, Kinds
<1>2. \A j \in Kinds : watches'[j] = IF j = k THEN Erase(watches[k], "path") ELSE watches[j]
  BY <1>1, Zenon DEF GoodWatches
<1>3. k \notin owed'  BY <1>1, Zenon DEF Set
<1>4. Set(watches', owed')  BY <1>1, <1>2, <1>3, Zenon DEF Set
<1>5. IsMap(Erase(watches[k], "path"), {"path"}, SUBSET Kinds)
  BY Zenon DEF IsMap, Erase, GoodWatches
<1>6. GoodWatches(watches')  BY <1>1, <1>2, <1>5, Zenon DEF GoodWatches
<1> QED BY <1>1, <1>3, <1>4, <1>6, Zenon

\* A reply adds the watcher.
LEMMA AddEffect ==
  ASSUME GoodWatches(watches), Set(watches, owed), owed \subseteq Kinds,
         NEW k \in Kinds, watches' = AddWatcher(watches, k, "path", k),
         owed' = owed \cup {k}
  PROVE  GoodWatches(watches') /\ Set(watches', owed')
<1> DEFINE f == Put(watches[k], "path", SetAt(watches[k], "path") \cup {k})
<1>1. \A j \in Kinds : watches'[j] = IF j = k THEN f ELSE watches[j]
  BY Zenon DEF AddWatcher, GoodWatches
<1>2. SetAt(f, "path") = SetAt(watches[k], "path") \cup {k}
  BY Zenon DEF SetAt, Put
<1>3. IsMap(f, {"path"}, SUBSET Kinds)
  <2>1. IsMap(watches[k], {"path"}, SUBSET Kinds)  BY Zenon DEF GoodWatches
  <2>2. SetAt(watches[k], "path") \in SUBSET Kinds  BY <2>1, Zenon DEF IsMap, SetAt
  <2> QED BY <2>1, <2>2, Zenon DEF IsMap, Put
<1> HIDE DEF f
<1>4. watches' = [j \in Kinds |-> watches'[j]]  BY Zenon DEF AddWatcher, GoodWatches
<1>5. GoodWatches(watches')  BY <1>1, <1>3, <1>4, Zenon DEF GoodWatches
<1>6. Set(watches', owed')  BY <1>1, <1>2, Zenon DEF Set
<1> QED BY <1>5, <1>6, Zenon
-----------------------------------------------------------------------------
\* The steps, of which Expiry needs no more.

Core == /\ TypeOK /\ GoodWatches(watches) /\ Set(watches, owed) /\ Phases /\ Kept

\* What the messages are.
LEMMA Messages ==
  /\ \A n \in 0 .. drawn : Message("MT_CONNECT", n) \in Msg
  /\ \A s \in Servers \cup {0} :
       Message("MT_MASTER", s) \in Msg /\ Message("MT_SERVERS", s) \in Msg
  /\ \A kind \in Kinds : /\ Message("read", kind) \in Msg
                         /\ Message("reply", kind) \in Msg
                         /\ Message("MT_NOTIFICATION", kind) \in Msg
  /\ \A m \in Msg : m = Message(m.type, m.arg)
  /\ \A m \in Msg : m.type = "MT_CONNECT" => m.arg \in 0 .. drawn
  /\ \A m \in Msg : m.type = "MT_MASTER" => m.arg \in Servers \cup {0}
  /\ \A m \in Msg : m.type \in {"read", "reply", "MT_NOTIFICATION"} => m.arg \in Kinds
BY DEF Msg, Message

\* The indices of the list of servers.
LEMMA Indices ==
  /\ Cardinality(Servers) \in Nat \ {0} /\ Servers = 1 .. Cardinality(Servers)
  /\ Up \subseteq Servers /\ 0 \notin Servers
<1>1. Cardinality(Servers) \in Nat  BY BoundAssumption, FS_CardinalityType, Zenon
<1> QED BY <1>1, BoundAssumption

\* No session is on the connection: no watch has to be kept.
LEMMA KeptAlone == on' = 0 => Kept'
BY Zenon DEF Kept

\* The client connects.
LEMMA ConnectingStep ==
  Core /\ (OnConnection \/ OnFailue \/ OnDelay) => Core'
<1> SUFFICES ASSUME Core, OnConnection \/ OnFailue \/ OnDelay PROVE Core'
  BY Zenon
<1>1. TypeOK /\ GoodWatches(watches) /\ Set(watches, owed) /\ Phases /\ owed \subseteq Kinds
  BY Zenon DEF Core, TypeOK
<1>2. /\ Quiet /\ on = 0 /\ c2s = <<>> /\ s2c = <<>> /\ shut = FALSE
      /\ on' = 0 /\ UNCHANGED <<reply, s2c, shut, can_send_>>
  BY <1>1, Zenon DEF OnConnection, OnFailue, OnDelay, Phases, object, wires, session, Quiet
<1>3. Kept'  BY <1>2, KeptAlone, Zenon
<1>4. GoodWatches(watches') /\ Set(watches', owed') /\ owed' = {}
  <2>1. CASE OnConnection
    BY <1>1, <1>2, <2>1, StateEffect, Zenon DEF OnConnection, Quiet
  <2>2. CASE OnFailue
    BY <1>1, <1>2, <2>2, StateEffect, Zenon DEF OnFailue, Quiet
  <2>3. CASE OnDelay
    BY <1>1, <1>2, <2>3, Zenon DEF OnDelay, Quiet, watching
  <2> QED BY <2>1, <2>2, <2>3, Zenon
<1>5. Msg' = Msg
  BY Zenon DEF OnConnection, OnFailue, OnDelay, cluster, Msg
<1>6. CASE OnConnection
  <2>1. tcp' = "open" /\ c2s' = <<Message("MT_CONNECT", session_id_)>>
        /\ state_' = "SS_CONNECTING"
    BY <1>6, Zenon DEF OnConnection
  <2>2. Phases'
    BY <1>2, <1>4, <2>1, Zenon DEF Phases, Asking, Quiet
  <2>3. c2s' \in Seq(Msg)
    <3>1. Message("MT_CONNECT", session_id_) \in Msg  BY <1>1, Messages, Zenon DEF TypeOK
    <3> QED BY <2>1, <3>1
  <2>4. TypeOK'
    BY <1>1, <1>2, <1>4, <1>5, <1>6, <2>3, Zenon DEF TypeOK, OnConnection, object, cluster,
       bounds, GoodWatches
  <2> QED BY <1>3, <1>4, <2>2, <2>4, Zenon DEF Core
<1>7. CASE OnFailue
  <2>1. Phases'
    BY <1>2, <1>4, <1>7, Zenon DEF Phases, OnFailue, Quiet, wires
  <2>2. TypeOK'
    BY <1>1, <1>2, <1>4, <1>5, <1>7, Zenon DEF TypeOK, OnFailue, wires, object, cluster,
       GoodWatches
  <2> QED BY <1>3, <1>4, <2>1, <2>2 DEF Core
<1>8. CASE OnDelay
  <2>1. Phases'
    BY <1>2, <1>4, <1>8, Zenon DEF Phases, OnDelay, Quiet, wires
  <2>2. NextIndex + 1 \in 1 .. Cardinality(Servers)
    BY <1>1, Indices DEF NextIndex, TypeOK
  <2>3. servers_[NextIndex + 1] \in Servers
    BY <1>1, <2>2, Indices, Zenon DEF TypeOK, Orders
  <2>4. /\ UNCHANGED <<state_, session_id_, can_send_, master_, servers_, reads, on, home,
                        regs, master, drawn, db, overtaken>>
        /\ tcp' = "connects" /\ next_' = NextIndex + 1
        /\ server' = servers_[NextIndex + 1]
    BY <1>8, Zenon DEF OnDelay, session, object, cluster, watching
  <2>5. next_' \in 0 .. Cardinality(Servers)  BY <2>2, <2>4, Indices
  <2>6. TypeOK'
    BY <1>1, <1>2, <1>4, <1>5, <1>8, <2>3, <2>4, <2>5, Zenon DEF TypeOK, OnDelay, wires,
       GoodWatches
  <2> QED BY <1>3, <1>4, <2>1, <2>6 DEF Core
<1> QED BY <1>6, <1>7, <1>8, Zenon

\* The connection ends.
LEMMA OnCloseStep ==
  ASSUME NEW hint \in Servers \cup {0}, Core, tcp = "open", OnClose(hint)
  PROVE  Core'
<1>1. /\ TypeOK /\ GoodWatches(watches) /\ Set(watches, owed) /\ owed \subseteq Kinds
      /\ state_ # "SS_DISCONNECTED"
  BY Zenon DEF Core, TypeOK, Phases
<1>2. /\ on' = 0 /\ reply' = "none" /\ c2s' = <<>> /\ s2c' = <<>> /\ shut' = FALSE
      /\ can_send_' = FALSE /\ tcp' \in {"waits", "connects"}
  BY Zenon DEF OnClose
<1>3. GoodWatches(watches') /\ Set(watches', owed') /\ owed' = {}
  <2>1. TriggerState(state_ # "SS_DISCONNECTED")  BY Zenon DEF OnClose
  <2>2. TriggerState(TRUE)  BY <1>1, <2>1, Zenon
  <2> QED BY <1>1, <2>2, StateEffect, Zenon
<1>4. Msg' = Msg  BY Zenon DEF OnClose, cluster, Msg
<1>5. Kept'  BY <1>2, KeptAlone, Zenon
<1>6. Phases'  BY <1>2, <1>3, Zenon DEF Phases, Quiet
<1>7. TypeOK'
  <2>1. /\ UNCHANGED <<session_id_, servers_, next_, reads, home, regs, master, drawn, db,
                       overtaken>>
        /\ state_' = "SS_DISCONNECTED" /\ master_' = hint
        /\ server' = IF hint = 0 THEN server ELSE hint
    BY Zenon DEF OnClose, cluster
  <2>2. server' \in Servers /\ master_' \in Servers \cup {0}  BY <1>1, <2>1, Zenon DEF TypeOK
  <2>3. <<>> \in Seq(Msg') /\ 0 \in 0 .. drawn  BY <1>1 DEF TypeOK
  <2> QED BY <1>1, <1>2, <1>3, <2>1, <2>2, <2>3, Zenon DEF TypeOK, GoodWatches
<1> QED BY <1>3, <1>5, <1>6, <1>7, Zenon DEF Core

\* The connection closes, and the client is told.
LEMMA CloseStep == Core /\ Close => Core'
<1> SUFFICES ASSUME Core, Close PROVE Core'
  BY Zenon
<1>1. master_ \in Servers \cup {0}  BY Zenon DEF Core, TypeOK
<1> QED BY <1>1, OnCloseStep, Zenon DEF Close

\* The user reads.
LEMMA ReadStep == ASSUME NEW kind \in Kinds, Core, Read(kind) PROVE Core'
<1>1. TypeOK /\ GoodWatches(watches) /\ Set(watches, owed) /\ Phases /\ Kept
  BY Zenon DEF Core
<1>2. UNCHANGED <<session, choice, s2c, shut, object, cluster, watching>>
  BY Zenon DEF Read
<1>3. Msg' = Msg  BY <1>2, Zenon DEF cluster, Msg
<1>4. GoodWatches(watches') /\ Set(watches', owed')  BY <1>1, <1>2, Zenon DEF watching
<1>5. Kept'  BY <1>1, <1>2, Zenon DEF Kept, Expected, object, watching
<1>6. reads' \in Seq(Kinds)  BY <1>1 DEF Read, TypeOK
<1> DEFINE m == Message("read", kind)
<1>7. /\ m \in Msg /\ m.type # "MT_CONNECT" /\ c2s \in Seq(Msg)
  BY <1>1, Messages, Zenon DEF TypeOK, Message
<1> HIDE DEF m
<1>8. CASE can_send_ = FALSE
  <2>1. c2s' = c2s  BY <1>8, Zenon DEF Read
  <2>2. Phases'
    BY <1>1, <1>2, <2>1, Zenon DEF Phases, Asking, Quiet, session, choice, object, watching
  <2>3. TypeOK'
    BY <1>1, <1>2, <1>3, <1>6, <2>1, Zenon DEF TypeOK, session, choice, object, cluster,
        watching
  <2> QED BY <1>4, <1>5, <2>2, <2>3, Zenon DEF Core
<1>9. CASE can_send_ = TRUE
  <2>1. c2s' = Append(c2s, m)  BY <1>9, Zenon DEF Read, m
  <2>2. c2s' \in Seq(Msg)  BY <1>7, <2>1
  <2>3. tcp = "open" /\ ~(on = 0 /\ shut = FALSE)
    BY <1>1, <1>9, Zenon DEF Phases, Quiet
  <2>4. \A i \in 1 .. Len(c2s') : c2s'[i] = m \/ (i \in 1 .. Len(c2s) /\ c2s'[i] = c2s[i])
    BY <1>7, <2>1
  <2>5. Phases'
    BY <1>1, <1>2, <1>7, <2>3, <2>4, Zenon DEF Phases, session, choice, object, watching
  <2>6. TypeOK'
    BY <1>1, <1>2, <1>3, <1>6, <2>2, Zenon DEF TypeOK, session, choice, object, cluster,
        watching
  <2> QED BY <1>4, <1>5, <2>5, <2>6 DEF Core
<1> QED BY <1>1, <1>8, <1>9, Zenon DEF TypeOK

\* A message is taken from s2c: the watches are kept if the watchers that are
\* owed a call were expected, and a notification leaves none or has overtaken
\* a reply.
LEMMA KeptTail ==
  ASSUME TypeOK, Kept, s2c # <<>>, s2c' = Tail(s2c), UNCHANGED <<on, regs, reply>>,
         overtaken \subseteq overtaken',
         \A kind \in Kinds : kind \in owed' => Expected(kind),
         \A kind \in Kinds : Head(s2c) = Message("MT_NOTIFICATION", kind) =>
           /\ kind \notin owed'
           /\ (reply = kind \/ Has(s2c, Message("reply", kind))) => kind \in overtaken'
  PROVE  Kept'
<1> SUFFICES ASSUME NEW kind \in Kinds, Expected(kind)', on # 0, kind \notin regs,
                    kind \notin overtaken'
             PROVE  Has(s2c', Message("MT_NOTIFICATION", kind))
  BY Zenon DEF Kept
<1>1. \A m : Has(s2c, m) <=> Head(s2c) = m \/ Has(s2c', m)
  BY HasTail, Zenon DEF TypeOK
<1>2. kind \in owed' \/ reply = kind \/ Has(s2c', Message("reply", kind))
  BY Zenon DEF Expected
<1>3. Expected(kind)  BY <1>1, <1>2, Zenon DEF Expected
<1>4. Has(s2c, Message("MT_NOTIFICATION", kind))  BY <1>3, Zenon DEF Kept
<1>5. Head(s2c) # Message("MT_NOTIFICATION", kind)  BY <1>1, <1>2, Zenon
<1> QED BY <1>1, <1>4, <1>5, Zenon

\* The types of the messages tell them apart.
LEMMA Different ==
  \A type, other, a, b : Message(type, a) = Message(other, b) => type = other /\ a = b
BY Zenon DEF Message

\* The rest of the messages.
LEMMA TailPhases ==
  ASSUME TypeOK, Phases, tcp = "open", s2c # <<>>, s2c' = Tail(s2c),
         UNCHANGED <<on, home, server, shut, reply, tcp>>,
         on # 0 \/ shut = TRUE, state_' # "SS_DISCONNECTED",
         \A i \in 1 .. Len(c2s') : \/ c2s'[i].type # "MT_CONNECT"
                                   \/ on = 0
  PROVE  Phases'
<1>1. \A i \in 1 .. Len(s2c') : i + 1 \in 1 .. Len(s2c) /\ s2c'[i] = s2c[i + 1]
  BY HasTail DEF TypeOK
<1>2. on # 0 => \A i \in 1 .. Len(s2c') : s2c'[i] # Message("MT_CONNECT", 0)
  BY <1>1, Zenon DEF Phases
<1> QED BY <1>2, Zenon DEF Phases

\* The answer to a connect.
LEMMA OnConnectStep ==
  ASSUME Core, tcp = "open", s2c # <<>>, Head(s2c).type = "MT_CONNECT",
         OnConnect(Head(s2c).arg), s2c' = Tail(s2c), UNCHANGED <<shut, object, cluster>>
  PROVE  Core'
<1> DEFINE sid == Head(s2c).arg
<1>1. TypeOK /\ GoodWatches(watches) /\ Set(watches, owed) /\ Phases /\ Kept
      /\ owed \subseteq Kinds
  BY Zenon DEF Core, TypeOK
<1>2. /\ s2c' \in Seq(Msg) /\ Head(s2c) \in Msg /\ Len(s2c') = Len(s2c) - 1
      /\ Head(s2c) = s2c[1] /\ Len(s2c) \in Nat \ {0}
  BY <1>1, HasTail, Zenon DEF TypeOK
<1>3. /\ Head(s2c) = Message("MT_CONNECT", sid) /\ sid \in 0 .. drawn
      /\ Message("MT_CONNECT", 0) \in Msg
  <2>1. Head(s2c) = Message(Head(s2c).type, sid) /\ sid \in 0 .. drawn  BY <1>2, Messages, Zenon
  <2>2. 0 \in 0 .. drawn  BY <1>1 DEF TypeOK
  <2> QED BY <2>1, <2>2, Messages, Zenon
<1>4. Msg' = Msg  BY Zenon DEF cluster, Msg
<1> DEFINE again == [i \in DOMAIN reads |-> Message("read", reads[i])]
<1>5. again \in Seq(Msg) /\ \A i \in 1 .. Len(again) : again[i].type = "read"
  <2>1. reads \in Seq(Kinds) /\ DOMAIN reads = 1 .. Len(reads) /\ Len(reads) \in Nat
    BY <1>1 DEF TypeOK
  <2>2. \A i \in 1 .. Len(reads) : Message("read", reads[i]) \in Msg
    BY <2>1, Messages
  <2>3. again \in [1 .. Len(reads) -> Msg]  BY <2>1, <2>2, Zenon
  <2>4. again \in Seq(Msg) /\ Len(again) = Len(reads)  BY <2>1, <2>3
  <2> QED BY <2>1, <2>4, Zenon DEF Message
<1>6. /\ UNCHANGED <<choice, reads, overtaken>> /\ session_id_' = sid
      /\ state_' = IF sid # 0 THEN "SS_CONNECTED" ELSE "SS_CONNECTING"
      /\ TriggerState(sid # 0 \/ Expires(sid))
      /\ c2s' = c2s \o (IF sid # 0 THEN again ELSE <<Message("MT_CONNECT", 0)>>)
  BY Zenon DEF OnConnect
<1>7. can_send_' = (sid # 0 \/ can_send_)  BY Zenon DEF OnConnect
<1>8. can_send_' = (IF sid # 0 THEN TRUE ELSE can_send_) /\ can_send_' \in BOOLEAN
  <2>1. can_send_ \in BOOLEAN  BY <1>1, Zenon DEF TypeOK
  <2> HIDE DEF sid
  <2> QED BY <1>7, <2>1, Zenon
<1>9. /\ GoodWatches(watches') /\ Set(watches', owed') /\ owed' \subseteq owed
      /\ (sid # 0 \/ owed = {}) => owed' = {}
  <2>1. (sid # 0 \/ Expires(sid)) \in BOOLEAN  BY Zenon DEF Expires
  <2> HIDE DEF sid
  <2> QED BY <1>1, <1>6, <2>1, StateEffect, Zenon
<1> HIDE DEF sid, again
<1>10. Kept'
  <2>1. \A kind \in Kinds : Head(s2c) # Message("MT_NOTIFICATION", kind)
    BY <1>3, Different, Zenon
  <2>2. \A kind \in Kinds : kind \in owed' => Expected(kind)  BY <1>9, Zenon DEF Expected
  <2>3. UNCHANGED <<on, regs, reply>>  BY Zenon DEF object
  <2> QED BY <1>1, <1>6, <2>1, <2>2, <2>3, KeptTail, Zenon
<1>11. c2s \in Seq(Msg) /\ <<Message("MT_CONNECT", 0)>> \in Seq(Msg)
  BY <1>1, <1>3 DEF TypeOK
<1>12. c2s' \in Seq(Msg)  BY <1>5, <1>6, <1>11
<1>13. TypeOK'
  <2>1. /\ UNCHANGED <<master_, servers_, next_, tcp, server, reads, on, home, regs,
                       reply, master, drawn, db, overtaken, shut>>
    BY <1>6, Zenon DEF choice, object, cluster
  <2>2. state_' \in {"SS_DISCONNECTED", "SS_CONNECTING", "SS_CONNECTED"}  BY <1>6, Zenon
  <2>3. session_id_' \in 0 .. drawn'  BY <1>3, <1>6, <2>1, Zenon
  <2>4. owed' \subseteq Kinds  BY <1>1, <1>9, Zenon
  <2> QED BY <1>1, <1>2, <1>4, <1>8, <1>9, <1>12, <2>1, <2>2, <2>3, <2>4, Zenon
          DEF TypeOK, GoodWatches
<1>14. Phases'
  <2>1. UNCHANGED <<on, home, server, shut, reply, tcp>> /\ state_' # "SS_DISCONNECTED"
    BY <1>6, Zenon DEF choice, object
  <2>2. CASE on # 0 \/ shut = TRUE
    <3>1. on # 0 => sid # 0
      BY <1>1, <1>2, <1>3 DEF Phases
    <3>2. ASSUME on # 0, NEW i \in 1 .. Len(c2s') PROVE c2s'[i].type # "MT_CONNECT"
      <4>1. c2s' = c2s \o again  BY <1>6, <3>1, <3>2, Zenon
      <4>2. \/ i \in 1 .. Len(c2s) /\ c2s'[i] = c2s[i]
            \/ i - Len(c2s) \in 1 .. Len(again) /\ c2s'[i] = again[i - Len(c2s)]
        BY <1>5, <1>11, <3>2, <4>1
      <4> QED BY <1>1, <1>5, <3>2, <4>2, Zenon DEF Phases
    <3> QED BY <1>1, <2>1, <2>2, <3>2, TailPhases, Zenon
  <2>3. CASE on = 0 /\ shut = FALSE
    <3>1. Asking /\ Quiet  BY <1>1, <2>3, Zenon DEF Phases
    <3>2. c2s = <<>> /\ Len(s2c) = 1 /\ sid = 0
      <4>1. c2s = <<>> /\ Len(s2c) = 1 /\ s2c[1] = Message("MT_CONNECT", 0)
        BY <3>1, Zenon DEF Asking
      <4> QED BY <1>2, <1>3, <4>1, Different, Zenon
    <3>3. s2c' = <<>> /\ Len(c2s') = 1
      BY <1>2, <1>6, <1>11, <3>2
    <3>4. Quiet'  BY <1>8, <1>9, <2>1, <3>1, <3>2, Zenon DEF Quiet
    <3> QED BY <2>1, <2>3, <3>3, <3>4, Zenon DEF Phases, Asking, Quiet
  <2> QED BY <1>1, <2>2, <2>3, Zenon DEF TypeOK
<1> QED BY <1>9, <1>10, <1>13, <1>14, Zenon DEF Core

\* A reply, a notification or a list of servers: a session is on the connection,
\* or it was closed.
LEMMA LaterStep ==
  ASSUME Core, tcp = "open", s2c # <<>>, Head(s2c).type # "MT_CONNECT",
         s2c' = Tail(s2c), UNCHANGED <<shut, object, cluster, session, c2s>>,
         UNCHANGED <<tcp, server, master_>>,
         servers_' \in Orders, next_' \in 0 .. Cardinality(Servers),
         reads' \in Seq(Kinds), GoodWatches(watches'), owed' \subseteq Kinds,
         overtaken' \subseteq Kinds, Set(watches', owed'), Kept'
  PROVE  Core'
<1>1. TypeOK /\ Phases  BY Zenon DEF Core
<1>2. s2c' \in Seq(Msg) /\ Head(s2c) = s2c[1]  BY <1>1, HasTail, Zenon DEF TypeOK
<1>3. Msg' = Msg  BY Zenon DEF cluster, Msg
<1>4. TypeOK'
  BY <1>1, <1>2, <1>3, Zenon DEF TypeOK, session, object, cluster, GoodWatches
<1>5. on # 0 \/ shut = TRUE
  <2>1. s2c[1] # Message("MT_CONNECT", 0)  BY <1>2 DEF Message
  <2>2. ~Asking  BY <2>1, Zenon DEF Asking
  <2> QED BY <1>1, <2>2, Zenon DEF Phases, TypeOK
<1>6. UNCHANGED <<on, home, server, shut, reply, tcp>> /\ state_' # "SS_DISCONNECTED"
  BY <1>1, Zenon DEF object, session, Phases
<1>7. \A i \in 1 .. Len(c2s') : c2s'[i].type # "MT_CONNECT" \/ on = 0
  BY <1>1, Zenon DEF Phases
<1>8. Phases'  BY <1>1, <1>5, <1>6, <1>7, TailPhases, Zenon
<1> QED BY <1>4, <1>8, Zenon DEF Core

\* A reply to a read comes, and the read is there.
LEMMA OnReplyStep ==
  ASSUME Core, tcp = "open", s2c # <<>>, Head(s2c).type = "reply",
         OnReply(Head(s2c).arg), s2c' = Tail(s2c), UNCHANGED <<shut, object, cluster>>,
         reads # <<>>
  PROVE  Core'
<1> DEFINE k == Head(s2c).arg
<1>1. TypeOK /\ GoodWatches(watches) /\ Set(watches, owed) /\ Kept /\ owed \subseteq Kinds
  BY Zenon DEF Core, TypeOK
<1>2. Head(s2c) \in Msg /\ \A m : Has(s2c, m) <=> Head(s2c) = m \/ Has(Tail(s2c), m)
  BY <1>1, HasTail, Zenon DEF TypeOK
<1>3. k \in Kinds /\ Head(s2c) = Message("reply", k)  BY <1>2, Messages, Zenon
<1>4. /\ watches' = AddWatcher(watches, k, "path", k) /\ owed' = owed \cup {k}
      /\ UNCHANGED <<session, choice, c2s, overtaken>> /\ reads' = Tail(reads)
  BY Zenon DEF OnReply
<1> HIDE DEF k
<1>5. GoodWatches(watches') /\ Set(watches', owed') /\ owed' \subseteq Kinds
  BY <1>1, <1>3, <1>4, AddEffect, Zenon
<1>6. Kept'
  <2>1. \A kind \in Kinds : kind \in owed' => Expected(kind)
    BY <1>2, <1>3, <1>4, Zenon DEF Expected
  <2>2. \A kind \in Kinds : Head(s2c) # Message("MT_NOTIFICATION", kind)
    BY <1>3, Different, Zenon
  <2>3. UNCHANGED <<on, regs, reply>>  BY Zenon DEF object
  <2> QED BY <1>1, <1>4, <2>1, <2>2, <2>3, KeptTail, Zenon
<1>7. reads' \in Seq(Kinds)  BY <1>1, <1>4 DEF TypeOK
<1>8. /\ UNCHANGED <<tcp, server, master_>> /\ servers_' \in Orders
      /\ next_' \in 0 .. Cardinality(Servers) /\ overtaken' \subseteq Kinds
  BY <1>1, <1>4, Zenon DEF TypeOK, choice
<1> QED BY <1>4, <1>5, <1>6, <1>7, <1>8, LaterStep, Zenon

\* A notification comes.
LEMMA OnNotificationStep ==
  ASSUME Core, tcp = "open", s2c # <<>>, Head(s2c).type = "MT_NOTIFICATION",
         OnNotification(Head(s2c).arg), s2c' = Tail(s2c),
         UNCHANGED <<shut, object, cluster>>
  PROVE  Core'
<1> DEFINE k == Head(s2c).arg
<1>1. TypeOK /\ GoodWatches(watches) /\ Set(watches, owed) /\ Kept /\ owed \subseteq Kinds
  BY Zenon DEF Core, TypeOK
<1>2. Head(s2c) \in Msg  BY <1>1, HasTail, Zenon DEF TypeOK
<1>3. k \in Kinds /\ Head(s2c) = Message("MT_NOTIFICATION", k)  BY <1>2, Messages, Zenon
<1>4. /\ TriggerWatcher([type |-> IF k = "data" THEN "ET_NODE_DATA_CHANGED"
                                  ELSE "ET_NODE_CHILDREN_CHANGED", path |-> "path"])
      /\ overtaken' = IF reply = k \/ \E i \in DOMAIN s2c : s2c[i] = Message("reply", k)
                      THEN overtaken \cup {k} ELSE overtaken
      /\ UNCHANGED <<session, choice, reads, c2s>>
  BY Zenon DEF OnNotification
<1> HIDE DEF k
<1>5. GoodWatches(watches') /\ Set(watches', owed') /\ owed' \subseteq owed /\ k \notin owed'
  BY <1>1, <1>3, <1>4, NodeEffect, Zenon
<1>6. DOMAIN s2c = 1 .. Len(s2c)  BY <1>1 DEF TypeOK
<1>7. Kept'
  <2>1. \A kind \in Kinds : kind \in owed' => Expected(kind)  BY <1>5, Zenon DEF Expected
  <2>2. ASSUME NEW kind \in Kinds, Head(s2c) = Message("MT_NOTIFICATION", kind)
        PROVE  /\ kind \notin owed'
               /\ (reply = kind \/ Has(s2c, Message("reply", kind))) => kind \in overtaken'
    <3>1. kind = k  BY <1>3, <2>2, Different
    <3> QED BY <1>4, <1>5, <1>6, <3>1, Zenon DEF Has
  <2>3. UNCHANGED <<on, regs, reply>> /\ overtaken \subseteq overtaken'
    BY <1>4, Zenon DEF object
  <2> QED BY <1>1, <2>1, <2>2, <2>3, KeptTail, Zenon
<1>8. owed' \subseteq Kinds /\ overtaken' \subseteq Kinds /\ reads' \in Seq(Kinds)
  BY <1>1, <1>3, <1>4, <1>5, Zenon DEF TypeOK
<1>9. /\ UNCHANGED <<tcp, server, master_>> /\ servers_' \in Orders
      /\ next_' \in 0 .. Cardinality(Servers)
  BY <1>1, <1>4, Zenon DEF TypeOK, choice
<1>10. Head(s2c).type # "MT_CONNECT"  BY Zenon
<1> QED BY <1>4, <1>5, <1>7, <1>8, <1>9, <1>10, LaterStep, Zenon

\* A new list of the servers comes.
LEMMA UpdateServersStep ==
  ASSUME Core, tcp = "open", s2c # <<>>, Head(s2c).type = "MT_SERVERS",
         UpdateServers, s2c' = Tail(s2c), UNCHANGED <<shut, object, cluster>>
  PROVE  Core'
<1>1. TypeOK /\ GoodWatches(watches) /\ Set(watches, owed) /\ Kept /\ owed \subseteq Kinds
  BY Zenon DEF Core, TypeOK
<1>2. /\ UNCHANGED <<session, master_, tcp, server, reads, c2s, watching>>
      /\ servers_' \in Orders /\ next_' = 0
  BY Zenon DEF UpdateServers
<1>3. Kept'
  <2>1. \A kind \in Kinds : Head(s2c) # Message("MT_NOTIFICATION", kind)
    BY DEF Message
  <2>2. \A kind \in Kinds : kind \in owed' => Expected(kind)  BY <1>2, Zenon DEF Expected,
      watching
  <2>3. UNCHANGED <<on, regs, reply, overtaken>>  BY <1>2, Zenon DEF object, watching
  <2> QED BY <1>1, <2>1, <2>2, <2>3, KeptTail, Zenon
<1>4. /\ next_' \in 0 .. Cardinality(Servers) /\ overtaken' \subseteq Kinds
      /\ reads' \in Seq(Kinds) /\ GoodWatches(watches') /\ Set(watches', owed')
      /\ owed' \subseteq Kinds
  <2>1. 0 \in 0 .. Cardinality(Servers)  BY Indices
  <2> QED BY <1>1, <1>2, <2>1, Zenon DEF TypeOK, watching
<1> QED BY <1>2, <1>3, <1>4, LaterStep, Zenon
-----------------------------------------------------------------------------
\* The replies and the reads that are under way, as places in reads.

\* The messages of that type in s have places after lo and up to hi, in order.
Places(s, type, lo, hi, h) ==
  /\ h \in [1 .. Len(s) -> Nat]
  /\ \A i \in 1 .. Len(s) : s[i].type = type => lo < h[i] /\ h[i] <= hi
  /\ \A i, j \in 1 .. Len(s) :
       i < j /\ s[i].type = type /\ s[j].type = type => h[i] < h[j]
Placed(s, type, lo, hi) == \E h : Places(s, type, lo, hi, h)

\* The place after the read that the server is about to answer.
After(a) == IF reply = "none" THEN a ELSE a + 1

\* The first answer to a connect comes before everything else, and the replies
\* under way, the reply about to be sent and the reads under way are, in this
\* order, for reads of outgoing_queue_.
Flow ==
  /\ \A i \in 2 .. Len(s2c) : s2c[i].type # "MT_CONNECT"
  /\ can_send_ = TRUE /\ s2c # <<>> => s2c[1].type # "MT_CONNECT"
  /\ can_send_ = FALSE => \A i \in 1 .. Len(s2c) : s2c[i].type # "reply"
  /\ can_send_ = FALSE /\ on # 0 => c2s = <<>> /\ reply = "none"
  /\ \E a \in 0 .. Len(reads) :
       /\ Placed(s2c, "reply", 0, a)
       /\ on # 0 => /\ After(a) \in 0 .. Len(reads)
                    /\ Placed(c2s, "read", After(a), Len(reads))

\* No message of the type.
LEMMA PlacedNone ==
  ASSUME NEW S, NEW s \in Seq(S), NEW type, NEW lo \in Nat, NEW hi \in Nat,
         \A i \in 1 .. Len(s) : s[i].type # type
  PROVE  Placed(s, type, lo, hi)
<1>1. Places(s, type, lo, hi, [i \in 1 .. Len(s) |-> 0])  BY Zenon DEF Places
<1> QED BY <1>1, Zenon DEF Placed

\* Each message has its own index.
LEMMA PlacedAll ==
  ASSUME NEW S, NEW s \in Seq(S), NEW type
  PROVE  Placed(s, type, 0, Len(s))
<1>1. Places(s, type, 0, Len(s), [i \in 1 .. Len(s) |-> i])  BY DEF Places
<1> QED BY <1>1, Zenon DEF Placed

\* More room.
LEMMA PlacedWider ==
  ASSUME NEW s, NEW type, NEW lo \in Nat, NEW hi \in Nat, NEW more \in Nat, hi <= more,
         Placed(s, type, lo, hi)
  PROVE  Placed(s, type, lo, more)
<1>1. PICK h : Places(s, type, lo, hi, h)  BY Zenon DEF Placed
<1>2. Places(s, type, lo, more, h)  BY <1>1 DEF Places
<1> QED BY <1>2, Zenon DEF Placed

\* One place less before it.
LEMMA PlacedShift ==
  ASSUME NEW s, NEW type, NEW lo \in Nat, NEW hi \in Nat, lo # 0,
         Placed(s, type, lo, hi)
  PROVE  Placed(s, type, lo - 1, hi - 1)
<1>1. PICK h : Places(s, type, lo, hi, h)  BY Zenon DEF Placed
<1> DEFINE g == [i \in 1 .. Len(s) |-> IF s[i].type = type THEN h[i] - 1 ELSE 0]
<1>2. Places(s, type, lo - 1, hi - 1, g)
  <2>1. \A i \in 1 .. Len(s) : h[i] \in Nat  BY <1>1, Zenon DEF Places
  <2>2. ASSUME NEW i \in 1 .. Len(s) PROVE g[i] \in Nat
    BY <1>1, <2>1 DEF Places
  <2>3. \A i \in 1 .. Len(s) : s[i].type = type => g[i] = h[i] - 1  BY Zenon
  <2>4. g \in [1 .. Len(s) -> Nat]  BY <2>2, Zenon
  <2> HIDE DEF g
  <2> QED BY <1>1, <2>1, <2>3, <2>4 DEF Places
<1> QED BY <1>2, Zenon DEF Placed

\* The indices of a sequence with one more element.
LEMMA OneMore ==
  ASSUME NEW n \in Nat
  PROVE  /\ n + 1 \in 1 .. n + 1
         /\ \A i \in 1 .. n : i \in 1 .. n + 1 /\ i # n + 1
         /\ \A i \in 1 .. n + 1 : i = n + 1 \/ i \in 1 .. n
OBVIOUS

\* A message more, which takes the next place if it is of the type.
LEMMA PlacedAppend ==
  ASSUME NEW S, NEW s \in Seq(S), NEW x \in S, NEW type, NEW lo \in Nat, NEW hi \in Nat,
         lo <= hi, Placed(s, type, lo, hi)
  PROVE  /\ Placed(Append(s, x), type, lo, hi + 1)
         /\ x.type # type => Placed(Append(s, x), type, lo, hi)
<1>1. PICK h : Places(s, type, lo, hi, h)  BY Zenon DEF Placed
<1> DEFINE t == Append(s, x)
           g == [i \in 1 .. Len(s) + 1 |-> IF i = Len(s) + 1 THEN hi + 1 ELSE h[i]]
<1>2. /\ Len(t) = Len(s) + 1 /\ Len(s) \in Nat
      /\ \A i \in 1 .. Len(s) + 1 : t[i] = IF i = Len(s) + 1 THEN x ELSE s[i]
  OBVIOUS
<1>3. /\ g \in [1 .. Len(s) + 1 -> Nat] /\ g[Len(s) + 1] = hi + 1
      /\ \A i \in 1 .. Len(s) : g[i] = h[i] /\ h[i] \in Nat
  <2>1. \A i \in 1 .. Len(s) : h[i] \in Nat  BY <1>1, Zenon DEF Places
  <2>2. /\ Len(s) + 1 \in 1 .. Len(s) + 1
        /\ \A i \in 1 .. Len(s) : i \in 1 .. Len(s) + 1 /\ i # Len(s) + 1
        /\ \A i \in 1 .. Len(s) + 1 : i = Len(s) + 1 \/ i \in 1 .. Len(s)
    BY <1>2, OneMore, Zenon
  <2>3. hi + 1 \in Nat  OBVIOUS
  <2> QED BY <2>1, <2>2, <2>3, Zenon
<1> HIDE DEF t, g
<1>4. ASSUME NEW i \in 1 .. Len(t)
      PROVE  \/ i \in 1 .. Len(s) /\ t[i] = s[i] /\ g[i] = h[i] /\ h[i] \in Nat
             \/ i = Len(s) + 1 /\ t[i] = x /\ g[i] = hi + 1
  <2>1. CASE i = Len(s) + 1  BY <1>2, <1>3, <2>1, Zenon
  <2>2. CASE i # Len(s) + 1
    <3>1. i \in 1 .. Len(s)  BY <1>2, <2>2
    <3> QED BY <1>2, <1>3, <2>2, <3>1, Zenon
  <2> QED BY <2>1, <2>2, Zenon
<1>5. \A i \in 1 .. Len(s) : s[i].type = type => lo < h[i] /\ h[i] <= hi
  BY <1>1, Zenon DEF Places
<1>6. ASSUME NEW i \in 1 .. Len(t), t[i].type = type
      PROVE  lo < g[i] /\ g[i] <= hi + 1 /\ (x.type # type => g[i] <= hi)
  <2>1. CASE i \in 1 .. Len(s) /\ t[i] = s[i] /\ g[i] = h[i] /\ h[i] \in Nat
    <3>1. lo < h[i] /\ h[i] <= hi  BY <1>5, <1>6, <2>1, Zenon
    <3> QED BY <2>1, <3>1
  <2>2. CASE i = Len(s) + 1 /\ t[i] = x /\ g[i] = hi + 1
    BY <1>6, <2>2
  <2> QED BY <1>4, <2>1, <2>2, Zenon
<1>7. ASSUME NEW i \in 1 .. Len(t), NEW j \in 1 .. Len(t), i < j,
             t[i].type = type, t[j].type = type
      PROVE  g[i] < g[j]
  <2>1. i \in 1 .. Len(s) /\ t[i] = s[i] /\ g[i] = h[i] /\ h[i] \in Nat
    BY <1>2, <1>4, <1>7
  <2>2. CASE j \in 1 .. Len(s) /\ t[j] = s[j] /\ g[j] = h[j] /\ h[j] \in Nat
    BY <1>1, <1>7, <2>1, <2>2, Zenon DEF Places
  <2>3. CASE j = Len(s) + 1 /\ g[j] = hi + 1
    <3>1. h[i] <= hi  BY <1>5, <1>7, <2>1, Zenon
    <3> QED BY <2>1, <2>3, <3>1
  <2> QED BY <1>4, <2>2, <2>3, Zenon
<1>8. Places(t, type, lo, hi + 1, g)
  BY <1>2, <1>3, <1>6, <1>7, Zenon DEF Places
<1>9. ASSUME x.type # type PROVE Places(t, type, lo, hi, g)
  <2>1. g \in [1 .. Len(t) -> Nat]  BY <1>2, <1>3, Zenon
  <2> QED BY <1>6, <1>7, <1>9, <2>1, Zenon DEF Places
<1> QED BY <1>8, <1>9, Zenon DEF Placed, t

\* The first message is taken, with its place if it is of the type.
LEMMA PlacedTail ==
  ASSUME NEW S, NEW s \in Seq(S), s # <<>>, NEW type, NEW lo \in Nat, NEW hi \in Nat,
         Placed(s, type, lo, hi)
  PROVE  /\ Head(s).type # type => Placed(Tail(s), type, lo, hi)
         /\ Head(s).type = type => lo < hi /\ Placed(Tail(s), type, lo + 1, hi)
<1>1. PICK h : Places(s, type, lo, hi, h)  BY Zenon DEF Placed
<1> DEFINE t == Tail(s)
           g == [i \in 1 .. Len(s) - 1 |-> h[i + 1]]
<1>2. /\ Len(t) = Len(s) - 1 /\ Len(s) \in Nat \ {0} /\ Head(s) = s[1]
      /\ \A i \in 1 .. Len(s) - 1 : i + 1 \in 1 .. Len(s) /\ t[i] = s[i + 1]
  BY HasTail, Zenon
<1>3. /\ g \in [1 .. Len(s) - 1 -> Nat]
      /\ \A i \in 1 .. Len(s) - 1 : g[i] = h[i + 1]
      /\ \A i \in 1 .. Len(s) : h[i] \in Nat
  BY <1>1, <1>2, Zenon DEF Places
<1> HIDE DEF t, g
<1>4. Places(t, type, lo, hi, g)
  <2>1. \A i \in 1 .. Len(t) : t[i].type = type => lo < g[i] /\ g[i] <= hi
    BY <1>1, <1>2, <1>3, Zenon DEF Places
  <2>2. ASSUME NEW i \in 1 .. Len(t), NEW j \in 1 .. Len(t), i < j,
               t[i].type = type, t[j].type = type
        PROVE  g[i] < g[j]
    <3>1. i + 1 \in 1 .. Len(s) /\ j + 1 \in 1 .. Len(s) /\ i + 1 < j + 1
      BY <1>2, <2>2
    <3>2. t[i] = s[i + 1] /\ t[j] = s[j + 1] /\ g[i] = h[i + 1] /\ g[j] = h[j + 1]
      BY <1>2, <1>3, Zenon
    <3>3. h[i + 1] < h[j + 1]  BY <1>1, <2>2, <3>1, <3>2, Zenon DEF Places
    <3> QED BY <3>2, <3>3, Zenon
  <2>3. g \in [1 .. Len(t) -> Nat]  BY <1>2, <1>3, Zenon
  <2> QED BY <2>1, <2>2, <2>3, Zenon DEF Places
<1>5. ASSUME Head(s).type = type PROVE lo < hi /\ Places(t, type, lo + 1, hi, g)
  <2>1. 1 \in 1 .. Len(s) /\ lo < h[1] /\ h[1] <= hi /\ h[1] \in Nat
    BY <1>1, <1>2, <1>3, <1>5 DEF Places
  <2>2. \A i \in 1 .. Len(s) : 1 < i /\ s[i].type = type => h[1] < h[i]
    BY <1>1, <1>2, <1>5, <2>1, Zenon DEF Places
  <2>3. ASSUME NEW i \in 1 .. Len(t), t[i].type = type PROVE lo + 1 < g[i]
    <3>1. /\ i + 1 \in 1 .. Len(s) /\ 1 < i + 1 /\ t[i] = s[i + 1] /\ g[i] = h[i + 1]
          /\ h[i + 1] \in Nat
      BY <1>2, <1>3
    <3>2. h[1] < h[i + 1]  BY <2>2, <2>3, <3>1, Zenon
    <3> QED BY <2>1, <3>1, <3>2
  <2> QED BY <1>4, <2>1, <2>3 DEF Places
<1> QED BY <1>4, <1>5, Zenon DEF Placed, t
-----------------------------------------------------------------------------
\* The steps of the servers.

\* The watches stay, or are set, or their notifications are sent.
LEMMA KeptMore ==
  ASSUME Kept, on' = on, \A m : Has(s2c, m) => Has(s2c', m),
         \A kind \in Kinds : Expected(kind)' => Expected(kind) \/ kind \in regs',
         \A kind \in Kinds : kind \in regs =>
           kind \in regs' \/ on = 0 \/ Has(s2c', Message("MT_NOTIFICATION", kind)),
         \A kind \in Kinds : kind \in overtaken => kind \in overtaken' \/ kind \in regs'
  PROVE  Kept'
<1> SUFFICES ASSUME NEW kind \in Kinds, Expected(kind)', on # 0, kind \notin regs'
             PROVE  \/ kind \in overtaken'
                    \/ Has(s2c', Message("MT_NOTIFICATION", kind))
  BY Zenon DEF Kept
<1>1. \/ kind \in regs \/ kind \in overtaken
      \/ Has(s2c, Message("MT_NOTIFICATION", kind))
  BY Zenon DEF Kept
<1> QED BY <1>1, Zenon

\* A message to the client on a connection that has a session.
LEMMA AnswerPhases ==
  ASSUME TypeOK, Phases, NEW x \in Msg, x # Message("MT_CONNECT", 0), on # 0,
         s2c' = Append(s2c, x),
         UNCHANGED <<on, home, server, shut, tcp, state_, c2s>>
  PROVE  Phases' /\ s2c' \in Seq(Msg)
<1>1. /\ s2c' \in Seq(Msg)
      /\ \A i \in 1 .. Len(s2c') : s2c'[i] = x \/ (i \in 1 .. Len(s2c) /\ s2c'[i] = s2c[i])
  BY DEF TypeOK
<1>2. tcp = "open" /\ shut = FALSE  BY Zenon DEF Phases
<1>3. \A i \in 1 .. Len(s2c') : s2c'[i] # Message("MT_CONNECT", 0)
  BY <1>1, Zenon DEF Phases
<1> QED BY <1>1, <1>2, <1>3, Zenon DEF Phases

\* The server reads and registers the watch.
LEMMA ServerReadStep == Core /\ ServerRead => Core'
<1> SUFFICES ASSUME Core, ServerRead PROVE Core'
  OBVIOUS
<1> DEFINE k == Head(c2s).arg
<1>1. TypeOK /\ GoodWatches(watches) /\ Set(watches, owed) /\ Phases /\ Kept
  BY Zenon DEF Core
<1>2. c2s # <<>> /\ Head(c2s).type = "read" /\ on # 0 /\ tcp = "open" /\ shut = FALSE
  BY <1>1, Zenon DEF ServerRead, Asked, TypeOK
<1>3. /\ c2s' \in Seq(Msg) /\ Head(c2s) \in Msg
      /\ \A i \in 1 .. Len(c2s') : i + 1 \in 1 .. Len(c2s) /\ c2s'[i] = c2s[i + 1]
  BY <1>1, <1>2, HasTail DEF ServerRead, TypeOK
<1>4. k \in Kinds  BY <1>2, <1>3, Messages, Zenon
<1>5. /\ reply' = k /\ regs' = regs \cup {k} /\ overtaken' = overtaken \ {k}
      /\ UNCHANGED <<session, choice, reads, s2c, shut, on, home, cluster, watches, owed>>
  BY Zenon DEF ServerRead
<1> HIDE DEF k
<1>6. Kept'
  <2>1. \A kind \in Kinds : Expected(kind)' => Expected(kind) \/ kind \in regs'
    BY <1>5, Zenon DEF Expected
  <2> QED BY <1>1, <1>5, <2>1, KeptMore, Zenon
<1>7. Phases'
  <2>1. \A i \in 1 .. Len(c2s') : c2s'[i].type # "MT_CONNECT"
    BY <1>1, <1>2, <1>3, Zenon DEF Phases
  <2> QED BY <1>1, <1>2, <1>5, <2>1, Zenon DEF Phases, session, choice
<1>8. TypeOK'
  <2>1. Msg' = Msg  BY <1>5, Zenon DEF Msg, cluster
  <2> QED BY <1>1, <1>3, <1>4, <1>5, <2>1, Zenon DEF TypeOK, session, choice, cluster
<1> QED BY <1>1, <1>5, <1>6, <1>7, <1>8, Zenon DEF Core

\* The server sends the reply to what it has read.
LEMMA ServerReplyStep == Core /\ ServerReply => Core'
<1> SUFFICES ASSUME Core, ServerReply PROVE Core'
  OBVIOUS
<1> DEFINE x == Message("reply", reply)
<1>1. TypeOK /\ GoodWatches(watches) /\ Set(watches, owed) /\ Phases /\ Kept
  BY DEF Core
<1>2. /\ reply # "none" /\ reply' = "none" /\ s2c' = Append(s2c, x)
      /\ UNCHANGED <<session, choice, reads, c2s, shut, on, home, regs, cluster, watching>>
  BY Zenon DEF ServerReply, Answer
<1>3. on # 0 /\ reply \in Kinds  BY <1>1, <1>2, Zenon DEF Phases, TypeOK
<1>4. x \in Msg /\ x # Message("MT_CONNECT", 0)
  BY <1>3, Messages, Different
<1> HIDE DEF x
<1>5. Phases' /\ s2c' \in Seq(Msg)
  BY <1>1, <1>2, <1>3, <1>4, AnswerPhases, Zenon DEF session, choice
<1>6. \A m : Has(s2c', m) <=> Has(s2c, m) \/ x = m
  BY <1>1, <1>2, <1>4, HasAppend, Zenon DEF TypeOK
<1>7. Kept'
  <2>1. ASSUME NEW kind \in Kinds, Expected(kind)' PROVE Expected(kind)
    <3>1. x = Message("reply", kind) => reply = kind  BY Different, Zenon DEF x
    <3> QED BY <1>2, <1>6, <2>1, <3>1, Zenon DEF Expected, watching, Kinds
  <2> QED BY <1>1, <1>2, <1>6, <2>1, KeptMore, Zenon DEF watching
<1>8. TypeOK'
  <2>1. Msg' = Msg  BY <1>2, Zenon DEF Msg, cluster
  <2> QED BY <1>1, <1>2, <1>5, <2>1, Zenon DEF TypeOK, session, choice, cluster, watching
<1> QED BY <1>1, <1>2, <1>5, <1>7, <1>8, Zenon DEF Core, watching

\* A node changes, and the watchers are told.
LEMMA ChangeStep == ASSUME NEW k \in Kinds, Core, Change(k) PROVE Core'
<1> DEFINE x == Message("MT_NOTIFICATION", k)
<1>1. TypeOK /\ GoodWatches(watches) /\ Set(watches, owed) /\ Phases /\ Kept
  BY DEF Core
<1>2. /\ regs' = regs \ {k}
      /\ UNCHANGED <<session, choice, reads, c2s, shut, on, reply, home, cluster, watching>>
  BY Zenon DEF Change
<1>3. Msg' = Msg  BY <1>2, Zenon DEF Msg, cluster
<1>4. x \in Msg /\ x # Message("MT_CONNECT", 0)
  BY Messages, Different
<1>5. CASE on = 0
  <2>1. s2c' = s2c  BY <1>5, Zenon DEF Change
  <2>2. Kept'  BY <1>2, <1>5, KeptAlone, Zenon
  <2>3. Phases'
    BY <1>1, <1>2, <1>5, <2>1, Zenon DEF Phases, Asking, Quiet, session, choice, watching
  <2>4. TypeOK'
    BY <1>1, <1>2, <1>3, <2>1, Zenon DEF TypeOK, session, choice, cluster, watching
  <2> QED BY <1>1, <1>2, <2>2, <2>3, <2>4, Zenon DEF Core, watching
<1>6. CASE on # 0
  <2>1. shut = FALSE  BY <1>1, <1>6, Zenon DEF Phases
  <2>2. s2c' = Append(s2c, x)  BY <1>6, <2>1, Zenon DEF Change, Answer
  <2> HIDE DEF x
  <2>3. Phases' /\ s2c' \in Seq(Msg)
    BY <1>1, <1>2, <1>4, <1>6, <2>2, AnswerPhases, Zenon DEF session, choice
  <2>4. \A m : Has(s2c', m) <=> Has(s2c, m) \/ x = m
    BY <1>1, <1>4, <2>2, HasAppend, Zenon DEF TypeOK
  <2>5. Kept'
    <3>1. \A kind \in Kinds : x # Message("reply", kind)  BY Different, Zenon DEF x
    <3>2. ASSUME NEW kind \in Kinds, Expected(kind)' PROVE Expected(kind)
      BY <1>2, <2>4, <3>1, <3>2, Zenon DEF Expected, watching
    <3>3. ASSUME NEW kind \in Kinds, kind \in regs
          PROVE  kind \in regs' \/ Has(s2c', Message("MT_NOTIFICATION", kind))
      BY <1>2, <2>4, <3>3, Zenon DEF x
    <3> QED BY <1>1, <1>2, <2>4, <3>2, <3>3, KeptMore, Zenon DEF watching
  <2>6. TypeOK'
    BY <1>1, <1>2, <1>3, <2>3, Zenon DEF TypeOK, session, choice, cluster, watching
  <2> QED BY <1>1, <1>2, <2>3, <2>5, <2>6, Zenon DEF Core, watching
<1> QED BY <1>5, <1>6, Zenon

\* A new list of servers is sent.
LEMMA NewServersStep == Core /\ NewServers => Core'
<1> SUFFICES ASSUME Core, NewServers PROVE Core'
  OBVIOUS
<1> DEFINE x == Message("MT_SERVERS", 0)
<1>1. TypeOK /\ GoodWatches(watches) /\ Set(watches, owed) /\ Phases /\ Kept
  BY DEF Core
<1>2. /\ on # 0 /\ s2c' = Append(s2c, x)
      /\ UNCHANGED <<session, choice, reads, c2s, shut, object, cluster, watching>>
  BY Zenon DEF NewServers, Answer
<1>3. x \in Msg /\ x # Message("MT_CONNECT", 0)
      /\ \A kind \in Kinds : x # Message("reply", kind)
  BY Messages, Different
<1> HIDE DEF x
<1>4. Phases' /\ s2c' \in Seq(Msg)
  BY <1>1, <1>2, <1>3, AnswerPhases, Zenon DEF session, choice, object
<1>5. \A m : Has(s2c', m) <=> Has(s2c, m) \/ x = m
  BY <1>1, <1>2, <1>3, HasAppend DEF TypeOK
<1>6. Kept'
  <2>1. ASSUME NEW kind \in Kinds, Expected(kind)' PROVE Expected(kind)
    BY <1>2, <1>3, <1>5, <2>1, Zenon DEF Expected, watching, object
  <2> QED BY <1>1, <1>2, <1>5, <2>1, KeptMore, Zenon DEF watching, object
<1>7. TypeOK'
  <2>1. Msg' = Msg  BY <1>2, Zenon DEF Msg, cluster
  <2> QED BY <1>1, <1>2, <1>4, <2>1, Zenon DEF TypeOK, session, choice, object, cluster,
      watching
<1> QED BY <1>1, <1>2, <1>4, <1>6, <1>7, Zenon DEF Core, watching

\* A server notices, learns, or becomes the master.
LEMMA ElsewhereStep ==
  ASSUME Core, Notices \/ Learn \/ \E s \in Up : MasterMoves(s)
  PROVE  Core'
<1>1. TypeOK /\ GoodWatches(watches) /\ Set(watches, owed) /\ Phases /\ Kept
  BY Zenon DEF Core
<1>2. /\ UNCHANGED <<session, choice, reads, wires, on, reply, home, regs, db, drawn,
                     watching>>
      /\ master' \in Up
  <2>1. CASE Notices  BY <1>1, <2>1, Zenon DEF Notices, cluster, TypeOK
  <2>2. CASE Learn  BY <1>1, <2>2, Zenon DEF Learn, object, TypeOK
  <2>3. CASE \E s \in Up : MasterMoves(s)  BY <2>3, Zenon DEF MasterMoves, object
  <2> QED BY <2>1, <2>2, <2>3, Zenon
<1>3. Kept'  BY <1>1, <1>2, Zenon DEF Kept, Expected, wires, watching
<1>4. Phases'
  BY <1>1, <1>2, Zenon DEF Phases, Asking, Quiet, session, choice, wires, watching
<1>5. TypeOK'
  <2>1. Msg' = Msg  BY <1>2, Zenon DEF Msg
  <2> QED BY <1>1, <1>2, <2>1, Zenon DEF TypeOK, session, choice, wires, watching
<1> QED BY <1>1, <1>2, <1>3, <1>4, <1>5, Zenon DEF Core, watching

\* A session that is on no connection ends: it is not the one on this one.
LEMMA ExpireStep == ASSUME Core, NEW sid \in db, Expire(sid) PROVE Core'
<1>1. TypeOK /\ GoodWatches(watches) /\ Set(watches, owed) /\ Phases /\ Kept
  BY Zenon DEF Core
<1>2. /\ UNCHANGED <<session, choice, reads, wires, on, reply, master, drawn, watching>>
      /\ db' = db \ {sid} /\ sid # on
      /\ \/ home[2] = sid /\ home' = Nobody /\ regs' = {}
         \/ home' = home /\ regs' = regs
  BY Zenon DEF Expire
<1>3. on # 0 => home' = home /\ regs' = regs
  <2>1. on # 0 => home = <<server, on>>  BY <1>1, Zenon DEF Phases
  <2> QED BY <1>2, <2>1
<1>4. Kept'
  <2>1. CASE on = 0  BY <1>2, <2>1, KeptAlone, Zenon
  <2>2. CASE on # 0  BY <1>1, <1>2, <1>3, <2>2, Zenon DEF Kept, Expected, wires, watching
  <2> QED BY <2>1, <2>2, Zenon
<1>5. Phases'
  BY <1>1, <1>2, <1>3, Zenon DEF Phases, Asking, Quiet, session, choice, wires, watching
<1>6. TypeOK'
  <2>1. Msg' = Msg  BY <1>2, Zenon DEF Msg
  <2>2. home' \in (Servers \cup {0}) \X (0 .. drawn) /\ regs' \subseteq Kinds
    <3>1. 0 \in 0 .. drawn  BY <1>1 DEF TypeOK
    <3> QED BY <1>1, <1>2, <3>1 DEF TypeOK, Nobody
  <2> QED BY <1>1, <1>2, <2>1, <2>2, Zenon DEF TypeOK, session, choice, wires, watching
<1> QED BY <1>1, <1>2, <1>4, <1>5, <1>6, Zenon DEF Core, watching

\* What a server that is not the master answers.
LEMMA Hints ==
  ASSUME TypeOK, AnswerMaster
  PROVE  \E hint \in Servers \cup {0} : s2c' = Append(s2c, Message("MT_MASTER", hint))
<1>1. master \in Servers \cup {0}  BY Indices, Zenon DEF TypeOK
<1> QED BY <1>1, Zenon DEF AnswerMaster, Answer

\* A server that is not the master any more ends its sessions.
LEMMA CleanSessionsStep == Core /\ CleanSessions => Core'
<1> SUFFICES ASSUME Core, CleanSessions PROVE Core'
  OBVIOUS
<1>1. TypeOK /\ GoodWatches(watches) /\ Set(watches, owed) /\ Phases
  BY Zenon DEF Core
<1>2. /\ UNCHANGED <<session, choice, reads, c2s, cluster, watching>>
      /\ on' = 0 /\ reply' = "none" /\ home' = Nobody /\ regs' = {}
  BY Zenon DEF CleanSessions
<1>3. Kept'  BY <1>2, KeptAlone, Zenon
<1>4. s2c' \in Seq(Msg) /\ shut' \in BOOLEAN /\ Phases'
  <2>1. CASE on = 0
    <3>1. UNCHANGED <<s2c, shut>>  BY <2>1, Zenon DEF CleanSessions
    <3>2. Phases'
      BY <1>1, <1>2, <2>1, <3>1, Zenon DEF Phases, Asking, Quiet, session, choice, watching
    <3> QED BY <1>1, <3>1, <3>2, Zenon DEF TypeOK
  <2>2. CASE on # 0
    <3>1. AnswerMaster /\ shut' = TRUE  BY <2>2, Zenon DEF CleanSessions
    <3>2. PICK hint \in Servers \cup {0} : s2c' = Append(s2c, Message("MT_MASTER", hint))
      BY <1>1, <3>1, Hints, Zenon
    <3>3. Message("MT_MASTER", hint) \in Msg  BY Messages, Zenon
    <3>4. tcp = "open"  BY <1>1, <2>2, Zenon DEF Phases
    <3>5. Phases'  BY <1>1, <1>2, <3>1, <3>4, Zenon DEF Phases, session, choice
    <3> QED BY <1>1, <3>1, <3>2, <3>3, <3>5 DEF TypeOK
  <2> QED BY <2>1, <2>2, Zenon
<1>5. TypeOK'
  <2>1. Msg' = Msg  BY <1>2, Zenon DEF Msg, cluster
  <2>2. home' \in (Servers \cup {0}) \X (0 .. drawn)  BY <1>1, <1>2 DEF TypeOK, Nobody
  <2>3. on' \in 0 .. drawn  BY <1>1, <1>2 DEF TypeOK
  <2> QED BY <1>1, <1>2, <1>4, <2>1, <2>2, <2>3, Zenon DEF TypeOK, session, choice,
      cluster, watching
<1> QED BY <1>1, <1>2, <1>3, <1>4, <1>5, Zenon DEF Core, watching

\* A connect: no session is on the connection and nothing else is under way.
LEMMA Connects ==
  ASSUME TypeOK, Phases, ServerConnect
  PROVE  /\ tcp = "open" /\ on = 0 /\ shut = FALSE /\ Quiet /\ s2c = <<>> /\ c2s' = <<>>
         /\ Head(c2s).arg \in 0 .. drawn
<1>1. tcp = "open" /\ shut = FALSE /\ c2s # <<>> /\ Head(c2s).type = "MT_CONNECT"
      /\ c2s' = Tail(c2s)
  BY Zenon DEF ServerConnect, Asked, TypeOK
<1>2. Head(c2s) = c2s[1] /\ Head(c2s) \in Msg /\ Len(c2s) \in Nat \ {0}
      /\ Tail(c2s) \in Seq(Msg) /\ Len(Tail(c2s)) = Len(c2s) - 1
  BY <1>1, HasTail, Zenon DEF TypeOK
<1>3. on = 0  BY <1>1, <1>2 DEF Phases
<1>4. Asking /\ Quiet  BY <1>1, <1>3, Zenon DEF Phases
<1>5. Len(c2s) = 1 /\ s2c = <<>>  BY <1>1, <1>4, Zenon DEF Asking
<1>6. c2s' = <<>>  BY <1>1, <1>2, <1>5
<1> QED BY <1>1, <1>2, <1>3, <1>4, <1>5, <1>6, Messages, Zenon

\* What is answered, and the session that is on the connection then.
AnswerIs(type, arg) ==
  /\ type \in {"MT_MASTER", "MT_CONNECT"} /\ s2c' = <<Message(type, arg)>>
  /\ \/ /\ UNCHANGED <<on, home, regs, db, drawn>> /\ Message(type, arg) \in Msg
        /\ shut' = TRUE \/ (shut' = FALSE /\ type = "MT_CONNECT" /\ arg = 0)
     \/ /\ shut' = FALSE /\ type = "MT_CONNECT" /\ on' = arg /\ arg # 0
        /\ home' = <<server, arg>> /\ regs' \subseteq Kinds
        /\ drawn' \in Nat /\ arg \in 1 .. drawn' /\ drawn <= drawn'
        /\ db' \subseteq 1 .. drawn'

\* Every handling of a connect request answers so.
LEMMA Answered ==
  ASSUME TypeOK, Phases, ServerConnect
  PROVE  \E type, arg : AnswerIs(type, arg)
<1>1. on = 0 /\ shut = FALSE /\ s2c = <<>> /\ Head(c2s).arg \in 0 .. drawn
  BY Connects, Zenon
<1>2. \A m : Append(s2c, m) = <<m>>  BY <1>1
<1>3. Message("MT_CONNECT", 0) \in Msg
  <2>1. 0 \in 0 .. drawn  BY DEF TypeOK
  <2> QED BY <2>1, Messages, Zenon
<1> DEFINE sid == Head(c2s).arg
           known == sid \in db
           id == IF known THEN sid ELSE drawn + 1
           held == sid # 0 /\ home = <<server, sid>> /\ lingers
<1>4. CASE /\ AnswerMaster /\ shut' = TRUE /\ UNCHANGED <<on, home, regs, db, drawn>>
  <2>1. PICK hint \in Servers \cup {0} : s2c' = Append(s2c, Message("MT_MASTER", hint))
    BY <1>4, Hints, Zenon
  <2>2. Message("MT_MASTER", hint) \in Msg  BY Messages, Zenon
  <2> QED BY <1>2, <1>4, <2>1, <2>2, Zenon DEF AnswerIs
<1>5. CASE /\ Answer(Message("MT_CONNECT", 0)) /\ UNCHANGED <<on, home, regs, db, drawn>>
           /\ shut' = TRUE \/ shut' = shut
  <2>1. s2c' = <<Message("MT_CONNECT", 0)>>  BY <1>2, <1>5, Zenon DEF Answer
  <2> QED BY <1>1, <1>3, <1>5, <2>1, Zenon DEF AnswerIs
<1>6. CASE /\ Answer(Message("MT_CONNECT", id)) /\ on' = id /\ home' = <<server, id>>
           /\ regs' = (IF home = home' THEN regs ELSE {}) /\ db' = db \cup {id}
           /\ drawn' = (IF known THEN drawn ELSE id) /\ shut' = shut
  <2>1. db \subseteq 1 .. drawn /\ drawn \in Nat /\ regs \subseteq Kinds  BY Zenon DEF TypeOK
  <2>2. /\ id # 0 /\ drawn' \in Nat /\ id \in 1 .. drawn' /\ drawn <= drawn'
        /\ db' \subseteq 1 .. drawn'
    <3>1. CASE known
      <4>1. id = sid /\ drawn' = drawn /\ sid \in db /\ db' = db \cup {sid}
        BY <1>6, <3>1, Zenon
      <4> HIDE DEF id, sid
      <4> QED BY <2>1, <4>1
    <3>2. CASE ~known
      <4>1. id = drawn + 1 /\ drawn' = drawn + 1 /\ db' = db \cup {drawn + 1}
        BY <1>6, <3>2, Zenon
      <4> HIDE DEF id
      <4> QED BY <2>1, <4>1
    <3> QED BY <3>1, <3>2, Zenon
  <2>3. s2c' = <<Message("MT_CONNECT", id)>> /\ shut' = FALSE
    BY <1>1, <1>2, <1>6, Zenon DEF Answer
  <2>4. regs' \subseteq Kinds  BY <1>6, <2>1, Zenon
  <2> HIDE DEF id
  <2> QED BY <1>6, <2>2, <2>3, <2>4, Zenon DEF AnswerIs
<1> QED BY <1>4, <1>5, <1>6, Zenon DEF ServerConnect

\* The server answers a connect.
LEMMA ServerConnectStep == Core /\ ServerConnect => Core'
<1> SUFFICES ASSUME Core, ServerConnect PROVE Core'
  OBVIOUS
<1>1. TypeOK /\ GoodWatches(watches) /\ Set(watches, owed) /\ Phases
  BY DEF Core
<1>2. tcp = "open" /\ on = 0 /\ shut = FALSE /\ Quiet /\ s2c = <<>> /\ c2s' = <<>>
  BY <1>1, Connects, Zenon
<1>3. UNCHANGED <<session, choice, reads, reply, master, watching>>
  BY Zenon DEF ServerConnect
<1>0. PICK type, arg : AnswerIs(type, arg)
  BY <1>1, Answered, Zenon
<1>4. /\ type \in {"MT_MASTER", "MT_CONNECT"} /\ s2c' = <<Message(type, arg)>>
      /\ \/ /\ UNCHANGED <<on, home, regs, db, drawn>> /\ Message(type, arg) \in Msg
            /\ shut' = TRUE \/ (shut' = FALSE /\ type = "MT_CONNECT" /\ arg = 0)
         \/ /\ shut' = FALSE /\ type = "MT_CONNECT" /\ on' = arg /\ arg # 0
            /\ home' = <<server, arg>> /\ regs' \subseteq Kinds
            /\ drawn' \in Nat /\ arg \in 1 .. drawn' /\ drawn <= drawn'
            /\ db' \subseteq 1 .. drawn'
  BY <1>0, Zenon DEF AnswerIs
<1> DEFINE x == Message(type, arg)
<1>5. s2c' = <<x>> /\ Len(s2c') = 1 /\ s2c'[1] = x  BY <1>4, Zenon
<1>6. Kept'
  <2>1. ASSUME NEW kind \in Kinds PROVE ~Expected(kind)'
    <3>1. x # Message("reply", kind)
      <4>1. type # "reply"  BY <1>4, Zenon
      <4> QED BY <4>1, Different, Zenon
    <3>2. ~Has(s2c', Message("reply", kind))  BY <1>5, <3>1 DEF Has
    <3>3. kind \notin owed' /\ reply' # kind  BY <1>2, <1>3, Zenon DEF Quiet, watching, Kinds
    <3> QED BY <3>2, <3>3, Zenon DEF Expected
  <2> QED BY <2>1, Zenon DEF Kept
<1>7. tcp' = "open" /\ state_' # "SS_DISCONNECTED" /\ server' = server /\ reply' = "none"
      /\ Quiet'
  BY <1>1, <1>2, <1>3, Zenon DEF Phases, Quiet, session, choice, watching
<1>8. Phases' /\ x \in Msg' /\ TypeOK'
  <2>1. ASSUME shut' \in BOOLEAN, home' \in (Servers \cup {0}) \X (0 .. drawn'),
               regs' \subseteq Kinds, drawn' \in Nat, drawn <= drawn',
               db' \subseteq 1 .. drawn', on' \in 0 .. drawn', x \in Msg'
        PROVE  TypeOK'
    <3>1. c2s' \in Seq(Msg') /\ s2c' \in Seq(Msg')  BY <1>2, <1>5, <2>1
    <3>2. session_id_' \in 0 .. drawn'  BY <1>1, <1>3, <2>1 DEF TypeOK, session
    <3> HIDE DEF x
    <3> QED BY <1>1, <1>3, <2>1, <3>1, <3>2, Zenon DEF TypeOK, session, choice, watching
  <2>2. CASE /\ UNCHANGED <<on, home, regs, db, drawn>> /\ x \in Msg
             /\ shut' = TRUE \/ (shut' = FALSE /\ type = "MT_CONNECT" /\ arg = 0)
    <3>1. Msg' = Msg  BY <2>2, Zenon DEF Msg
    <3>2. TypeOK'
      <4>1. /\ home \in (Servers \cup {0}) \X (0 .. drawn) /\ regs \subseteq Kinds
            /\ drawn \in Nat /\ db \subseteq 1 .. drawn /\ on \in 0 .. drawn
        BY <1>1, Zenon DEF TypeOK
      <4>2. x \in Msg' /\ shut' \in BOOLEAN  BY <2>2, <3>1, Zenon
      <4>3. /\ home' \in (Servers \cup {0}) \X (0 .. drawn') /\ regs' \subseteq Kinds
            /\ drawn' \in Nat /\ drawn <= drawn' /\ db' \subseteq 1 .. drawn'
            /\ on' \in 0 .. drawn'
        BY <2>2, <4>1
      <4> QED BY <2>1, <4>2, <4>3, Zenon
    <3>3. Phases'
      <4>1. shut' = FALSE => Asking'  BY <1>2, <1>5, <2>2, Zenon DEF Asking
      <4> QED BY <1>2, <1>7, <2>2, <4>1, Zenon DEF Phases
    <3> QED BY <2>2, <3>1, <3>2, <3>3, Zenon
  <2>3. CASE /\ shut' = FALSE /\ type = "MT_CONNECT" /\ on' = arg /\ arg # 0
             /\ home' = <<server, arg>> /\ regs' \subseteq Kinds
             /\ drawn' \in Nat /\ arg \in 1 .. drawn' /\ drawn <= drawn'
             /\ db' \subseteq 1 .. drawn'
    <3>1. x \in Msg'  BY <2>3 DEF Msg, Message
    <3>2. x # Message("MT_CONNECT", 0)  BY <2>3, Different, Zenon
    <3>3. home' \in (Servers \cup {0}) \X (0 .. drawn') /\ on' \in 0 .. drawn'
      BY <1>1, <2>3 DEF TypeOK
    <3>4. TypeOK'  BY <2>1, <2>3, <3>1, <3>3, Zenon
    <3>5. Phases'  BY <1>2, <1>5, <1>7, <2>3, <3>2 DEF Phases
    <3> QED BY <3>1, <3>4, <3>5, Zenon
  <2> QED BY <1>4, <2>2, <2>3, Zenon
<1>9. GoodWatches(watches') /\ Set(watches', owed')  BY <1>1, <1>3, Zenon DEF watching
<1> QED BY <1>6, <1>8, <1>9, Zenon DEF Core
-----------------------------------------------------------------------------
\* The order of what is under way.

\* The places, for a number a of reads before the one that is being answered.
FlowAt(a) ==
  /\ Placed(s2c, "reply", 0, a)
  /\ on # 0 => /\ After(a) \in 0 .. Len(reads)
               /\ Placed(c2s, "read", After(a), Len(reads))

\* Flow, with the number of reads before the one that is being answered.
LEMMA FlowParts ==
  Flow <=> /\ \A i \in 2 .. Len(s2c) : s2c[i].type # "MT_CONNECT"
           /\ can_send_ = TRUE /\ s2c # <<>> => s2c[1].type # "MT_CONNECT"
           /\ can_send_ = FALSE => \A i \in 1 .. Len(s2c) : s2c[i].type # "reply"
           /\ can_send_ = FALSE /\ on # 0 => c2s = <<>> /\ reply = "none"
           /\ \E a \in 0 .. Len(reads) : FlowAt(a)
BY Zenon DEF Flow, FlowAt

\* The connection is new or gone.
LEMMA FlowEmpty ==
  ASSUME s2c' = <<>>, on' = 0, reads' \in Seq(Kinds)
  PROVE  Flow'
<1>1. Placed(<<>>, "reply", 0, 0)  BY PlacedAll, <<>> \in Seq(Msg), Len(<<>>) = 0, Zenon
<1>2. 0 \in 0 .. Len(reads') /\ Len(s2c') = 0  OBVIOUS
<1> QED BY <1>1, <1>2 DEF Flow

\* Nothing that is under way changes.
LEMMA FlowSame ==
  ASSUME Flow, UNCHANGED <<s2c, c2s, reads, can_send_>>,
         on' = 0 \/ UNCHANGED <<on, reply>>
  PROVE  Flow'
<1>1. CASE on' = 0  BY <1>1, Zenon DEF Flow
<1>2. CASE UNCHANGED <<on, reply>>  BY <1>2, Zenon DEF Flow, After
<1> QED BY <1>1, <1>2, Zenon

\* A message that is no answer is sent to the client.
LEMMA FlowAppend ==
  ASSUME TypeOK, Flow, NEW x \in Msg, x.type \notin {"MT_CONNECT", "reply"},
         s2c' = Append(s2c, x), UNCHANGED <<c2s, reads, can_send_>>,
         on' = 0 \/ UNCHANGED <<on, reply>>
  PROVE  Flow'
<1>1. /\ Len(s2c') = Len(s2c) + 1 /\ s2c \in Seq(Msg) /\ Len(s2c) \in Nat
      /\ \A i \in 1 .. Len(s2c) + 1 : s2c'[i] = IF i = Len(s2c) + 1 THEN x ELSE s2c[i]
  BY HasAppend DEF TypeOK
<1>2. \A i \in 2 .. Len(s2c') : s2c'[i].type # "MT_CONNECT"
  BY <1>1 DEF Flow
<1>3. can_send_ = TRUE => s2c'[1].type # "MT_CONNECT"
  <2>1. CASE s2c = <<>>  BY <1>1, <2>1
  <2>2. CASE s2c # <<>>
    <3>1. 1 \in 1 .. Len(s2c) + 1 /\ 1 # Len(s2c) + 1  BY <1>1, <2>2
    <3> QED BY <1>1, <2>2, <3>1, Zenon DEF Flow
  <2> QED BY <2>1, <2>2, Zenon
<1>4. can_send_ = FALSE => \A i \in 1 .. Len(s2c') : s2c'[i].type # "reply"
  BY <1>1 DEF Flow
<1>5. PICK a \in 0 .. Len(reads) : FlowAt(a)  BY FlowParts, Zenon
<1>6. Len(reads) \in Nat /\ a \in Nat  BY DEF TypeOK
<1>7. Placed(s2c', "reply", 0, a)
  BY <1>1, <1>5, <1>6, PlacedAppend DEF FlowAt
<1>8. CASE on' = 0  BY <1>2, <1>3, <1>4, <1>7, <1>8, Zenon DEF Flow
<1>9. CASE UNCHANGED <<on, reply>>
  BY <1>2, <1>3, <1>4, <1>5, <1>7, <1>9, Zenon DEF Flow, FlowAt, After
<1> QED BY <1>8, <1>9, Zenon

\* The client takes a message that is no answer.
LEMMA FlowTail ==
  ASSUME TypeOK, Flow, s2c # <<>>, Head(s2c).type # "reply",
         s2c' = Tail(s2c), UNCHANGED <<c2s, reads, can_send_, on, reply>>
  PROVE  Flow'
<1>1. /\ Len(s2c') = Len(s2c) - 1 /\ s2c \in Seq(Msg) /\ Len(s2c) \in Nat \ {0}
      /\ \A i \in 1 .. Len(s2c') : i + 1 \in 1 .. Len(s2c) /\ s2c'[i] = s2c[i + 1]
  BY HasTail DEF TypeOK
<1>2. \A i \in 1 .. Len(s2c') : s2c'[i].type # "MT_CONNECT"
  BY <1>1 DEF Flow
<1>3. can_send_ = FALSE => \A i \in 1 .. Len(s2c') : s2c'[i].type # "reply"
  BY <1>1, Zenon DEF Flow
<1>4. s2c' # <<>> => s2c'[1].type # "MT_CONNECT"
  <2>1. s2c' \in Seq(Msg)  BY HasTail, Zenon DEF TypeOK
  <2>2. s2c' # <<>> => 1 \in 1 .. Len(s2c')  BY <2>1
  <2> QED BY <1>2, <2>2, Zenon
<1>5. PICK a \in 0 .. Len(reads) : FlowAt(a)  BY FlowParts, Zenon
<1>6. Len(reads) \in Nat /\ a \in Nat  BY DEF TypeOK
<1>7. Placed(s2c', "reply", 0, a)
  BY <1>1, <1>5, <1>6, PlacedTail, Zenon DEF FlowAt
<1>8. \A i \in 2 .. Len(s2c') : s2c'[i].type # "MT_CONNECT"
  BY <1>1, <1>2
<1> QED BY <1>3, <1>4, <1>5, <1>7, <1>8, Zenon DEF Flow, FlowAt, After

\* The user reads.
LEMMA FlowRead == ASSUME TypeOK, Flow, NEW kind \in Kinds, Read(kind) PROVE Flow'
<1>1. /\ UNCHANGED <<s2c, on, reply, can_send_>> /\ reads' = Append(reads, kind)
      /\ c2s' = IF can_send_ THEN Append(c2s, Message("read", kind)) ELSE c2s
  BY Zenon DEF Read, object, session
<1>2. Len(reads') = Len(reads) + 1 /\ Len(reads) \in Nat  BY <1>1 DEF TypeOK
<1>3. PICK a \in 0 .. Len(reads) : FlowAt(a)  BY FlowParts, Zenon
<1>4. FlowAt(a)'
  <2>1. Placed(s2c', "reply", 0, a)  BY <1>1, <1>3, Zenon DEF FlowAt
  <2>2. ASSUME on # 0
        PROVE  /\ After(a) \in 0 .. Len(reads')
               /\ Placed(c2s', "read", After(a), Len(reads'))
    <3>1. /\ After(a) \in 0 .. Len(reads) /\ Placed(c2s, "read", After(a), Len(reads))
      BY <1>3, <2>2, Zenon DEF FlowAt
    <3>2. After(a) \in Nat /\ After(a) <= Len(reads) /\ After(a) \in 0 .. Len(reads')
      BY <1>2, <3>1
    <3>3. CASE can_send_ = FALSE
      <4>1. c2s' = c2s  BY <1>1, <3>3, Zenon
      <4>2. Placed(c2s, "read", After(a), Len(reads) + 1)
        BY <1>2, <3>1, <3>2, PlacedWider
      <4> QED BY <1>2, <3>2, <4>1, <4>2, Zenon
    <3>4. CASE can_send_ = TRUE
      <4>1. c2s' = Append(c2s, Message("read", kind))  BY <1>1, <3>4, Zenon
      <4>2. Message("read", kind) \in Msg /\ c2s \in Seq(Msg)  BY Messages, Zenon DEF TypeOK
      <4>3. Placed(c2s', "read", After(a), Len(reads) + 1)
        BY <1>2, <3>1, <3>2, <4>1, <4>2, PlacedAppend, Zenon
      <4> QED BY <1>2, <3>2, <4>3, Zenon
    <3> QED BY <3>3, <3>4, Zenon DEF TypeOK
  <2>3. After(a)' = After(a)  BY <1>1, Zenon DEF After
  <2> QED BY <1>1, <2>1, <2>2, <2>3, Zenon DEF FlowAt
<1>5. a \in 0 .. Len(reads')  BY <1>2
<1>6. can_send_ = FALSE => c2s' = c2s  BY <1>1, Zenon
<1> QED BY <1>1, <1>4, <1>5, <1>6, Zenon DEF Flow, FlowAt

\* The answer to a connect: after it everything in outgoing_queue_ is sent.
LEMMA FlowConnect ==
  ASSUME TypeOK, Phases, Flow, tcp = "open", s2c # <<>>, Head(s2c).type = "MT_CONNECT",
         OnConnect(Head(s2c).arg), s2c' = Tail(s2c), UNCHANGED object
  PROVE  Flow'
<1> DEFINE sid == Head(s2c).arg
           again == [i \in DOMAIN reads |-> Message("read", reads[i])]
<1>1. /\ Len(s2c') = Len(s2c) - 1 /\ s2c \in Seq(Msg) /\ Len(s2c) \in Nat \ {0}
      /\ Head(s2c) = s2c[1] /\ Head(s2c) \in Msg /\ s2c' \in Seq(Msg)
      /\ \A i \in 1 .. Len(s2c') : i + 1 \in 1 .. Len(s2c) /\ s2c'[i] = s2c[i + 1]
  BY HasTail DEF TypeOK
<1>2. can_send_ = FALSE  BY <1>1, Zenon DEF Flow, TypeOK
<1>3. \A i \in 1 .. Len(s2c') : s2c'[i].type # "MT_CONNECT" /\ s2c'[i].type # "reply"
  <2>1. \A i \in 1 .. Len(s2c') : s2c'[i].type # "MT_CONNECT"
    BY <1>1 DEF Flow
  <2>2. \A i \in 1 .. Len(s2c') : s2c'[i].type # "reply"
    BY <1>1, <1>2, Zenon DEF Flow
  <2> QED BY <2>1, <2>2, Zenon
<1>4. s2c' # <<>> => 1 \in 1 .. Len(s2c')  BY <1>1
<1>5. /\ UNCHANGED <<reads, on, reply>>
      /\ c2s' = c2s \o (IF sid # 0 THEN again ELSE <<Message("MT_CONNECT", 0)>>)
  BY Zenon DEF OnConnect, object
<1>6. /\ reads \in Seq(Kinds) /\ Len(reads) \in Nat /\ 0 \in 0 .. Len(reads)
  BY DEF TypeOK
<1>7. again \in Seq(Msg) /\ Len(again) = Len(reads)
  <2>1. DOMAIN reads = 1 .. Len(reads)  BY <1>6
  <2>2. \A i \in 1 .. Len(reads) : Message("read", reads[i]) \in Msg
    BY <1>6, Messages
  <2>3. again \in [1 .. Len(reads) -> Msg]  BY <2>1, <2>2, Zenon
  <2> QED BY <1>6, <2>1, <2>3
<1>8. on # 0 => sid # 0 /\ c2s = <<>> /\ reply = "none"
  <2>1. Head(s2c) = Message("MT_CONNECT", sid)  BY <1>1, Messages, Zenon
  <2>2. on # 0 => sid # 0  BY <1>1, <2>1 DEF Phases
  <2> QED BY <1>2, <2>2, Zenon DEF Flow
<1>9. can_send_' = (sid # 0 \/ can_send_)  BY Zenon DEF OnConnect
<1>10. can_send_' = FALSE => on = 0  BY <1>8, <1>9, Zenon
<1> HIDE DEF sid, again
<1>11. Placed(s2c', "reply", 0, 0)  BY <1>1, <1>3, PlacedNone, Zenon
<1>12. on # 0 => Placed(c2s', "read", 0, Len(reads))
  <2>1. on # 0 => c2s' = again  BY <1>5, <1>7, <1>8
  <2> QED BY <1>7, <2>1, PlacedAll, Zenon
<1>13. FlowAt(0)'
  <2>1. on # 0 => After(0)' = 0  BY <1>5, <1>8, Zenon DEF After
  <2> QED BY <1>5, <1>6, <1>11, <1>12, <2>1, Zenon DEF FlowAt
<1>14. \A i \in 2 .. Len(s2c') : s2c'[i].type # "MT_CONNECT"  BY <1>1, <1>3
<1> QED BY <1>3, <1>4, <1>5, <1>6, <1>10, <1>13, <1>14, Zenon DEF Flow, FlowAt

\* A reply is for the first read of outgoing_queue_.
LEMMA FlowReply ==
  ASSUME TypeOK, Flow, s2c # <<>>, Head(s2c).type = "reply",
         OnReply(Head(s2c).arg), s2c' = Tail(s2c), UNCHANGED object
  PROVE  reads # <<>> /\ Flow'
<1>1. /\ Len(s2c') = Len(s2c) - 1 /\ s2c \in Seq(Msg) /\ Len(s2c) \in Nat \ {0}
      /\ Head(s2c) = s2c[1] /\ s2c' \in Seq(Msg)
      /\ \A i \in 1 .. Len(s2c') : i + 1 \in 1 .. Len(s2c) /\ s2c'[i] = s2c[i + 1]
  BY HasTail DEF TypeOK
<1>2. can_send_ = TRUE  BY <1>1 DEF Flow, TypeOK
<1>3. UNCHANGED <<c2s, can_send_, on, reply>> /\ reads' = Tail(reads)
  BY Zenon DEF OnReply, session, object
<1>4. PICK a \in 0 .. Len(reads) : FlowAt(a)  BY FlowParts, Zenon
<1>5. Len(reads) \in Nat /\ a \in Nat /\ reads \in Seq(Kinds)  BY DEF TypeOK
<1>6. 0 < a /\ Placed(s2c', "reply", 1, a)
  BY <1>1, <1>4, <1>5, PlacedTail DEF FlowAt
<1>7. reads # <<>> /\ Len(reads') = Len(reads) - 1 /\ a - 1 \in 0 .. Len(reads')
  BY <1>3, <1>5, <1>6
<1>8. Placed(s2c', "reply", 0, a - 1)  BY <1>5, <1>6, PlacedShift
<1>9. ASSUME on # 0
      PROVE  /\ After(a - 1)' \in 0 .. Len(reads')
             /\ Placed(c2s', "read", After(a - 1)', Len(reads'))
  <2>1. After(a) \in 0 .. Len(reads) /\ Placed(c2s, "read", After(a), Len(reads))
    BY <1>4, <1>9, Zenon DEF FlowAt
  <2>2. After(a - 1)' = After(a) - 1 /\ After(a) \in Nat /\ After(a) # 0
    BY <1>3, <1>5, <1>6 DEF After
  <2>3. Placed(c2s, "read", After(a) - 1, Len(reads) - 1)
    BY <1>5, <2>1, <2>2, PlacedShift, Zenon
  <2> QED BY <1>3, <1>5, <1>7, <2>1, <2>2, <2>3
<1>10. FlowAt(a - 1)'  BY <1>3, <1>8, <1>9, Zenon DEF FlowAt
<1>11. \A i \in 1 .. Len(s2c') : s2c'[i].type # "MT_CONNECT"
  BY <1>1 DEF Flow
<1>12. s2c' # <<>> => 1 \in 1 .. Len(s2c')  BY <1>1
<1>13. \A i \in 2 .. Len(s2c') : s2c'[i].type # "MT_CONNECT"  BY <1>1, <1>11
<1> QED BY <1>2, <1>3, <1>7, <1>10, <1>11, <1>12, <1>13, Zenon DEF Flow, FlowAt

\* An answer to a connect is the first message of its connection.
LEMMA FlowServerConnect ==
  ASSUME TypeOK, Phases, ServerConnect
  PROVE  Flow'
<1>1. Quiet /\ c2s' = <<>>  BY Connects, Zenon
<1>0. PICK type, arg : AnswerIs(type, arg)  BY Answered, Zenon
<1>2. type \in {"MT_MASTER", "MT_CONNECT"} /\ s2c' = <<Message(type, arg)>>
  BY <1>0, Zenon DEF AnswerIs
<1>3. UNCHANGED <<can_send_, reads, reply>>  BY Zenon DEF ServerConnect, session
<1>4. /\ Len(s2c') = 1 /\ s2c'[1].type # "reply" /\ s2c' \in Seq({Message(type, arg)})
      /\ <<>> \in Seq(Msg) /\ Len(<<>>) = 0
  BY <1>2 DEF Message
<1>5. Len(reads') \in Nat /\ 0 \in 0 .. Len(reads')  BY <1>3 DEF TypeOK
<1>6. \A i \in 1 .. Len(s2c') : s2c'[i].type # "reply"  BY <1>4
<1>7. Placed(s2c', "reply", 0, 0)  BY <1>4, <1>6, PlacedNone, Zenon
<1>8. Placed(<<>>, "read", 0, Len(reads'))
  <2>1. Placed(<<>>, "read", 0, 0)  BY <1>4, PlacedAll, Zenon
  <2> QED BY <1>5, <2>1, PlacedWider
<1>9. After(0)' = 0  BY <1>1, <1>3, Zenon DEF After, Quiet
<1>10. FlowAt(0)'  BY <1>1, <1>5, <1>7, <1>8, <1>9, Zenon DEF FlowAt
<1>11. can_send_' = FALSE /\ reply' = "none"  BY <1>1, <1>3, Zenon DEF Quiet
<1>12. \A i \in 2 .. Len(s2c') : s2c'[i].type # "MT_CONNECT"  BY <1>4
<1> QED BY <1>1, <1>5, <1>6, <1>10, <1>11, <1>12, Zenon DEF Flow, FlowAt

\* The server takes the read that is next, and then replies to it.
LEMMA FlowServerRead == ASSUME TypeOK, Flow, ServerRead PROVE Flow'
<1>1. /\ c2s # <<>> /\ Head(c2s).type = "read" /\ on # 0 /\ reply = "none"
      /\ c2s' = Tail(c2s) /\ reply' = Head(c2s).arg
      /\ UNCHANGED <<s2c, reads, on, can_send_>>
  BY Zenon DEF ServerRead, Asked, session
<1>2. can_send_ = TRUE  BY <1>1, Zenon DEF Flow, TypeOK
<1>3. Head(c2s) \in Msg /\ c2s \in Seq(Msg)  BY <1>1, HasTail, Zenon DEF TypeOK
<1>4. reply' # "none"
  <2>1. reply' \in Kinds  BY <1>1, <1>3, Messages, Zenon
  <2> QED BY <2>1, Zenon DEF Kinds
<1>5. PICK a \in 0 .. Len(reads) : FlowAt(a)  BY FlowParts, Zenon
<1>6. Len(reads) \in Nat /\ a \in Nat  BY DEF TypeOK
<1>7. After(a) = a /\ After(a)' = a + 1  BY <1>1, <1>4, Zenon DEF After
<1>8. Placed(c2s, "read", a, Len(reads)) /\ Placed(s2c, "reply", 0, a)
  BY <1>1, <1>5, <1>7, Zenon DEF FlowAt
<1>9. a < Len(reads) /\ Placed(c2s', "read", a + 1, Len(reads))
  BY <1>1, <1>3, <1>6, <1>8, PlacedTail, Zenon
<1>10. a + 1 \in 0 .. Len(reads)  BY <1>6, <1>9
<1>11. FlowAt(a)'  BY <1>1, <1>7, <1>8, <1>9, <1>10, Zenon DEF FlowAt
<1> QED BY <1>1, <1>2, <1>11, Zenon DEF Flow, FlowAt

\* A reply follows those that are under way.
LEMMA FlowServerReply == ASSUME TypeOK, Phases, Flow, ServerReply PROVE Flow'
<1> DEFINE x == Message("reply", reply)
<1>1. /\ reply # "none" /\ reply' = "none" /\ s2c' = Append(s2c, x)
      /\ UNCHANGED <<c2s, reads, on, can_send_>>
  BY Zenon DEF ServerReply, Answer, session
<1>2. on # 0 /\ reply \in Kinds /\ can_send_ = TRUE
  BY <1>1, Zenon DEF Phases, Flow, TypeOK
<1>3. x \in Msg /\ x.type = "reply"  BY <1>2, Messages, Zenon DEF Message
<1> HIDE DEF x
<1>4. /\ Len(s2c') = Len(s2c) + 1 /\ s2c \in Seq(Msg) /\ Len(s2c) \in Nat
      /\ \A i \in 1 .. Len(s2c) + 1 : s2c'[i] = IF i = Len(s2c) + 1 THEN x ELSE s2c[i]
  BY <1>1, <1>3, HasAppend, SMTT(30) DEF TypeOK
<1>5. \A i \in 2 .. Len(s2c') : s2c'[i].type # "MT_CONNECT"
  BY <1>3, <1>4 DEF Flow
<1>6. s2c'[1].type # "MT_CONNECT"
  <2>1. CASE s2c = <<>>  BY <1>3, <1>4, <2>1
  <2>2. CASE s2c # <<>>
    <3>1. 1 \in 1 .. Len(s2c) + 1 /\ 1 # Len(s2c) + 1  BY <1>4, <2>2
    <3> QED BY <1>2, <1>4, <2>2, <3>1, Zenon DEF Flow
  <2> QED BY <2>1, <2>2, Zenon
<1>7. PICK a \in 0 .. Len(reads) : FlowAt(a)  BY FlowParts, Zenon
<1>8. Len(reads) \in Nat /\ a \in Nat  BY DEF TypeOK
<1>9. After(a) = a + 1 /\ After(a + 1)' = a + 1  BY <1>1, Zenon DEF After
<1>10. Placed(s2c', "reply", 0, a + 1)
  BY <1>1, <1>3, <1>4, <1>7, <1>8, PlacedAppend DEF FlowAt
<1>11. a + 1 \in 0 .. Len(reads) /\ Placed(c2s, "read", a + 1, Len(reads))
  BY <1>2, <1>7, <1>9, Zenon DEF FlowAt
<1>12. FlowAt(a + 1)'  BY <1>1, <1>9, <1>10, <1>11, Zenon DEF FlowAt
<1> QED BY <1>1, <1>2, <1>5, <1>6, <1>11, <1>12, Zenon DEF Flow, FlowAt
-----------------------------------------------------------------------------
\* The invariant.

\* A watcher that is owed a call is in the watch manager, and its watch is kept;
\* and what is under way is what the client and the server expect.
IInv == Core /\ Flow /\ Expiry

\* The invariant holds in the first state.
LEMMA InitInv == Init => IInv
<1> SUFFICES ASSUME Init PROVE IInv
  BY Zenon
<1>1. Expiry  BY Zenon DEF Init, Expiry
<1>2. s2c = <<>> /\ c2s = <<>> /\ on = 0 /\ reads = <<>> /\ reply = "none" /\ owed = {}
      /\ can_send_ = FALSE /\ tcp = "connects" /\ watches = NoWatches /\ shut = FALSE
  BY Zenon DEF Init
<1>3. GoodWatches(watches)
  <2>1. IsMap(EmptyMap, {"path"}, SUBSET Kinds)  BY Zenon DEF IsMap, EmptyMap
  <2> QED BY <1>2, <2>1, Zenon DEF GoodWatches, NoWatches, Kinds
<1>4. Set(watches, owed) /\ Phases /\ Kept
  BY <1>2, Zenon DEF Set, Phases, Quiet, Kept
<1>5. TypeOK
  <2>1. servers_ \in Orders /\ server \in Servers /\ next_ \in 0 .. Cardinality(Servers)
    <3>1. 1 \in Servers  BY Indices
    <3> QED BY <3>1, Indices DEF Init, Orders
  <2>2. <<>> \in Seq(Msg) /\ <<>> \in Seq(Kinds)  OBVIOUS
  <2>3. home \in (Servers \cup {0}) \X (0 .. drawn)  BY DEF Init, Nobody
  <2>4. drawn = 0 /\ session_id_ = 0 /\ master_ = 0 /\ regs = {} /\ db = {} /\ overtaken = {}
        /\ state_ = "SS_DISCONNECTED" /\ master \in Up
    BY Zenon DEF Init
  <2>5. /\ drawn \in Nat /\ session_id_ \in 0 .. drawn /\ on \in 0 .. drawn
        /\ db \subseteq 1 .. drawn /\ regs \subseteq Kinds /\ owed \subseteq Kinds
        /\ overtaken \subseteq Kinds /\ master_ \in Servers \cup {0}
    BY <1>2, <2>4
  <2>6. /\ c2s \in Seq(Msg) /\ s2c \in Seq(Msg) /\ reads \in Seq(Kinds)
        /\ can_send_ \in BOOLEAN /\ shut \in BOOLEAN
    BY <1>2, <2>2, Zenon
  <2>7. \A kind \in Kinds : IsMap(watches[kind], {"path"}, SUBSET Kinds)
    BY <1>3, Zenon DEF GoodWatches
  <2> QED BY <1>2, <2>1, <2>3, <2>4, <2>5, <2>6, <2>7, Zenon DEF TypeOK
<1>6. Flow
  <2>1. Placed(<<>>, "reply", 0, 0)  BY PlacedAll, <<>> \in Seq(Msg), Len(<<>>) = 0, Zenon
  <2> QED BY <1>2, <2>1 DEF Flow
<1> QED BY <1>1, <1>3, <1>4, <1>5, <1>6, Zenon DEF IInv, Core

\* The messages that the client takes.
LEMMA OnMessageStep == Core /\ Flow /\ OnMessage => Core' /\ Flow'
<1> SUFFICES ASSUME Core, Flow, OnMessage PROVE Core' /\ Flow'
  BY Zenon
<1> DEFINE m == Head(s2c)
<1>1. tcp = "open" /\ s2c # <<>> /\ TypeOK /\ Phases  BY Zenon DEF OnMessage, Core
<1>2. m \in Msg  BY <1>1, HasTail, Zenon DEF TypeOK
<1>3. CASE m.type = "MT_MASTER" /\ OnClose(m.arg)
  <2>1. m.arg \in Servers \cup {0}  BY <1>2, <1>3, Messages, Zenon
  <2>2. Core'  BY <1>1, <1>3, <2>1, OnCloseStep, Zenon
  <2>3. s2c' = <<>> /\ on' = 0 /\ reads' \in Seq(Kinds)
    BY <1>1, <1>3, Zenon DEF OnClose, TypeOK
  <2> QED BY <2>2, <2>3, FlowEmpty, Zenon
<1>4. ASSUME s2c' = Tail(s2c), UNCHANGED <<shut, object, cluster>>,
             \/ m.type = "MT_CONNECT" /\ OnConnect(m.arg)
             \/ m.type = "reply" /\ OnReply(m.arg)
             \/ m.type = "MT_NOTIFICATION" /\ OnNotification(m.arg)
             \/ m.type = "MT_SERVERS" /\ UpdateServers
      PROVE  Core' /\ Flow'
  <2>1. CASE m.type = "MT_CONNECT" /\ OnConnect(m.arg)
    BY <1>1, <1>4, <2>1, OnConnectStep, FlowConnect, Zenon
  <2>2. CASE m.type = "reply" /\ OnReply(m.arg)
    <3>1. reads # <<>> /\ Flow'  BY <1>1, <1>4, <2>2, FlowReply, Zenon
    <3> QED BY <1>1, <1>4, <2>2, <3>1, OnReplyStep, Zenon
  <2>3. CASE m.type = "MT_NOTIFICATION" /\ OnNotification(m.arg)
    <3>1. UNCHANGED <<c2s, reads, can_send_, on, reply>>
      BY <1>4, <2>3, Zenon DEF OnNotification, session, object
    <3>2. Flow'  BY <1>1, <1>4, <2>3, <3>1, FlowTail, Zenon
    <3> QED BY <1>1, <1>4, <2>3, <3>2, OnNotificationStep, Zenon
  <2>4. CASE m.type = "MT_SERVERS" /\ UpdateServers
    <3>1. UNCHANGED <<c2s, reads, can_send_, on, reply>>
      BY <1>4, <2>4, Zenon DEF UpdateServers, session, object
    <3>2. Flow'  BY <1>1, <1>4, <2>4, <3>1, FlowTail, Zenon
    <3> QED BY <1>1, <1>4, <2>4, <3>2, UpdateServersStep, Zenon
  <2> QED BY <1>4, <2>1, <2>2, <2>3, <2>4, Zenon
<1> QED BY <1>3, <1>4, Zenon DEF OnMessage

\* The steps of the client.
LEMMA ClientStep == Core /\ Flow /\ Client => Core' /\ Flow'
<1> SUFFICES ASSUME Core, Flow, Client PROVE Core' /\ Flow'
  OBVIOUS
<1>1. TypeOK /\ Phases  BY Zenon DEF Core
<1>2. CASE OnConnection \/ OnFailue \/ OnDelay
  <2>1. s2c = <<>> /\ on = 0 /\ s2c' = s2c /\ on' = on /\ reads' = reads
    BY <1>1, <1>2, Zenon DEF OnConnection, OnFailue, OnDelay, Phases, wires, object
  <2>2. Flow'  BY <1>1, <2>1, FlowEmpty, Zenon DEF TypeOK
  <2> QED BY <1>2, <2>2, ConnectingStep, Zenon
<1>3. CASE Close
  <2>1. s2c' = <<>> /\ on' = 0 /\ reads' \in Seq(Kinds)
    BY <1>1, <1>3, Zenon DEF Close, OnClose, TypeOK
  <2> QED BY <1>3, <2>1, FlowEmpty, CloseStep, Zenon
<1> QED BY <1>2, <1>3, OnMessageStep, Zenon DEF Client

\* The steps of the servers.
LEMMA ServerStep == Core /\ Flow /\ Server => Core' /\ Flow'
<1> SUFFICES ASSUME Core, Flow, Server PROVE Core' /\ Flow'
  OBVIOUS
<1>1. TypeOK /\ Phases  BY DEF Core
<1>2. CASE CleanSessions
  <2>1. UNCHANGED <<c2s, reads, can_send_>> /\ on' = 0
    BY <1>2, Zenon DEF CleanSessions, session
  <2>2. CASE on = 0
    <3>1. s2c' = s2c  BY <1>2, <2>2, Zenon DEF CleanSessions
    <3> QED BY <1>2, <2>1, <3>1, FlowSame, CleanSessionsStep, Zenon
  <2>3. CASE on # 0
    <3>1. AnswerMaster  BY <1>2, <2>3, Zenon DEF CleanSessions
    <3>2. PICK hint \in Servers \cup {0} : s2c' = Append(s2c, Message("MT_MASTER", hint))
      BY <1>1, <3>1, Hints, Zenon
    <3>3. /\ Message("MT_MASTER", hint) \in Msg
          /\ Message("MT_MASTER", hint).type \notin {"MT_CONNECT", "reply"}
      BY Messages, Zenon DEF Message
    <3>4. Flow'  BY <1>1, <2>1, <3>2, <3>3, FlowAppend, Zenon
    <3> QED BY <1>2, <3>4, CleanSessionsStep, Zenon
  <2> QED BY <2>2, <2>3, Zenon
<1>3. CASE ServerConnect  BY <1>1, <1>3, FlowServerConnect, ServerConnectStep, Zenon
<1>4. CASE ServerRead  BY <1>1, <1>4, FlowServerRead, ServerReadStep, Zenon
<1>5. CASE ServerReply  BY <1>1, <1>5, FlowServerReply, ServerReplyStep, Zenon
<1> QED BY <1>2, <1>3, <1>4, <1>5, Zenon DEF Server

\* The other steps.
LEMMA OtherStep ==
  ASSUME Core, Flow,
         \/ Notices \/ Learn \/ NewServers
         \/ \E kind \in Kinds : Read(kind) \/ Change(kind)
         \/ \E sid \in db : Expire(sid)
         \/ \E s \in Up : MasterMoves(s)
  PROVE  Core' /\ Flow'
<1>1. TypeOK /\ Phases  BY Zenon DEF Core
<1>2. CASE Notices \/ Learn \/ \E s \in Up : MasterMoves(s)
  <2>1. UNCHANGED <<s2c, c2s, reads, can_send_, on, reply>>
    BY <1>2, Zenon DEF Notices, Learn, MasterMoves, wires, session, object
  <2> QED BY <1>2, <2>1, FlowSame, ElsewhereStep, Zenon
<1>3. ASSUME NEW sid \in db, Expire(sid) PROVE Core' /\ Flow'
  <2>1. UNCHANGED <<s2c, c2s, reads, can_send_, on, reply>>
    BY <1>3, Zenon DEF Expire, wires, session
  <2> QED BY <1>3, <2>1, FlowSame, ExpireStep, Zenon
<1>4. CASE NewServers
  <2>1. /\ s2c' = Append(s2c, Message("MT_SERVERS", 0))
        /\ UNCHANGED <<c2s, reads, can_send_, on, reply>>
    BY <1>4, Zenon DEF NewServers, Answer, session, object
  <2>2. /\ Message("MT_SERVERS", 0) \in Msg
        /\ Message("MT_SERVERS", 0).type \notin {"MT_CONNECT", "reply"}
    BY Messages, Zenon DEF Message
  <2>3. Flow'  BY <1>1, <2>1, <2>2, FlowAppend, Zenon
  <2> QED BY <1>4, <2>3, NewServersStep, Zenon
<1>5. ASSUME NEW kind \in Kinds, Read(kind) PROVE Core' /\ Flow'
  BY <1>1, <1>5, FlowRead, ReadStep, Zenon
<1>6. ASSUME NEW kind \in Kinds, Change(kind) PROVE Core' /\ Flow'
  <2>1. UNCHANGED <<c2s, reads, can_send_, on, reply>>  BY <1>6, Zenon DEF Change, session
  <2>2. /\ Message("MT_NOTIFICATION", kind) \in Msg
        /\ Message("MT_NOTIFICATION", kind).type \notin {"MT_CONNECT", "reply"}
    BY Messages, Zenon DEF Message
  <2>3. s2c' = s2c \/ s2c' = Append(s2c, Message("MT_NOTIFICATION", kind))
    BY <1>6, Zenon DEF Change, Answer
  <2>4. Flow'  BY <1>1, <2>1, <2>2, <2>3, FlowSame, FlowAppend, Zenon
  <2> QED BY <1>6, <2>4, ChangeStep, Zenon
<1> QED BY <1>2, <1>3, <1>4, <1>5, <1>6, Zenon

\* Every step keeps the invariant.
LEMMA NextInv == IInv /\ [Next]_vars => IInv'
<1> SUFFICES ASSUME IInv, [Next]_vars PROVE IInv'
  OBVIOUS
<1>1. Core /\ Flow /\ Expiry  BY Zenon DEF IInv
<1>2. Expiry'  BY <1>1, ExpiryStep, Zenon
<1>3. CASE Next
  <2>1. Core' /\ Flow'  BY <1>1, <1>3, ClientStep, ServerStep, OtherStep, Zenon DEF Next
  <2> QED BY <1>2, <2>1, Zenon DEF IInv
<1>4. CASE UNCHANGED vars
  <2>1. UNCHANGED <<session, choice, reads, wires, object, cluster, watching>>
    BY <1>4, Zenon DEF vars
  <2>2. UNCHANGED <<s2c, c2s, reads, can_send_, on, reply>>
    BY <2>1, Zenon DEF wires, session, object
  <2>3. Flow'  BY <1>1, <2>2, FlowSame, Zenon
  <2>4. TypeOK'
    <3>1. Msg' = Msg  BY <2>1, Zenon DEF Msg, cluster
    <3> QED BY <1>1, <2>1, <3>1, Zenon DEF Core, TypeOK, session, choice, wires, object,
        cluster,
                                    watching
  <2>5. Phases' /\ Kept'
    BY <1>1, <2>1, Zenon DEF Core, Phases, Asking, Quiet, Kept, Expected, session, choice,
        wires,
                      object, watching
  <2>6. GoodWatches(watches') /\ Set(watches', owed')  BY <1>1, <2>1, Zenon DEF Core, watching
  <2> QED BY <1>2, <2>3, <2>4, <2>5, <2>6, Zenon DEF IInv, Core
<1> QED BY <1>3, <1>4, Zenon

\* The invariant of the client, the servers and what is under way between them.
THEOREM Inductive == Spec => []IInv
<1>1. Init => IInv  BY InitInv, Zenon
<1>2. IInv /\ [Next]_vars => IInv'  BY NextInv, Zenon
<1> QED BY <1>1, <1>2, PTL DEF Spec

\* The variables have the values that their declarations describe.
THEOREM ClientTyped == Spec => []TypeOK
<1>1. IInv => TypeOK  BY Zenon DEF IInv, Core
<1> QED BY <1>1, Inductive, PTL

\* OnConnect: a client that is told SS_CONNECTED of another session than the
\* last time was told SS_EXPIRED in between.
THEOREM ExpiryTold == Spec => []ExpiredTold
<1>1. IInv => ExpiredTold  BY Zenon DEF IInv, Expiry, ExpiredTold
<1> QED BY <1>1, Inductive, PTL

\* OnGetData, OnGetChildren and OnNotification: a watcher that is owed a call is
\* in the watch manager, and its watch at the server or its notification under
\* way, unless the notification came before the reply.
THEOREM WatchesKept == Spec => []WatchKept
<1>1. ASSUME IInv PROVE WatchKept
  <2> SUFFICES ASSUME NEW kind \in owed
               PROVE  /\ kind \in SetAt(watches[kind], "path")
                      /\ \/ on = 0 \/ kind \in regs \/ kind \in overtaken
                         \/ \E i \in DOMAIN s2c : s2c[i] = Message("MT_NOTIFICATION", kind)
    BY Zenon DEF WatchKept
  <2>1. TypeOK /\ Set(watches, owed) /\ Kept  BY <1>1, Zenon DEF IInv, Core
  <2>2. kind \in Kinds /\ DOMAIN s2c = 1 .. Len(s2c)  BY <2>1 DEF TypeOK
  <2>3. Expected(kind)  BY Zenon DEF Expected
  <2> QED BY <2>1, <2>2, <2>3, Zenon DEF Set, Kept, Has
<1> QED BY <1>1, Inductive, PTL
=============================================================================
