-------------------------- MODULE ClientServerSteps --------------------------
(***************************************************************************)
(* What the steps of ClientServer keep, for any number of connections and  *)
(* any plans: the types, the order of the callbacks, and that an RC_OK     *)
(* stands for an executed write.                                           *)
(***************************************************************************)
EXTENDS ClientServer, TLAPS

USE Zenon

\* A function on 1 .. n is a sequence of length n.
LEMMA IsASeq ==
  ASSUME NEW X, NEW n \in Nat, NEW f \in [1 .. n -> X]
  PROVE  f \in Seq(X) /\ Len(f) = n
BY SMT

Joins(e, a, b, d) ==
  /\ Len(e) = Len(a) + (Len(b) + Len(d))
  /\ \A i \in 1 .. Len(a) : e[i] = a[i]
  /\ \A i \in 1 .. Len(b) : e[Len(a) + i] = b[i]
  /\ \A i \in 1 .. Len(d) : e[Len(a) + (Len(b) + i)] = d[i]

\* Three sequences in a row: the elements of each keep their order.
LEMMA Concat ==
  ASSUME NEW X, NEW a \in Seq(X), NEW b \in Seq(X), NEW d \in Seq(X)
  PROVE  (a \o b) \o d \in Seq(X) /\ Joins((a \o b) \o d, a, b, d)
BY SMT DEF Joins

-----------------------------------------------------------------------------
(* Types.                                                                  *)

\* The fields of a message, and the changes that the server makes to one.
LEMMA MessageTyped ==
  ASSUME NEW m \in Messages
  PROVE  /\ m.id \in Nat /\ m.session_id \in Nat /\ m.version \in Nat /\ m.code \in Codes
         /\ \A code \in Codes : [m EXCEPT !.code = code] \in Messages
         /\ \A code \in Codes, sid \in Nat :
              [m EXCEPT !.session_id = sid, !.code = code] \in Messages
         /\ \A sid \in Nat, v \in Nat :
              [m EXCEPT !.session_id = sid, !.version = v] \in Messages
         /\ \A sid \in Nat, v \in Nat, code \in Codes :
              [m EXCEPT !.session_id = sid, !.version = v, !.code = code] \in Messages
         /\ [m EXCEPT !.type = "MT_MASTER"] \in Messages
BY DEF Messages

\* What the client and the server make is a message.
LEMMA NewMessageTyped ==
  ASSUME NEW id \in Nat, NEW sid \in Nat
  PROVE  /\ \A type \in C!RequestType : C!Message(type, id, sid) \in Messages
         /\ C!Message("MT_CONNECT", id, sid) \in Messages
         /\ C!Message("MT_PING", id, sid) \in Messages
         /\ C!Message("MT_CLOSE", id, sid) \in Messages
         /\ C!Message("MT_MASTER", id, sid) \in Messages
         /\ C!Message("none", id, sid) \in Messages
BY SMT DEF Messages, Codes, C!Message

\* The operations of SaberClient keep the types.
LEMMA ClientTyped ==
  ASSUME NEW c \in Clients
  PROVE  /\ C!ClearMessage(c) \in Clients
         /\ C!OnConnection(c) \in Clients
         /\ C!ConnectMessage(c) \in Messages
         /\ C!OnClose(c) \in Clients
         /\ C!OnClose([c EXCEPT !.has_started = FALSE]) \in Clients
<1>1. C!ClearMessage(c) \in Clients
  <2>1. <<>> \in Seq(Messages) /\ [t \in C!RequestType |-> <<>>] \in [C!RequestType -> Seq(Nat)]
    BY SMT
  <2> QED BY <2>1 DEF Clients, C!ClearMessage
<1>2. C!OnConnection(c) \in Clients
  <2>1. c.message_id + 1 \in Nat  BY SMT DEF Clients
  <2> QED BY <2>1 DEF Clients, C!OnConnection
<1>3. C!ConnectMessage(c) \in Messages
  BY NewMessageTyped, SMT DEF Clients, C!ConnectMessage
<1>4. \A d \in Clients : C!OnClose(d) \in Clients  BY DEF Clients, C!OnClose
<1>5. [c EXCEPT !.has_started = FALSE] \in Clients  BY DEF Clients
<1> QED BY <1>1, <1>2, <1>3, <1>4, <1>5, SMT

\* The n requests below a reply and, if it is there, the one it answers.
LEMMA Taken ==
  ASSUME NEW n \in Nat, NEW k \in Nat, NEW a \in Nat, n <= k, a <= 1, a = 1 => n < k
  PROVE  /\ n + a \in Nat /\ n + a <= n + 1 /\ n + a <= k /\ n + 1 \in Nat
         /\ \A i \in 1 .. n + a : i \in 1 .. n \/ (i = n + 1 /\ a = 1)
BY SMT

\* What a reply m does to the queue q of its type and to the calls: the
\* requests that leave the queue, all before r, are called back in its order.
CalledBack(q, calls, m, r, new) ==
  \E n, l \in Nat :
    /\ l <= n /\ l <= Len(q)
    /\ Len(r) = IF n < Len(q) THEN Len(q) - n ELSE 0
    /\ \A i \in 1 .. Len(r) : r[i] = q[n + i]
    /\ Len(new) = Len(calls) + l
    /\ \A i \in 1 .. Len(calls) : new[i] = calls[i]
    /\ \A i \in 1 .. l : /\ new[Len(calls) + i].id = q[i]
                         /\ new[Len(calls) + i].type = m.type
                         /\ \/ new[Len(calls) + i].code = "RC_UNKNOWN"
                            \/ q[i] = m.id /\ new[Len(calls) + i].code = m.code

\* The loops that pop the front of a queue of ids find where to stop; BelowOK,
\* the last of the lemmas, shows it.
BelowFound ==
  \A q \in Seq(Nat), id \in Nat :
    /\ C!Below(q, id) \in 0 .. Len(q)
    /\ \A i \in 1 .. C!Below(q, id) : q[i] < id
    /\ C!Below(q, id) < Len(q) => q[C!Below(q, id) + 1] >= id

\* Whatever reply comes, the client calls back a prefix of the queue of its
\* type, in order, and leaves the other queues alone.
LEMMA OnReplyOK ==
  ASSUME BelowFound,
         NEW c \in Clients, NEW m \in Messages, m.type \in C!RequestType
  PROVE  /\ C!OnReply(c, m) \in Clients
         /\ C!OnReply(c, m).message_id = c.message_id
         /\ \A t \in C!RequestType \ {m.type} : C!OnReply(c, m).queue[t] = c.queue[t]
         /\ CalledBack(c.queue[m.type], c.calls, m,
                       C!OnReply(c, m).queue[m.type], C!OnReply(c, m).calls)
<1> DEFINE q == c.queue[m.type]
           n == C!Below(q, m.id)
           Call(id, code) == [id |-> id, type |-> m.type, code |-> code]
           unknown == [i \in 1 .. n |-> Call(q[i], "RC_UNKNOWN")]
           match == IF n < Len(q) /\ q[n + 1] = m.id THEN <<Call(m.id, m.code)>> ELSE <<>>
           r == IF n < Len(q) THEN SubSeq(q, n + 2, Len(q)) ELSE <<>>
           Calls == [id : Nat, type : C!RequestType, code : Codes]
           out == C!PopSent(c.outgoing, m.id)
<1>1. q \in Seq(Nat) /\ m.id \in Nat /\ m.code \in Codes /\ "RC_UNKNOWN" \in Codes
      /\ c.calls \in Seq(Calls) /\ c.outgoing \in Seq(Messages)
  BY SMT DEF Clients, Messages, Codes
<1>2. n \in 0 .. Len(q)  BY <1>1 DEF BelowFound
<1>3. out \in Seq(Messages)
  <2> DEFINE ids == C!Ids(c.outgoing)
             b == C!Below(ids, m.id + 1)
  <2>1. \A i \in 1 .. Len(c.outgoing) : c.outgoing[i] \in Messages  BY <1>1, SMT
  <2>2. ids \in Seq(Nat) /\ Len(ids) = Len(c.outgoing)
    <3>1. DOMAIN c.outgoing = 1 .. Len(c.outgoing) /\ Len(c.outgoing) \in Nat  BY <1>1, SMT
    <3>2. ids \in [1 .. Len(c.outgoing) -> Nat]
      BY <2>1, <3>1, MessageTyped DEF C!Ids
    <3> QED BY <3>1, <3>2, IsASeq, SMT
  <2>3. b \in 0 .. Len(c.outgoing)
    <3>1. m.id + 1 \in Nat  BY <1>1, SMT
    <3> HIDE DEF ids
    <3> QED BY <3>1, <2>2, SMTT(30) DEF BelowFound
  <2> HIDE DEF b
  <2>4. SubSeq(c.outgoing, b + 1, Len(c.outgoing)) \in Seq(Messages)  BY <1>1, <2>3, SMT
  <2> QED BY <2>4, SMT DEF C!PopSent, b
<1>4. C!OnReply(c, m) = [c EXCEPT !.queue = [@ EXCEPT ![m.type] = r],
                                  !.calls = c.calls \o unknown \o match, !.outgoing = out]
  BY DEF C!OnReply
<1> HIDE DEF out, n
<1>5. unknown \in Seq(Calls) /\ Len(unknown) = n
      /\ \A i \in 1 .. n : unknown[i] = Call(q[i], "RC_UNKNOWN")
  <2>1. n \in Nat /\ \A i \in 1 .. n : q[i] \in Nat
    <3> HIDE DEF q
    <3> QED BY <1>1, <1>2, SMT
  <2>2. unknown \in [1 .. n -> Calls]  BY <1>1, <2>1
  <2>3. \A i \in 1 .. n : unknown[i] = Call(q[i], "RC_UNKNOWN")  OBVIOUS
  <2> HIDE DEF unknown
  <2> QED BY <2>1, <2>2, <2>3, IsASeq
<1>6. /\ match \in Seq(Calls) /\ Len(match) \in {0, 1}
      /\ Len(match) = 1 => n < Len(q) /\ q[n + 1] = m.id /\ match[1] = Call(m.id, m.code)
  <2>1. Call(m.id, m.code) \in Calls  BY <1>1
  <2> HIDE DEF Call, Calls
  <2>2. <<Call(m.id, m.code)>> \in Seq(Calls) /\ <<>> \in Seq(Calls)  BY <2>1, SMT
  <2> QED BY <2>2, SMT
<1>7. r \in Seq(Nat) /\ Len(r) = (IF n + 1 < Len(q) THEN Len(q) - (n + 1) ELSE 0)
      /\ \A i \in 1 .. Len(r) : r[i] = q[(n + 1) + i]
  <2> HIDE DEF q
  <2>1. CASE n < Len(q)
    <3>1. r = SubSeq(q, n + 2, Len(q))  BY <2>1
    <3> HIDE DEF r
    <3> QED BY <1>1, <1>2, <2>1, <3>1, SMT
  <2>2. CASE ~(n < Len(q))
    <3>1. r = <<>>  BY <2>2
    <3> HIDE DEF r
    <3> QED BY <1>1, <1>2, <2>2, <3>1, SMT
  <2> QED BY <2>1, <2>2, SMT
<1> HIDE DEF unknown, match, r, q, Call, Calls
<1> DEFINE l == n + Len(match)
           calls == (c.calls \o unknown) \o match
<1>8. c.calls \in Seq(Calls) /\ unknown \in Seq(Calls) /\ match \in Seq(Calls)
  BY <1>1, <1>5, <1>6
<1>9. [c.queue EXCEPT ![m.type] = r] \in [C!RequestType -> Seq(Nat)]
  BY <1>7, SMT DEF Clients
<1>10. /\ calls \in Seq(Calls)
       /\ Len(calls) = Len(c.calls) + (Len(unknown) + Len(match))
       /\ \A i \in 1 .. Len(c.calls) : calls[i] = c.calls[i]
       /\ \A i \in 1 .. Len(unknown) : calls[Len(c.calls) + i] = unknown[i]
       /\ \A i \in 1 .. Len(match) : calls[Len(c.calls) + (Len(unknown) + i)] = match[i]
  <2>1. calls \in Seq(Calls) /\ Joins(calls, c.calls, unknown, match)  BY <1>8, Concat
  <2> HIDE DEF calls
  <2> QED BY <2>1 DEF Joins
<1> HIDE DEF calls
<1>14. /\ l \in Nat /\ l <= n + 1 /\ l <= Len(q) /\ n + 1 \in Nat
       /\ \A i \in 1 .. l : i \in 1 .. n \/ (i = n + 1 /\ Len(match) = 1)
  <2>0. q \in Seq(Nat) /\ Len(match) \in {0, 1}  BY <1>1, <1>6
  <2>1. Len(q) \in Nat  BY <2>0, SMT
  <2>2. n \in Nat /\ n <= Len(q)  BY <1>2, <2>1, SMT
  <2>3. Len(match) \in Nat /\ Len(match) <= 1
    <3>1. \A x \in {0, 1} : x \in Nat /\ x <= 1  BY SMT
    <3> QED BY <2>0, <3>1
  <2> QED BY <1>6, <2>1, <2>2, <2>3, Taken
<1>15. ASSUME NEW i \in 1 .. l
       PROVE  \/ calls[Len(c.calls) + i] = Call(q[i], "RC_UNKNOWN")
              \/ q[i] = m.id /\ calls[Len(c.calls) + i] = Call(q[i], m.code)
  <2>1. CASE i \in 1 .. n  BY <1>5, <1>10, <2>1
  <2>2. CASE i = n + 1 /\ Len(match) = 1
    <3>1. 1 \in 1 .. Len(match)  BY <2>2, SMT
    <3>2. calls[Len(c.calls) + (Len(unknown) + 1)] = match[1]  BY <1>10, <3>1
    <3>3. calls[Len(c.calls) + i] = match[1]  BY <1>5, <2>2, <3>2
    <3> QED BY <1>6, <2>2, <3>3
  <2> QED BY <1>14, <2>1, <2>2
<1> HIDE DEF l
<1>16. C!OnReply(c, m) = [c EXCEPT !.queue = [c.queue EXCEPT ![m.type] = r],
                                   !.calls = calls, !.outgoing = out]
  BY <1>4 DEF calls
<1>17. /\ C!OnReply(c, m) \in Clients
       /\ C!OnReply(c, m).message_id = c.message_id
       /\ C!OnReply(c, m).queue = [c.queue EXCEPT ![m.type] = r]
       /\ C!OnReply(c, m).calls = calls
  BY <1>3, <1>9, <1>10, <1>16 DEF Clients, Calls
<1>18. DOMAIN c.queue = C!RequestType  BY DEF Clients
<1>19. C!OnReply(c, m).queue[m.type] = r
       /\ \A t \in C!RequestType \ {m.type} : C!OnReply(c, m).queue[t] = c.queue[t]
  BY <1>17, <1>18
<1>20. Len(calls) = Len(c.calls) + l  BY <1>5, <1>10 DEF l
<1>21. \A i \in 1 .. l :
         /\ calls[Len(c.calls) + i].id = q[i]
         /\ calls[Len(c.calls) + i].type = m.type
         /\ \/ calls[Len(c.calls) + i].code = "RC_UNKNOWN"
            \/ q[i] = m.id /\ calls[Len(c.calls) + i].code = m.code
  <2>1. SUFFICES ASSUME NEW i \in 1 .. l, NEW x, x = calls[Len(c.calls) + i]
                 PROVE  /\ x.id = q[i] /\ x.type = m.type
                        /\ \/ x.code = "RC_UNKNOWN"
                           \/ q[i] = m.id /\ x.code = m.code
    OBVIOUS
  <2>2. x = Call(q[i], "RC_UNKNOWN") \/ (q[i] = m.id /\ x = Call(q[i], m.code))
    BY <1>15, <2>1
  <2> QED BY <2>2, SMT DEF Call
<1>22. CalledBack(q, c.calls, m, r, calls)
  BY <1>7, <1>10, <1>14, <1>20, <1>21 DEF l, CalledBack
<1> QED BY <1>17, <1>19, <1>22 DEF q

\* What is done to a connection keeps the types.
LEMMA ConnTyped ==
  ASSUME NEW cs \in [Conn -> Connections], NEW k \in Conn, NEW m \in Messages
  PROVE  /\ ServerSend(cs, k, m) \in [Conn -> Connections]
         /\ ForceClose(cs, k) \in [Conn -> Connections]
         /\ \A ms \in Seq(Messages) : ClientSend(cs, k, ms) \in [Conn -> Connections]
         /\ [cs EXCEPT ![k].srv = "closed", ![k].c2s = <<>>] \in [Conn -> Connections]
         /\ [cs EXCEPT ![k].srv = "freed"] \in [Conn -> Connections]
         /\ [cs EXCEPT ![k].cli = "closed", ![k].s2c = <<>>] \in [Conn -> Connections]
         /\ [cs EXCEPT ![k].cli = "open", ![k].srv = "open", ![k].c2s = <<m>>]
              \in [Conn -> Connections]
         /\ \A b \in BOOLEAN : [cs EXCEPT ![k].started = b] \in [Conn -> Connections]
         /\ \A o \in Conn : [cs EXCEPT ![k].session = o] \in [Conn -> Connections]
<1>1. cs[k] \in Connections  OBVIOUS
<1>2. ASSUME NEW c \in Connections  PROVE [cs EXCEPT ![k] = c] \in [Conn -> Connections]
  OBVIOUS
<1>3. cs[k].s2c \in Seq(Messages) /\ cs[k].c2s \in Seq(Messages)  BY <1>1 DEF Connections
<1>4. Append(cs[k].s2c, m) \in Seq(Messages) /\ <<>> \in Seq(Messages) /\ <<m>> \in Seq(Messages)
  BY <1>3, SMT
<1>5. \A ms \in Seq(Messages) : cs[k].c2s \o ms \in Seq(Messages)  BY <1>3, SMT
<1>6. ServerSend(cs, k, m) \in [Conn -> Connections]
  BY <1>1, <1>2, <1>4 DEF ServerSend, Connections
<1>7. ForceClose(cs, k) \in [Conn -> Connections]
  BY <1>1, <1>2 DEF ForceClose, Connections
<1>8. \A ms \in Seq(Messages) : ClientSend(cs, k, ms) \in [Conn -> Connections]
  BY <1>1, <1>2, <1>5 DEF ClientSend, Connections
<1>9. [cs EXCEPT ![k].srv = "closed", ![k].c2s = <<>>] \in [Conn -> Connections]
  BY <1>1, <1>2, <1>4 DEF Connections
<1>10. [cs EXCEPT ![k].srv = "freed"] \in [Conn -> Connections]
  BY <1>1, <1>2 DEF Connections
<1>11. [cs EXCEPT ![k].cli = "closed", ![k].s2c = <<>>] \in [Conn -> Connections]
  BY <1>1, <1>2, <1>4 DEF Connections
<1>12. [cs EXCEPT ![k].cli = "open", ![k].srv = "open", ![k].c2s = <<m>>]
         \in [Conn -> Connections]
  BY <1>1, <1>2, <1>4 DEF Connections
<1>13. \A b \in BOOLEAN : [cs EXCEPT ![k].started = b] \in [Conn -> Connections]
  BY <1>1, <1>2 DEF Connections
<1>14. \A o \in Conn : [cs EXCEPT ![k].session = o] \in [Conn -> Connections]
  <2>1. \A o \in Conn : o \in 0 .. MaxConn  BY SMT DEF Conn
  <2> QED BY <1>1, <1>2, <2>1 DEF Connections
<1> QED BY <1>6, <1>7, <1>8, <1>9, <1>10, <1>11, <1>12, <1>13, <1>14

\* Reading a message from a connection, at either end.
LEMMA PopTyped ==
  ASSUME NEW cs \in [Conn -> Connections], NEW k \in Conn
  PROVE  /\ cs[k].c2s # <<>> => /\ Head(cs[k].c2s) \in Messages
                               /\ [cs EXCEPT ![k].c2s = Tail(@)] \in [Conn -> Connections]
         /\ cs[k].s2c # <<>> => /\ Head(cs[k].s2c) \in Messages
                               /\ [cs EXCEPT ![k].s2c = Tail(@)] \in [Conn -> Connections]
<1>1. cs[k] \in Connections  OBVIOUS
<1>2. cs[k].s2c \in Seq(Messages) /\ cs[k].c2s \in Seq(Messages)  BY <1>1 DEF Connections
<1>3. \A q \in Seq(Messages) : q # <<>> => Head(q) \in Messages /\ Tail(q) \in Seq(Messages)
  BY SMT
<1>4. ASSUME NEW q \in Seq(Messages)
      PROVE  /\ [cs EXCEPT ![k].c2s = q] \in [Conn -> Connections]
             /\ [cs EXCEPT ![k].s2c = q] \in [Conn -> Connections]
  BY <1>1 DEF Connections
<1> QED BY <1>2, <1>3, <1>4

\* The types, and what is needed besides: a thread at work has a session
\* object, or a connection.
TInv == TypeOK /\ \A t \in Thread : work[t].stage # "idle" => work[t].object \in Conn

\* The loop threads are the connections; the other two threads are none of
\* them, and 0 is no connection.
LEMMA ThreadFacts ==
  /\ \A k \in Conn : k \in Thread /\ k # 0 /\ k # CallbackThread /\ k # RunLoopThread
                     /\ k \in 0 .. MaxConn
  /\ CallbackThread \in Thread /\ RunLoopThread \in Thread /\ CallbackThread # RunLoopThread
  /\ 0 \in 0 .. MaxConn /\ 0 \notin Conn
  /\ \A x \in 0 .. MaxConn : x # 0 => x \in Conn
BY BoundAssumption, SMT DEF Conn, Thread, CallbackThread, RunLoopThread

\* A new task for a thread.
IsTask(x, stage, m, o) == x \in Tasks /\ x.stage = stage /\ x.m = m /\ x.object = o

\* The tasks that a thread starts with.
LEMMA NewTask ==
  ASSUME NEW m \in Messages, NEW o \in Conn
  PROVE  /\ IsTask(Work("checked", m, o, 0), "checked", m, o)
         /\ IsTask(Work("handle", m, o, 0), "handle", m, o)
         /\ IsTask(Work("reply", m, o, 0), "reply", m, o)
         /\ IsTask(Work("respond", m, o, 0), "respond", m, o)
BY ThreadFacts DEF Work, Tasks, IsTask

\* Having nothing to do is a task too.
LEMMA IdleTask == Idle \in Tasks /\ Idle.stage = "idle" /\ Idle.m.type = "none"
<1>1. 0 \in Nat  BY SMT
<1>2. NoMessage \in Messages /\ NoMessage.type = "none"
  BY <1>1, NewMessageTyped DEF NoMessage, C!Message
<1> QED BY <1>2, ThreadFacts DEF Idle, Work, Tasks

\* What a task goes on to be.
LEMMA TaskGoesOn ==
  ASSUME NEW x \in Tasks
  PROVE  /\ [x EXCEPT !.stage = "handle"] \in Tasks
         /\ \A code \in Codes : [x EXCEPT !.stage = "reply", !.m.code = code] \in Tasks
         /\ [x EXCEPT !.stage = "reply", !.m.type = "MT_MASTER"] \in Tasks
         /\ \A p \in 0 .. MaxConn : [x EXCEPT !.stage = "sent", !.p = p] \in Tasks
         /\ [x EXCEPT !.stage = "handle"].object = x.object
         /\ \A code \in Codes : [x EXCEPT !.stage = "reply", !.m.code = code].object = x.object
         /\ [x EXCEPT !.stage = "reply", !.m.type = "MT_MASTER"].object = x.object
         /\ \A p \in 0 .. MaxConn : [x EXCEPT !.stage = "sent", !.p = p].object = x.object
<1>1. x.m \in Messages  BY DEF Tasks
<1>2. \A code \in Codes : [x.m EXCEPT !.code = code] \in Messages
  BY <1>1, MessageTyped
<1>3. [x.m EXCEPT !.type = "MT_MASTER"] \in Messages  BY <1>1, MessageTyped
<1>4. [x EXCEPT !.stage = "handle"] \in Tasks /\ [x EXCEPT !.stage = "handle"].object = x.object
  BY DEF Tasks
<1>5. \A code \in Codes : /\ [x EXCEPT !.stage = "reply", !.m.code = code] \in Tasks
                          /\ [x EXCEPT !.stage = "reply", !.m.code = code].object = x.object
  BY <1>2 DEF Tasks
<1>6. /\ [x EXCEPT !.stage = "reply", !.m.type = "MT_MASTER"] \in Tasks
      /\ [x EXCEPT !.stage = "reply", !.m.type = "MT_MASTER"].object = x.object
  BY <1>3 DEF Tasks
<1>7. \A p \in 0 .. MaxConn : /\ [x EXCEPT !.stage = "sent", !.p = p] \in Tasks
                              /\ [x EXCEPT !.stage = "sent", !.p = p].object = x.object
  BY DEF Tasks
<1> QED BY <1>4, <1>5, <1>6, <1>7

\* The methods of SaberSession keep the type of the object.
LEMMA ObjectTyped ==
  ASSUME NEW s \in Objects, NEW m \in Messages, NEW p
  PROVE  /\ S!Enqueue(s, m) \in Objects /\ S!Finish(s, m, p) \in Objects
         /\ S!HasNext(s, m, p) => Head(s.pending_messages) \in Messages
         /\ \A x \in 0 .. MaxConn : S!OnConnect(s, x) \in Objects
         /\ \A v \in Nat : [s EXCEPT !.version = v] \in Objects
         /\ \A x \in 0 .. MaxConn, sid, v \in Nat : S!NewSession(sid, v, x) \in Objects
<1> DEFINE q == s.pending_messages
<1>1. q \in Seq(Messages)  BY DEF Objects
<1>2. Append(q, m) \in Seq(Messages) /\ <<m>> \in Seq(Messages) /\ <<>> \in Seq(Messages)
      /\ (q # <<>> => Head(q) \in Messages /\ Tail(q) \in Seq(Messages))
  <2> HIDE DEF q
  <2> QED BY <1>1, SMT
<1>3. S!Enqueue(s, m) \in Objects  BY <1>2 DEF Objects, S!Enqueue
<1>4. S!HasNext(s, m, p) => q # <<>>  BY DEF S!HasNext
<1>5. S!Finish(s, m, p) \in Objects
  <2>1. CASE S!HasNext(s, m, p)  BY <1>2, <1>4, <2>1 DEF Objects, S!Finish
  <2>2. CASE ~S!HasNext(s, m, p)  BY <1>2, <2>2 DEF Objects, S!Finish
  <2> QED BY <2>1, <2>2, SMT
<1>6. \A x \in 0 .. MaxConn : S!OnConnect(s, x) \in Objects
  BY <1>2 DEF Objects, S!OnConnect
<1>7. \A v \in Nat : [s EXCEPT !.version = v] \in Objects  BY DEF Objects
<1>8. \A x \in 0 .. MaxConn, sid, v \in Nat : S!NewSession(sid, v, x) \in Objects
  BY <1>2 DEF Objects, S!NewSession
<1> QED BY <1>2, <1>3, <1>4, <1>5, <1>6, <1>7, <1>8

\* What a weak pointer to a connection locks is a connection or nothing.
LEMMA LockTyped ==
  ASSUME TInv, NEW x \in 0 .. MaxConn
  PROVE  Lock(x) \in 0 .. MaxConn /\ (Lock(x) # 0 => Lock(x) \in Conn)
BY ThreadFacts DEF Lock

\* The types hold in the first state.
LEMMA InitTyped == Init => TInv
<1> SUFFICES ASSUME Init PROVE TInv  OBVIOUS
<1>1. C!NewClient \in Clients
  <2>1. <<>> \in Seq(Messages) /\ [t \in C!RequestType |-> <<>>] \in [C!RequestType -> Seq(Nat)]
        /\ <<>> \in Seq([id : Nat, type : C!RequestType, code : Codes]) /\ 0 \in Nat
    BY SMT
  <2> QED BY <2>1 DEF C!NewClient, Clients
<1>2. NewConn \in Connections
  <2>1. <<>> \in Seq(Messages)  BY SMT
  <2> QED BY <2>1, ThreadFacts DEF NewConn, Connections
<1>3. NoSession \in Objects
  <2>1. <<>> \in Seq(Messages) /\ 0 \in Nat  BY SMT
  <2> QED BY <2>1, ThreadFacts DEF NoSession, S!NewSession, Objects
<1>4. Idle \in Tasks /\ Idle.stage = "idle"
  <2>1. 0 \in Nat  BY SMT
  <2>2. NoMessage \in Messages  BY <2>1, NewMessageTyped DEF NoMessage
  <2> QED BY <2>2, ThreadFacts DEF Idle, Work, Tasks
<1>5. plan \in [requests : Seq(C!RequestType), pings : Nat, faults : SUBSET AllFaults]
  BY BoundAssumption DEF Init
<1>6. <<>> \in Seq(Items) /\ 0 \in Nat /\ 1 \in Nat  BY SMT
<1>7. IsMap(EmptyMap, Nat, Conn) /\ IsMap(EmptyMap, Nat, Nat)  BY SMT DEF IsMap, EmptyMap
<1>8. conn \in [Conn -> Connections] /\ session \in [Conn -> Objects]
      /\ work \in [Thread -> Tasks] /\ functors \in [Conn -> Seq(Items)]
  BY <1>2, <1>3, <1>4, <1>6 DEF Init
<1>9. cleaning \in [due : BOOLEAN, held : BOOLEAN, todo : SUBSET Conn, told : SUBSET Conn]
  BY DEF Init
<1>10. \A t \in Thread : work[t].stage = "idle"  BY <1>4 DEF Init
<1>11. client \in Clients /\ link \in 0 .. MaxConn /\ issued \subseteq Messages
       /\ IsMap(sessions, Nat, Conn) /\ proposals \subseteq Items /\ callbacks \in Seq(Items)
       /\ IsMap(db, Nat, Nat) /\ instance \in Nat /\ nextSid \in Nat
       /\ isMaster \in BOOLEAN /\ settled \subseteq Nat /\ executed \subseteq Nat
  BY <1>1, <1>6, <1>7, ThreadFacts DEF Init
<1> QED BY <1>5, <1>8, <1>9, <1>10, <1>11 DEF TInv, TypeOK

-----------------------------------------------------------------------------
(* What every step leaves alone.                                           *)

\* Groups of variables that a step leaves alone.
SameClient == client' = client /\ link' = link /\ plan' = plan /\ issued' = issued
SameServer == session' = session /\ sessions' = sessions /\ cleaning' = cleaning
SameLoops == work' = work /\ functors' = functors
SamePaxos == proposals' = proposals /\ callbacks' = callbacks /\ db' = db /\ instance' = instance
SameHistory == settled' = settled /\ executed' = executed
USE DEF SameClient, SameServer, SameLoops, SamePaxos, SameHistory

\* What the ends of the connections leave alone.
LEMMA NetworkFrame ==
  ASSUME NEW k
  PROVE  /\ ServerCloses(k) =>
              /\ SameClient /\ SameServer /\ SameLoops /\ SamePaxos /\ SameHistory
              /\ nextSid' = nextSid /\ isMaster' = isMaster
         /\ Freed(k) =>
              /\ SameClient /\ SameServer /\ SameLoops /\ SamePaxos /\ SameHistory
              /\ nextSid' = nextSid /\ isMaster' = isMaster
         /\ ClientCloses(k) =>
              /\ SameServer /\ SameLoops /\ SamePaxos /\ SameHistory
              /\ plan' = plan /\ issued' = issued /\ nextSid' = nextSid
              /\ isMaster' = isMaster
BY SMT DEF ServerCloses, Freed, ClientCloses, clientVars, serverVars, paxosVars, history

\* What the calls of the user leave alone.
LEMMA UserFrame ==
  /\ Connect =>
       /\ SameServer /\ SameLoops /\ SamePaxos /\ SameHistory /\ link' = link
       /\ plan' = plan /\ conn' = conn /\ nextSid' = nextSid
       /\ isMaster' = isMaster
  /\ Close =>
       /\ SameServer /\ SameLoops /\ SamePaxos /\ SameHistory /\ plan' = plan
       /\ issued' = issued /\ nextSid' = nextSid /\ isMaster' = isMaster
  /\ Request =>
       /\ SameServer /\ SameLoops /\ SamePaxos /\ SameHistory /\ link' = link
       /\ nextSid' = nextSid /\ isMaster' = isMaster
BY SMT DEF Connect, Close, Request, clientVars, serverVars, paxosVars, history

\* What the client's loop leaves alone.
LEMMA ClientLoopFrame ==
  ASSUME NEW k
  PROVE  /\ OnTimer =>
              /\ SameServer /\ SameLoops /\ SamePaxos /\ SameHistory
              /\ client' = client /\ link' = link /\ issued' = issued
              /\ nextSid' = nextSid /\ isMaster' = isMaster
         /\ OnConnection(k) =>
              /\ SameServer /\ SameLoops /\ SamePaxos /\ SameHistory
              /\ plan' = plan /\ issued' = issued /\ nextSid' = nextSid
              /\ isMaster' = isMaster
         /\ ClientReceive(k) =>
              /\ SameServer /\ SameLoops /\ SamePaxos /\ SameHistory
              /\ plan' = plan /\ issued' = issued /\ nextSid' = nextSid
              /\ isMaster' = isMaster
BY SMT DEF OnTimer, OnConnection, ClientReceive, clientVars, serverVars, paxosVars, history

\* What the server's loops leave alone.
LEMMA LoopFrame ==
  ASSUME NEW k
  PROVE  /\ ReceiveConnect(k) =>
              /\ SameClient /\ SameServer /\ SameLoops /\ SameHistory
              /\ callbacks' = callbacks /\ db' = db /\ instance' = instance
              /\ isMaster' = isMaster
         /\ Receive(k) =>
              /\ SameClient /\ SameServer /\ SamePaxos /\ SameHistory
              /\ functors' = functors /\ nextSid' = nextSid
              /\ isMaster' = isMaster
         /\ RunFunctor(k) =>
              /\ SameClient /\ SameServer /\ SamePaxos /\ SameHistory
              /\ conn' = conn /\ nextSid' = nextSid /\ isMaster' = isMaster
BY SMT DEF ReceiveConnect, Receive, RunFunctor, clientVars, serverVars, paxosVars, history

\* What a thread that handles a message leaves alone.
LEMMA SessionFrame ==
  ASSUME NEW t
  PROVE  /\ Enqueue(t) =>
              /\ SameClient /\ SamePaxos /\ SameHistory /\ conn' = conn
              /\ sessions' = sessions /\ cleaning' = cleaning
              /\ functors' = functors /\ nextSid' = nextSid
              /\ isMaster' = isMaster
         /\ Handle(t) =>
              /\ SameClient /\ SameServer /\ conn' = conn /\ functors' = functors
              /\ callbacks' = callbacks /\ db' = db /\ instance' = instance
              /\ nextSid' = nextSid /\ isMaster' = isMaster
              /\ executed' = executed
         /\ DoneSend(t) =>
              /\ SameClient /\ SameServer /\ SamePaxos /\ SameHistory
              /\ functors' = functors /\ nextSid' = nextSid
              /\ isMaster' = isMaster
         /\ DoneFinish(t) =>
              /\ SameClient /\ SamePaxos /\ SameHistory /\ sessions' = sessions
              /\ cleaning' = cleaning /\ nextSid' = nextSid
              /\ isMaster' = isMaster
BY SMT DEF Enqueue, Handle, DoneSend, DoneFinish, clientVars, serverVars, paxosVars, history

\* What the outcome of a proposal leaves alone.
LEMMA PaxosFrame ==
  ASSUME NEW pr
  PROVE  /\ Execute(pr) =>
              /\ SameClient /\ SameServer /\ SameLoops /\ conn' = conn
              /\ nextSid' = nextSid /\ isMaster' = isMaster
         /\ Fail(pr) =>
              /\ SameClient /\ SameServer /\ SameLoops /\ conn' = conn /\ db' = db
              /\ instance' = instance /\ nextSid' = nextSid
              /\ isMaster' = isMaster /\ executed' = executed
BY SMTT(30) DEF Execute, Fail, clientVars, serverVars, paxosVars, history

\* What the callback thread leaves alone.
LEMMA CallbackFrame ==
  /\ CallbackMessage =>
       /\ SameClient /\ SameServer /\ SameHistory /\ conn' = conn
       /\ functors' = functors /\ proposals' = proposals /\ db' = db
       /\ instance' = instance /\ nextSid' = nextSid /\ isMaster' = isMaster
  /\ CallbackConnect =>
       /\ SameClient /\ SameHistory /\ cleaning' = cleaning
       /\ functors' = functors /\ proposals' = proposals /\ db' = db
       /\ instance' = instance /\ nextSid' = nextSid /\ isMaster' = isMaster
  /\ CallbackRespond =>
       /\ SameClient /\ SameServer /\ SamePaxos /\ SameHistory
       /\ functors' = functors /\ nextSid' = nextSid /\ isMaster' = isMaster
BY SMT
   DEF CallbackMessage, CallbackConnect, CallbackRespond, clientVars, serverVars, paxosVars,
       history

\* What the changes of the master and CleanSessions leave alone.
LEMMA MasterFrame ==
  ASSUME NEW o
  PROVE  /\ LoseMaster =>
              /\ SameClient /\ SameLoops /\ SamePaxos /\ SameHistory
              /\ conn' = conn /\ session' = session /\ sessions' = sessions
              /\ nextSid' = nextSid
         /\ CleanSessions =>
              /\ SameClient /\ SameLoops /\ SamePaxos /\ SameHistory
              /\ conn' = conn /\ session' = session /\ sessions' = sessions
              /\ nextSid' = nextSid /\ isMaster' = isMaster
         /\ CleanNext(o) =>
              /\ SameClient /\ SamePaxos /\ SameHistory /\ conn' = conn
              /\ session' = session /\ sessions' = sessions
              /\ functors' = functors /\ nextSid' = nextSid
              /\ isMaster' = isMaster
         /\ CleanEnd =>
              /\ SameClient /\ SameLoops /\ SamePaxos /\ SameHistory
              /\ conn' = conn /\ session' = session /\ nextSid' = nextSid
              /\ isMaster' = isMaster
BY SMT
   DEF LoseMaster, CleanSessions, CleanNext, CleanEnd, clientVars, serverVars, paxosVars,
       history

-----------------------------------------------------------------------------
(* Every step keeps the types.                                             *)

\* The types of what the steps read.
LEMMA Parts ==
  ASSUME TInv
  PROVE  /\ \A k \in Conn : conn[k] \in Connections /\ session[k] \in Objects
         /\ \A t \in Thread : work[t] \in Tasks /\ work[t].m \in Messages
                              /\ (work[t].stage # "idle" => work[t].object \in Conn)
         /\ \A sid \in DOMAIN sessions : sid \in Nat /\ sessions[sid] \in Conn
         /\ \A sid \in DOMAIN db : sid \in Nat /\ db[sid] \in Nat
         /\ \A pr \in proposals : pr \in Items /\ pr.m \in Messages /\ pr.object \in Conn
         /\ callbacks # <<>> => /\ Head(callbacks) \in Items
                                /\ Head(callbacks).m \in Messages
                                /\ Head(callbacks).object \in Conn
                                /\ Tail(callbacks) \in Seq(Items)
<1>1. \A k \in Conn : conn[k] \in Connections /\ session[k] \in Objects
  BY DEF TInv, TypeOK
<1>2. \A t \in Thread : work[t] \in Tasks /\ (work[t].stage # "idle" => work[t].object \in Conn)
  BY DEF TInv, TypeOK
<1>3. \A x \in Tasks : x.m \in Messages  BY DEF Tasks
<1>4. \A sid \in DOMAIN sessions : sid \in Nat /\ sessions[sid] \in Conn
  BY DEF TInv, TypeOK, IsMap
<1>5. \A sid \in DOMAIN db : sid \in Nat /\ db[sid] \in Nat
  BY DEF TInv, TypeOK, IsMap
<1>6. \A x \in Items : x.m \in Messages /\ x.object \in Conn  BY DEF Items
<1>7. \A pr \in proposals : pr \in Items  BY DEF TInv, TypeOK
<1>8. callbacks # <<>> => Head(callbacks) \in Items /\ Tail(callbacks) \in Seq(Items)
  <2>1. callbacks \in Seq(Items)  BY DEF TInv, TypeOK
  <2> QED BY <2>1, SMT
<1> QED BY <1>1, <1>2, <1>3, <1>4, <1>5, <1>6, <1>7, <1>8

\* A thread's task, when it gets another one or goes on with it.
LEMMA TaskSet ==
  ASSUME TInv, NEW t \in Thread, NEW x \in Tasks, x.stage # "idle" => x.object \in Conn,
         work' = [work EXCEPT ![t] = x]
  PROVE  /\ work' \in [Thread -> Tasks]
         /\ \A u \in Thread : work'[u].stage # "idle" => work'[u].object \in Conn
         /\ \A u \in Thread : work'[u] = IF u = t THEN x ELSE work[u]
<1>1. work \in [Thread -> Tasks]  BY DEF TInv, TypeOK
<1>2. work' \in [Thread -> Tasks]  BY <1>1
<1>3. \A u \in Thread : work'[u] = IF u = t THEN x ELSE work[u]  BY <1>1
<1> QED BY <1>2, <1>3, Parts

\* OnMessage keeps the types when the message is a connect.
LEMMA ReceiveConnectTyped ==
  ASSUME TInv, NEW k \in Conn, ReceiveConnect(k)
  PROVE  TInv'
<1> DEFINE m == Head(conn[k].c2s)
           m1 == [m EXCEPT !.type = "MT_MASTER"]
           no == [m EXCEPT !.session_id = 0, !.code = "RC_UNKNOWN"]
           failed == [m EXCEPT !.session_id = 0, !.code = "RC_FAILED"]
           begun == [Read(k) EXCEPT ![k].started = TRUE]
<1>1. conn \in [Conn -> Connections] /\ proposals \subseteq Items /\ nextSid \in Nat
  BY DEF TInv, TypeOK
<1>2. conn[k].c2s # <<>>  BY DEF ReceiveConnect, Readable
<1>3. m \in Messages /\ Read(k) \in [Conn -> Connections]
  BY <1>1, <1>2, PopTyped DEF Read
<1>4. /\ \/ conn' = ForceClose(ServerSend(Read(k), k, m1), k)
         \/ conn' = Read(k)
         \/ conn' = ForceClose(ServerSend(begun, k, no), k)
         \/ conn' = begun
         \/ conn' = ServerSend(Read(k), k, failed)
      /\ \/ proposals' = proposals
         \/ proposals' = proposals \cup {ConnectProposal(m, k)}
      /\ nextSid' = nextSid \/ nextSid' = nextSid + 1
  BY DEF ReceiveConnect
<1> HIDE DEF m
<1>5. "RC_UNKNOWN" \in Codes /\ "RC_FAILED" \in Codes /\ 0 \in Nat  BY SMT DEF Codes
<1>6. m1 \in Messages /\ no \in Messages /\ failed \in Messages
  BY <1>3, <1>5, MessageTyped
<1> HIDE DEF m1, no, failed
<1>7. begun \in [Conn -> Connections]  BY <1>3, ConnTyped
<1> HIDE DEF begun
<1>8. conn' \in [Conn -> Connections]
  <2>1. /\ ServerSend(Read(k), k, m1) \in [Conn -> Connections]
        /\ ServerSend(Read(k), k, failed) \in [Conn -> Connections]
        /\ ServerSend(begun, k, no) \in [Conn -> Connections]
    BY <1>3, <1>6, <1>7, ConnTyped
  <2>2. \A cs \in [Conn -> Connections] : ForceClose(cs, k) \in [Conn -> Connections]
    BY <1>3, ConnTyped
  <2> QED BY <1>3, <1>4, <1>7, <2>1, <2>2
<1>9. ConnectProposal(m, k) \in Items
  <2>1. \A sid, v \in Nat : [m EXCEPT !.session_id = sid, !.version = v] \in Messages
    BY <1>3, MessageTyped
  <2>2. m.session_id \in Nat /\ (m.session_id \in DOMAIN db => db[m.session_id] \in Nat)
    BY <1>3, MessageTyped, Parts
  <2>3. \A known \in BOOLEAN : (known => db[m.session_id] \in Nat) =>
          /\ (IF known THEN m.session_id ELSE nextSid) \in Nat
          /\ (IF known THEN db[m.session_id] ELSE 0) \in Nat
    BY <1>1, <1>5, <2>2
  <2> QED BY <2>1, <2>2, <2>3 DEF ConnectProposal, Items
<1>10. nextSid' \in Nat  BY <1>1, <1>4, SMT
<1>11. proposals' \subseteq Items  BY <1>1, <1>4, <1>9
<1> QED BY <1>8, <1>10, <1>11, LoopFrame DEF TInv, TypeOK

\* OnMessage keeps the types when the message is any other.
LEMMA ReceiveTyped ==
  ASSUME TInv, NEW k \in Conn, Receive(k)
  PROVE  TInv'
<1> DEFINE o == conn[k].session
           h == Head(conn[k].c2s)
           m == WithSession(h, o)
<1>1. conn \in [Conn -> Connections] /\ work \in [Thread -> Tasks]  BY DEF TInv, TypeOK
<1>2. conn[k].c2s # <<>>  BY DEF Receive, Readable
<1>3. h \in Messages /\ Read(k) \in [Conn -> Connections]
  BY <1>1, <1>2, PopTyped DEF Read
<1>4. conn' = ForceClose(Read(k), k) \/ conn' = Read(k)  BY DEF Receive
<1>5. work' = work \/ (o # 0 /\ work' = [work EXCEPT ![k] = Work("checked", m, o, 0)])
  BY DEF Receive, Accepting
<1>6. o \in 0 .. MaxConn  BY <1>1 DEF Connections
<1> HIDE DEF o, h
<1>7. m \in Messages
  <2>1. o # 0 => o \in Conn  BY <1>6, ThreadFacts
  <2>2. o # 0 => session[o].session_id \in Nat /\ session[o].version \in Nat
    BY <2>1, Parts DEF Objects
  <2> QED BY <1>3, <2>2, MessageTyped DEF WithSession
<1> HIDE DEF m
<1>8. conn' \in [Conn -> Connections]
  <2>1. ForceClose(Read(k), k) \in [Conn -> Connections]  BY <1>3, ConnTyped
  <2> QED BY <1>3, <1>4, <2>1
<1>9. ASSUME o # 0, work' = [work EXCEPT ![k] = Work("checked", m, o, 0)]
      PROVE  /\ work' \in [Thread -> Tasks]
             /\ \A t \in Thread : work'[t].stage # "idle" => work'[t].object \in Conn
  <2>1. o \in Conn /\ k \in Thread  BY <1>6, <1>9, ThreadFacts
  <2>2. Work("checked", m, o, 0) \in Tasks /\ Work("checked", m, o, 0).object = o
    BY <1>7, <2>1, NewTask, ZenonT(30) DEF IsTask
  <2> QED BY <1>9, <2>1, <2>2, TaskSet
<1> QED BY <1>5, <1>8, <1>9, LoopFrame DEF TInv, TypeOK

\* A loop that runs a queued message keeps the types.
LEMMA RunFunctorTyped ==
  ASSUME TInv, NEW k \in Conn, RunFunctor(k)
  PROVE  TInv'
<1> DEFINE f == Head(functors[k])
<1>1. functors \in [Conn -> Seq(Items)] /\ work \in [Thread -> Tasks]  BY DEF TInv, TypeOK
<1>2. functors[k] # <<>> /\ functors[k] \in Seq(Items)  BY <1>1 DEF RunFunctor
<1>3. f \in Items /\ Tail(functors[k]) \in Seq(Items)  BY <1>2, SMT
<1>4. work' = [work EXCEPT ![k] = Work("handle", f.m, f.object, 0)]
      /\ functors' = [functors EXCEPT ![k] = Tail(@)]
  BY DEF RunFunctor
<1> HIDE DEF f
<1>5. f.m \in Messages /\ f.object \in Conn /\ k \in Thread  BY <1>3, ThreadFacts DEF Items
<1>6. functors' \in [Conn -> Seq(Items)]  BY <1>1, <1>3, <1>4
<1>7. Work("handle", f.m, f.object, 0) \in Tasks /\ Work("handle", f.m, f.object, 0).object = f.object
  <2>1. IsTask(Work("handle", f.m, f.object, 0), "handle", f.m, f.object)
    BY <1>5, NewTask
  <2> QED BY <2>1 DEF IsTask
<1>8. /\ work' \in [Thread -> Tasks]
      /\ \A t \in Thread : work'[t].stage # "idle" => work'[t].object \in Conn
  BY <1>4, <1>5, <1>7, TaskSet
<1> QED BY <1>6, <1>8, LoopFrame DEF TInv, TypeOK

\* What Handle does with the thread's message: answer it, or propose it.
LEMMA HandleStep ==
  ASSUME TInv, NEW t \in Thread, Handle(t)
  PROVE  /\ work[t].stage = "handle" /\ work[t] \in Tasks /\ work[t].object \in Conn
         /\ \/ \E code \in Codes :
                 /\ work' = [work EXCEPT ![t] = [work[t] EXCEPT !.stage = "reply", !.m.code = code]]
                 /\ code = "RC_OK" => ~IsProposed(work[t].m)
                 /\ settled' = settled \cup ({work[t].m.id} \ {0})
                 /\ proposals' = proposals
            \/ /\ work' = [work EXCEPT ![t] = Idle]
               /\ proposals' = proposals \cup {[m |-> work[t].m, object |-> work[t].object]}
               /\ IsProposed(work[t].m)
               /\ settled' = settled
            \/ /\ work' = [work EXCEPT ![t] = [work[t] EXCEPT !.stage = "reply",
                                                              !.m.type = "MT_MASTER"]]
               /\ settled' = settled /\ proposals' = proposals
<1>1. work[t].stage = "handle"  BY DEF Handle
<1>2. work[t] \in Tasks /\ work[t].object \in Conn  BY <1>1, Parts
<1>3. "RC_OK" \in Codes /\ "RC_FAILED" \in Codes /\ "RC_NODE_EXISTS" \in Codes
      /\ "RC_FAILED" # "RC_OK" /\ "RC_NODE_EXISTS" # "RC_OK"
  BY SMT DEF Codes
<1>4. \A code : Answer(t, code) =>
        /\ work' = [work EXCEPT ![t] = [work[t] EXCEPT !.stage = "reply", !.m.code = code]]
        /\ settled' = settled \cup ({work[t].m.id} \ {0})
        /\ proposals' = proposals
  BY DEF Answer
<1>5. CASE DoIt(t)
  <2>1. CASE ~IsProposed(work[t].m) /\ Answer(t, "RC_OK")  BY <1>1, <1>2, <1>3, <1>4, <2>1
  <2>2. CASE Answer(t, "RC_NODE_EXISTS")  BY <1>1, <1>2, <1>3, <1>4, <2>2
  <2>3. CASE Answer(t, "RC_FAILED")  BY <1>1, <1>2, <1>3, <1>4, <2>3
  <2>4. CASE /\ IsProposed(work[t].m)
             /\ proposals' = proposals \cup {[m |-> work[t].m, object |-> work[t].object]}
             /\ work' = [work EXCEPT ![t] = Idle] /\ UNCHANGED settled
    BY <1>1, <1>2, <2>4
  <2> QED BY <1>5, <2>1, <2>2, <2>3, <2>4 DEF DoIt, Propose
<1>6. CASE /\ work' = [work EXCEPT ![t].stage = "reply", ![t].m.type = "MT_MASTER"]
           /\ UNCHANGED <<settled, proposals>>
  <2>1. settled' = settled /\ proposals' = proposals  BY <1>6, SMT
  <2> QED BY <1>1, <1>2, <1>6, <2>1, ZenonT(30)
<1> QED BY <1>5, <1>6 DEF Handle

\* What the decision of a proposal does.
LEMMA DecidedStep ==
  ASSUME TInv, NEW pr \in proposals, Execute(pr) \/ Fail(pr)
  PROVE  /\ proposals' = proposals \ {pr} /\ pr \in Items
         /\ \E m \in Messages :
              /\ callbacks' = Append(callbacks, [m |-> m, object |-> pr.object])
              /\ m.type = pr.m.type
              /\ m.type = "MT_CREATE" /\ m.code = "RC_OK" => m.id \in executed'
         /\ executed' = executed \/ executed' = executed \cup {pr.m.id}
         /\ settled' = settled \/ settled' = settled \cup {pr.m.id}
<1> DEFINE Is(m) == callbacks' = Append(callbacks, [m |-> m, object |-> pr.object])
<1>1. pr \in Items /\ pr.m \in Messages /\ pr.m.session_id \in Nat  BY Parts, MessageTyped
<1>2. \A m : Decided(pr, m) => proposals' = proposals \ {pr} /\ Is(m)  BY DEF Decided
<1> HIDE DEF Is
<1>3. CASE Fail(pr)
  <2> DEFINE m == [pr.m EXCEPT !.session_id = 0, !.code = "RC_FAILED"]
  <2>1. m.type = pr.m.type /\ m.code = "RC_FAILED"  BY <1>1, SMT DEF Messages
  <2>2. m \in Messages
    <3>1. "RC_FAILED" \in Codes /\ 0 \in Nat  BY SMT DEF Codes
    <3> QED BY <1>1, <3>1, MessageTyped
  <2>3. Decided(pr, m) /\ (settled' = settled \/ settled' = settled \cup {pr.m.id})
    <3>1. settled \cup {} = settled  BY SMT
    <3> QED BY <1>3, <3>1 DEF Fail
  <2>4. executed' = executed  BY <1>3, PaxosFrame
  <2> HIDE DEF m
  <2> QED BY <1>1, <1>2, <2>1, <2>2, <2>3, <2>4 DEF Is
<1>4. CASE Execute(pr)
  <2> DEFINE ok == CreateSessionOK(db, pr.m.session_id, pr.m.version)
             m == [pr.m EXCEPT !.session_id = IF ok THEN pr.m.session_id ELSE 0,
                               !.version = instance + 1,
                               !.code = IF ok THEN "RC_OK" ELSE "RC_UNKNOWN"]
  <2>1. \/ pr.m.type = "MT_CONNECT" /\ Decided(pr, m) /\ UNCHANGED history
        \/ /\ pr.m.type = "MT_CREATE" /\ Decided(pr, pr.m)
           /\ executed' = executed \cup {pr.m.id} /\ settled' = settled \cup {pr.m.id}
        \/ /\ pr.m.type = "MT_CREATE" /\ Decided(pr, [pr.m EXCEPT !.code = "RC_NODE_EXISTS"])
           /\ executed' = executed /\ settled' = settled \cup {pr.m.id}
        \/ pr.m.type = "MT_CLOSE" /\ Decided(pr, pr.m) /\ UNCHANGED history
    BY <1>4 DEF Execute
  <2>2. m \in Messages /\ m.type = pr.m.type
    <3>1. instance + 1 \in Nat /\ 0 \in Nat /\ "RC_OK" \in Codes /\ "RC_UNKNOWN" \in Codes
      BY SMT DEF TInv, TypeOK, Codes
    <3>2. (IF ok THEN pr.m.session_id ELSE 0) \in Nat /\ (IF ok THEN "RC_OK" ELSE "RC_UNKNOWN") \in Codes
      BY <1>1, <3>1
    <3> HIDE DEF ok
    <3>3. m \in Messages  BY <1>1, <3>1, <3>2, MessageTyped
    <3>4. m.type = pr.m.type  BY <1>1 DEF Messages
    <3> QED BY <3>3, <3>4, SMT
  <2>3. UNCHANGED history => executed' = executed /\ settled' = settled  BY SMT DEF history
  <2>4. pr.m.id \in executed \cup {pr.m.id}  BY SMT
  <2> HIDE DEF m, ok
  <2>5. CASE pr.m.type = "MT_CONNECT" /\ Decided(pr, m) /\ UNCHANGED history
    <3>1. m.type # "MT_CREATE"  BY <2>2, <2>5, SMT
    <3> QED BY <1>1, <1>2, <2>2, <2>3, <2>5, <3>1 DEF Is
  <2>6. CASE /\ pr.m.type = "MT_CREATE" /\ Decided(pr, pr.m)
             /\ executed' = executed \cup {pr.m.id} /\ settled' = settled \cup {pr.m.id}
    BY <1>1, <1>2, <2>4, <2>6 DEF Is
  <2>7. CASE pr.m.type = "MT_CLOSE" /\ Decided(pr, pr.m) /\ UNCHANGED history
    <3>1. pr.m.type # "MT_CREATE"  BY <2>7, SMT
    <3> QED BY <1>1, <1>2, <2>3, <2>7, <3>1 DEF Is
  <2>8. CASE /\ pr.m.type = "MT_CREATE" /\ Decided(pr, [pr.m EXCEPT !.code = "RC_NODE_EXISTS"])
             /\ executed' = executed /\ settled' = settled \cup {pr.m.id}
    <3> DEFINE n == [pr.m EXCEPT !.code = "RC_NODE_EXISTS"]
    <3>1. n.type = pr.m.type /\ n.code = "RC_NODE_EXISTS"  BY <1>1, SMT DEF Messages
    <3>2. n \in Messages
      <4>1. "RC_NODE_EXISTS" \in Codes  BY SMT DEF Codes
      <4> QED BY <1>1, <4>1, MessageTyped
    <3>3. Decided(pr, n)  BY <2>8
    <3> HIDE DEF n
    <3>4. n.code # "RC_OK"  BY <3>1, SMT
    <3> QED BY <1>1, <1>2, <2>8, <3>1, <3>2, <3>3, <3>4 DEF Is
  <2> QED BY <2>1, <2>5, <2>6, <2>7, <2>8
<1> QED BY <1>3, <1>4

\* What the callback of a connect does: it binds the connection to session
\* object o, which is the one the server knows for the session or a new one.
Binds(k, sid, o, s) ==
  /\ session' = [session EXCEPT ![o] = s]
  /\ sessions' = Put(sessions, sid, o)
  /\ conn' = [conn EXCEPT ![k].session = o]
  /\ ~cleaning.held /\ s.pending_messages = <<>>
  /\ \/ sid \in DOMAIN sessions /\ o = sessions[sid] /\ s.last_finished = session[o].last_finished
     \/ o = k /\ s.last_finished

\* What the callback of a connect does: it answers, and it either fails the
\* connect or opens a session, the one of the map or a new one.
LEMMA ConnectStep ==
  ASSUME TInv, CallbackConnect
  PROVE  LET k == Head(callbacks).object
             sid == Head(callbacks).m.session_id
         IN  /\ work[CallbackThread] = Idle /\ callbacks # <<>> /\ callbacks' = Tail(callbacks)
             /\ Head(callbacks).m.type = "MT_CONNECT" /\ k \in Conn /\ sid \in Nat
             /\ \E x \in Tasks : /\ work' = [work EXCEPT ![CallbackThread] = x]
                                 /\ x.stage = "respond" /\ x.object = k
                                 /\ x.m.type = "MT_CONNECT"
             /\ \/ /\ conn' = [conn EXCEPT ![k].started = FALSE]
                   /\ session' = session /\ sessions' = sessions
                \/ \E o \in Conn, s \in Objects : Binds(k, sid, o, s)
<1> DEFINE m == Head(callbacks).m
           k == Head(callbacks).object
           sid == m.session_id
<1>1. work[CallbackThread] = Idle /\ callbacks # <<>> /\ callbacks' = Tail(callbacks)
      /\ m.type = "MT_CONNECT"
  BY DEF CallbackConnect
<1>2. m \in Messages /\ k \in Conn /\ sid \in Nat /\ m.version \in Nat
  BY <1>1, Parts, MessageTyped
<1> DEFINE Bind(o, s, code) ==
             /\ session' = [session EXCEPT ![o] = [s EXCEPT !.version = m.version]]
             /\ sessions' = Put(sessions, sid, o)
             /\ conn' = [conn EXCEPT ![k].session = o]
             /\ work' = [work EXCEPT ![CallbackThread] =
                           Work("respond", [m EXCEPT !.code = code], k, 0)]
<1>3. \/ /\ conn' = [conn EXCEPT ![k].started = FALSE]
         /\ work' = [work EXCEPT ![CallbackThread] = Work("respond", m, k, 0)]
         /\ session' = session /\ sessions' = sessions
      \/ /\ ~cleaning.held /\ sid \in DOMAIN sessions
         /\ Bind(sessions[sid], S!OnConnect(session[sessions[sid]], Lock(k)), "RC_RECONNECT")
      \/ /\ ~cleaning.held
         /\ Bind(k, S!NewSession(sid, m.version, Lock(k)), "RC_OK")
  BY DEF CallbackConnect
<1> HIDE DEF m, k, Bind
<1>4. \A y \in Messages : y.type = "MT_CONNECT" =>
        /\ Work("respond", y, k, 0) \in Tasks /\ Work("respond", y, k, 0).stage = "respond"
        /\ Work("respond", y, k, 0).object = k /\ Work("respond", y, k, 0).m.type = "MT_CONNECT"
  <2>1. \A y \in Messages : IsTask(Work("respond", y, k, 0), "respond", y, k)
    BY <1>2, NewTask
  <2> QED BY <2>1 DEF IsTask
<1>5. \A code \in {"RC_OK", "RC_RECONNECT"} :
        [m EXCEPT !.code = code] \in Messages /\ [m EXCEPT !.code = code].type = "MT_CONNECT"
  BY <1>1, <1>2, SMT DEF Messages, Codes
<1>6. \A o, s : \A code \in {"RC_OK", "RC_RECONNECT"} : Bind(o, s, code) =>
        \E x \in Tasks : /\ work' = [work EXCEPT ![CallbackThread] = x]
                         /\ x.stage = "respond" /\ x.object = k /\ x.m.type = "MT_CONNECT"
  BY <1>4, <1>5, ZenonT(30) DEF Bind
<1>7. \A s \in Objects : /\ [s EXCEPT !.version = m.version] \in Objects
                         /\ [s EXCEPT !.version = m.version].pending_messages = s.pending_messages
                         /\ [s EXCEPT !.version = m.version].last_finished = s.last_finished
  BY <1>2, ObjectTyped DEF Objects
<1>8. Lock(k) \in 0 .. MaxConn  BY <1>2, LockTyped, ThreadFacts
<1>9. CASE /\ conn' = [conn EXCEPT ![k].started = FALSE]
           /\ work' = [work EXCEPT ![CallbackThread] = Work("respond", m, k, 0)]
           /\ session' = session /\ sessions' = sessions
  <2>1. \E x \in Tasks : /\ work' = [work EXCEPT ![CallbackThread] = x]
                         /\ x.stage = "respond" /\ x.object = k /\ x.m.type = "MT_CONNECT"
    BY <1>1, <1>2, <1>4, <1>9
  <2> QED BY <1>1, <1>2, <1>9, <2>1 DEF m, k
<1>10. CASE /\ ~cleaning.held /\ sid \in DOMAIN sessions
            /\ Bind(sessions[sid], S!OnConnect(session[sessions[sid]], Lock(k)), "RC_RECONNECT")
  <2> DEFINE o == sessions[sid]
             s == S!OnConnect(session[o], Lock(k))
             v == [s EXCEPT !.version = m.version]
  <2>1. o \in Conn /\ session[o] \in Objects  BY <1>10, Parts
  <2>2. s \in Objects  BY <1>8, <2>1, ObjectTyped, NewMessageTyped
  <2>3. s.pending_messages = <<>> /\ s.last_finished = session[o].last_finished
    BY <2>1 DEF S!OnConnect, Objects
  <2>4. Bind(o, s, "RC_RECONNECT")  BY <1>10
  <2> HIDE DEF s
  <2>5. v \in Objects /\ v.pending_messages = <<>> /\ v.last_finished = session[o].last_finished
    BY <1>7, <2>2, <2>3
  <2>6. Binds(k, sid, o, v)  BY <1>10, <2>4, <2>5 DEF Bind, Binds
  <2> HIDE DEF v, o
  <2> QED BY <1>1, <1>2, <1>6, <2>1, <2>4, <2>5, <2>6 DEF m, k
<1>11. CASE /\ ~cleaning.held
            /\ Bind(k, S!NewSession(sid, m.version, Lock(k)), "RC_OK")
  <2> DEFINE s == S!NewSession(sid, m.version, Lock(k))
             v == [s EXCEPT !.version = m.version]
  <2>1. s \in Objects
    <3>1. session[k] \in Objects  BY <1>2, Parts
    <3> QED BY <1>2, <1>8, <3>1, ObjectTyped
  <2>2. s.pending_messages = <<>> /\ s.last_finished  BY DEF S!NewSession
  <2>3. Bind(k, s, "RC_OK")  BY <1>11
  <2> HIDE DEF s
  <2>4. v \in Objects /\ v.pending_messages = <<>> /\ v.last_finished
    BY <1>7, <2>1, <2>2
  <2>5. Binds(k, sid, k, v)  BY <1>11, <2>3, <2>4 DEF Bind, Binds
  <2> HIDE DEF v
  <2> QED BY <1>1, <1>2, <1>6, <2>3, <2>4, <2>5 DEF m, k
<1> QED BY <1>3, <1>9, <1>10, <1>11

\* Every step keeps the types.
LEMMA NextTyped == BelowFound /\ TInv /\ [Next]_vars => TInv'

<1>RequestTyped.
    ASSUME NEW c \in Clients, NEW type \in C!RequestType
    PROVE  /\ C!Request(c, type) \in Clients
           /\ C!Request(c, type).outgoing[Len(C!Request(c, type).outgoing)] \in Messages
           /\ C!TrySend(C!Request(c, type)) \in Seq(Messages)
  <2> USE <1>RequestTyped
  <2> DEFINE r == C!Message(type, c.message_id + 1, 0)
  <2>1. c.message_id + 1 \in Nat /\ r \in Messages  BY NewMessageTyped, SMT DEF Clients
  <2> HIDE DEF r
  <2>2. c.queue \in [C!RequestType -> Seq(Nat)] /\ c.outgoing \in Seq(Messages)
    BY SMT DEF Clients
  <2>3. [c.queue EXCEPT ![type] = Append(@, c.message_id + 1)] \in [C!RequestType -> Seq(Nat)]
    BY <2>1, <2>2, SMT
  <2>4. Append(c.outgoing, r) \in Seq(Messages) /\ Len(Append(c.outgoing, r)) = Len(c.outgoing) + 1
        /\ Append(c.outgoing, r)[Len(c.outgoing) + 1] = r
    BY <2>1, <2>2, SMT
  <2>5. /\ C!Request(c, type) \in Clients
        /\ C!Request(c, type).outgoing = Append(c.outgoing, r)
    BY <2>1, <2>3, <2>4 DEF Clients, C!Request, r
  <2> QED BY <2>1, <2>4, <2>5, SMT DEF C!TrySend

<1>OnConnectTyped.
    ASSUME NEW c \in Clients, NEW m \in Messages
    PROVE  /\ C!OnConnect(c, m) \in Clients
           /\ C!OnConnectSends(c, m) \in Seq(Messages)
  <2> USE <1>OnConnectTyped
  <2>1. 0 \in Nat  BY SMT
  <2>0. [c EXCEPT !.session_id = 0] \in Clients  BY <2>1 DEF Clients
  <2>2. C!ConnectMessage([c EXCEPT !.session_id = 0]) \in Messages  BY <2>0, ClientTyped
  <2>3. C!OnConnection([c EXCEPT !.session_id = 0]) \in Clients  BY <2>0, ClientTyped
  <2>4. m.session_id \in Nat  BY MessageTyped
  <2>5. \A d \in Clients : [d EXCEPT !.session_id = m.session_id] \in Clients
    BY <2>4 DEF Clients
  <2>6. [c EXCEPT !.can_send = TRUE, !.session_id = m.session_id] \in Clients
    BY <2>4 DEF Clients
  <2>7. c.outgoing \in Seq(Messages)  BY SMT DEF Clients
  <2> QED BY <2>2, <2>3, <2>5, <2>6, <2>7, SMT DEF C!OnConnect, C!OnConnectSends

<1>MapTyped.
    ASSUME NEW X, NEW Y, NEW f, IsMap(f, X, Y), NEW x \in X, NEW y \in Y
    PROVE  IsMap(Put(f, x, y), X, Y) /\ IsMap(Erase(f, x), X, Y) /\ IsMap(EmptyMap, X, Y)
  BY <1>MapTyped, SMT DEF IsMap, Put, Erase, EmptyMap

<1>NetworkTyped.
    ASSUME TInv, NEW k \in Conn, ServerCloses(k) \/ Freed(k) \/ ClientCloses(k)
    PROVE  TInv'
  <2> USE <1>NetworkTyped
  <2>1. conn' \in [Conn -> Connections]
    <3>1. conn \in [Conn -> Connections]  BY DEF TInv, TypeOK
    <3>2. NoMessage \in Messages  BY NewMessageTyped, SMT DEF NoMessage
    <3>3. CASE ServerCloses(k)  BY <3>1, <3>2, <3>3, ConnTyped DEF ServerCloses
    <3>4. CASE Freed(k)  BY <3>1, <3>2, <3>4, ConnTyped DEF Freed
    <3>5. CASE ClientCloses(k)  BY <3>1, <3>2, <3>5, ConnTyped DEF ClientCloses
    <3> QED BY <3>3, <3>4, <3>5
  <2>2. CASE ServerCloses(k)  BY <2>1, <2>2, NetworkFrame DEF TInv, TypeOK
  <2>3. CASE Freed(k)  BY <2>1, <2>3, NetworkFrame DEF TInv, TypeOK
  <2>4. CASE ClientCloses(k)
    <3>1. client' \in Clients  BY <2>4, ClientTyped DEF ClientCloses, TInv, TypeOK
    <3>2. link' \in 0 .. MaxConn  BY <2>4, ThreadFacts DEF ClientCloses
    <3> QED BY <2>1, <2>4, <3>1, <3>2, NetworkFrame DEF TInv, TypeOK
  <2> QED BY <2>2, <2>3, <2>4

<1>UserTyped.
    ASSUME TInv, User
    PROVE  TInv'
  <2> USE <1>UserTyped
  <2>1. client \in Clients /\ conn \in [Conn -> Connections] /\ link \in 0 .. MaxConn
        /\ issued \subseteq Messages
        /\ plan \in [requests : Seq(C!RequestType), pings : Nat, faults : SUBSET AllFaults]
    BY DEF TInv, TypeOK
  <2>2. CASE Connect
    <3>1. client' \in Clients /\ issued' \subseteq Messages
      BY <2>1, <2>2, ClientTyped DEF Connect
    <3> QED BY <2>2, <3>1, UserFrame DEF TInv, TypeOK
  <2>3. CASE Close
    <3>1. client' \in Clients /\ link' \in 0 .. MaxConn
      BY <2>1, <2>3, ClientTyped, ThreadFacts DEF Close
    <3>2. conn' \in [Conn -> Connections]
      <4>1. CASE link = 0  BY <2>1, <2>3, <4>1 DEF Close
      <4>2. CASE link # 0
        <5> DEFINE m == C!Message("MT_CLOSE", 0, 0)
                   cs == ClientSend(conn, link, <<m>>)
        <5>1. m \in Messages /\ link \in Conn  BY <2>1, <4>2, NewMessageTyped, ThreadFacts, SMT
        <5> HIDE DEF m
        <5>2. <<m>> \in Seq(Messages)  BY <5>1, SMT
        <5>3. cs \in [Conn -> Connections]  BY <2>1, <5>1, <5>2, ConnTyped
        <5>4. conn' = [cs EXCEPT ![link].cli = "closed", ![link].s2c = <<>>]
          BY <2>3, <4>2 DEF Close, m
        <5> HIDE DEF cs
        <5> QED BY <5>1, <5>3, <5>4, ConnTyped
      <4> QED BY <4>1, <4>2, SMT
    <3> QED BY <2>3, <3>1, <3>2, UserFrame DEF TInv, TypeOK
  <2>4. CASE Request
    <3> DEFINE type == Head(plan.requests)
               c == C!Request(client, type)
    <3>1. type \in C!RequestType /\ Tail(plan.requests) \in Seq(C!RequestType)
      <4>1. plan.requests \in Seq(C!RequestType) /\ plan.requests # <<>>
        BY <2>1, <2>4 DEF Request
      <4> QED BY <4>1, SMT
    <3>2. /\ client' = c /\ issued' = issued \cup {c.outgoing[Len(c.outgoing)]}
          /\ conn' = ClientSend(conn, link, C!TrySend(c))
          /\ plan' = [plan EXCEPT !.requests = Tail(@)]
      BY <2>4 DEF Request
    <3>3. c \in Clients /\ c.outgoing[Len(c.outgoing)] \in Messages
          /\ C!TrySend(c) \in Seq(Messages)
      BY <2>1, <3>1, <1>RequestTyped
    <3> HIDE DEF c
    <3>4. conn' \in [Conn -> Connections]
      <4>1. CASE link = 0  BY <2>1, <3>2, <4>1 DEF ClientSend
      <4>2. CASE link # 0
        <5>1. link \in Conn  BY <2>1, <4>2, ThreadFacts
        <5> QED BY <2>1, <3>2, <3>3, <5>1, ConnTyped
      <4> QED BY <4>1, <4>2, SMT
    <3>5. plan' \in [requests : Seq(C!RequestType), pings : Nat, faults : SUBSET AllFaults]
      BY <2>1, <3>1, <3>2
    <3>6. client' \in Clients /\ issued' \subseteq Messages  BY <2>1, <3>2, <3>3
    <3> QED BY <2>4, <3>4, <3>5, <3>6, UserFrame DEF TInv, TypeOK
  <2> QED BY <2>2, <2>3, <2>4 DEF User

<1>ClientLoopTyped.
    ASSUME BelowFound, TInv, ClientLoop
    PROVE  TInv'
  <2> USE <1>ClientLoopTyped
  <2>1. client \in Clients /\ conn \in [Conn -> Connections] /\ link \in 0 .. MaxConn
        /\ plan \in [requests : Seq(C!RequestType), pings : Nat, faults : SUBSET AllFaults]
    BY DEF TInv, TypeOK
  <2>2. CASE OnTimer
    <3> DEFINE m == C!Message("MT_PING", 0, 0)
    <3>1. m \in Messages /\ link \in Conn
      BY <2>1, <2>2, NewMessageTyped, ThreadFacts DEF OnTimer
    <3>2. conn' = ClientSend(conn, link, <<m>>)  BY <2>2 DEF OnTimer
    <3> HIDE DEF m
    <3>3. <<m>> \in Seq(Messages)  BY <3>1, SMT
    <3>4. conn' \in [Conn -> Connections]  BY <2>1, <3>1, <3>2, <3>3, ConnTyped
    <3>5. plan' \in [requests : Seq(C!RequestType), pings : Nat, faults : SUBSET AllFaults]
      <4>1. plan.pings \in Nat /\ plan.pings > 0  BY <2>1, <2>2 DEF OnTimer
      <4>2. plan.pings - 1 \in Nat  BY <4>1, SMT
      <4> QED BY <2>1, <2>2, <4>2 DEF OnTimer
    <3> QED BY <2>2, <3>4, <3>5, ClientLoopFrame DEF TInv, TypeOK
  <2>3. ASSUME NEW k \in Conn, OnConnection(k)  PROVE TInv'
    <3>1. client' \in Clients /\ C!ConnectMessage(client) \in Messages
      BY <2>1, <2>3, ClientTyped DEF OnConnection
    <3>2. conn' \in [Conn -> Connections]
      BY <2>1, <2>3, <3>1, ConnTyped DEF OnConnection
    <3>3. link' \in 0 .. MaxConn  BY <2>3, ThreadFacts DEF OnConnection
    <3> QED BY <2>3, <3>1, <3>2, <3>3, ClientLoopFrame DEF TInv, TypeOK
  <2>4. ASSUME NEW k \in Conn, ClientReceive(k)  PROVE TInv'
    <3> DEFINE m == Head(conn[k].s2c)
               cs == [conn EXCEPT ![k].s2c = Tail(@)]
    <3>1. conn[k].s2c # <<>>  BY <2>4 DEF ClientReceive
    <3>2. m \in Messages /\ cs \in [Conn -> Connections]  BY <2>1, <3>1, PopTyped
    <3>3. \/ /\ client' = C!OnConnect(client, m)
             /\ conn' = ClientSend(cs, k, C!OnConnectSends(client, m))
             /\ link' = k
          \/ /\ client' = C!OnClose(client) /\ link' = 0
             /\ conn' = [cs EXCEPT ![k].cli = "closed", ![k].s2c = <<>>]
          \/ /\ m.type \in C!RequestType /\ client' = C!OnReply(client, m)
             /\ conn' = cs /\ link' = k
          \/ client' = client /\ conn' = cs /\ link' = k
      BY <2>4 DEF ClientReceive
    <3> HIDE DEF m, cs
    <3>4. client' \in Clients  BY <2>1, <3>2, <3>3, ClientTyped, <1>OnConnectTyped, OnReplyOK
    <3>5. conn' \in [Conn -> Connections]
      <4>1. C!OnConnectSends(client, m) \in Seq(Messages)  BY <2>1, <3>2, <1>OnConnectTyped
      <4>2. /\ ClientSend(cs, k, C!OnConnectSends(client, m)) \in [Conn -> Connections]
            /\ [cs EXCEPT ![k].cli = "closed", ![k].s2c = <<>>] \in [Conn -> Connections]
        BY <3>2, <4>1, ConnTyped
      <4> QED BY <3>2, <3>3, <4>2
    <3>6. link' \in 0 .. MaxConn  BY <3>3, ThreadFacts
    <3> QED BY <2>4, <3>4, <3>5, <3>6, ClientLoopFrame DEF TInv, TypeOK
  <2> QED BY <2>2, <2>3, <2>4 DEF ClientLoop

\* The parts of Session(t): what happens to the thread's task.
<1>EnqueueTyped.
    ASSUME TInv, NEW t \in Thread, Enqueue(t)
    PROVE  TInv'
  <2> USE <1>EnqueueTyped
  <2> DEFINE o == work[t].object
  <2>1. work[t] \in Tasks /\ work[t].m \in Messages /\ o \in Conn /\ session[o] \in Objects
    <3>1. work[t].stage # "idle"  BY DEF Enqueue
    <3> QED BY <3>1, Parts
  <2>2. PICK x \in {[work[t] EXCEPT !.stage = "handle"], Idle} : work' = [work EXCEPT ![t] = x]
    BY DEF Enqueue
  <2>3. x \in Tasks /\ (x.stage # "idle" => x.object \in Conn)
    BY <2>1, <2>2, TaskGoesOn, IdleTask
  <2>4. session' \in [Conn -> Objects]
    <3>1. session \in [Conn -> Objects]  BY DEF TInv, TypeOK
    <3>2. session' = [session EXCEPT ![o] = S!Enqueue(session[o], work[t].m)]
      BY DEF Enqueue
    <3>3. S!Enqueue(session[o], work[t].m) \in Objects  BY <2>1, ObjectTyped
    <3> HIDE DEF o
    <3> QED BY <3>1, <3>2, <3>3
  <2>5. /\ work' \in [Thread -> Tasks]
        /\ \A u \in Thread : work'[u].stage # "idle" => work'[u].object \in Conn
    BY <2>2, <2>3, TaskSet
  <2> QED BY <2>4, <2>5, SessionFrame DEF TInv, TypeOK

<1>HandleTyped.
    ASSUME TInv, NEW t \in Thread, Handle(t)
    PROVE  TInv'
  <2> USE <1>HandleTyped
  <2>1. work[t] \in Tasks /\ work[t].m \in Messages /\ work[t].object \in Conn
        /\ work[t].m.id \in Nat
    BY HandleStep, Parts, MessageTyped
  <2>2. PICK x \in Tasks : /\ x.stage # "idle" => x.object \in Conn
                           /\ work' = [work EXCEPT ![t] = x]
    BY <2>1, HandleStep, TaskGoesOn, IdleTask
  <2>3. /\ work' \in [Thread -> Tasks]
        /\ \A u \in Thread : work'[u].stage # "idle" => work'[u].object \in Conn
    BY <2>2, TaskSet
  <2>4. settled' \subseteq Nat
    <3>1. settled' = settled \/ settled' = settled \cup ({work[t].m.id} \ {0})  BY HandleStep
    <3>2. settled \subseteq Nat  BY DEF TInv, TypeOK
    <3> QED BY <2>1, <3>1, <3>2
  <2>5. proposals' \subseteq Items
    <3>1. [m |-> work[t].m, object |-> work[t].object] \in Items  BY <2>1 DEF Items
    <3>2. \/ proposals' = proposals
          \/ proposals' = proposals \cup {[m |-> work[t].m, object |-> work[t].object]}
      BY HandleStep
    <3>3. proposals \subseteq Items  BY DEF TInv, TypeOK
    <3> QED BY <3>1, <3>2, <3>3
  <2> QED BY <2>3, <2>4, <2>5, SessionFrame DEF TInv, TypeOK

<1>DoneSendTyped.
    ASSUME TInv, NEW t \in Thread, DoneSend(t)
    PROVE  TInv'
  <2> USE <1>DoneSendTyped
  <2> DEFINE p == Lock(session[work[t].object].conn)
             m == work[t].m
             x == [work[t] EXCEPT !.stage = "sent", !.p = p]
  <2>1. work[t] \in Tasks /\ m \in Messages /\ work[t].object \in Conn
    <3>1. work[t].stage # "idle"  BY DEF DoneSend
    <3> QED BY <3>1, Parts
  <2>2. p \in 0 .. MaxConn /\ (p # 0 => p \in Conn)
    <3>1. session[work[t].object].conn \in 0 .. MaxConn  BY <2>1, Parts DEF Objects
    <3> QED BY <3>1, LockTyped
  <2>3. work' = [work EXCEPT ![t] = x] /\ (conn' = conn \/ conn' = ServerSend(conn, p, m))
    BY DEF DoneSend
  <2> HIDE DEF p, m
  <2>4. x \in Tasks /\ x.object = work[t].object  BY <2>1, <2>2, TaskGoesOn
  <2> HIDE DEF x
  <2>5. /\ work' \in [Thread -> Tasks]
        /\ \A u \in Thread : work'[u].stage # "idle" => work'[u].object \in Conn
    BY <2>1, <2>3, <2>4, TaskSet
  <2>6. conn' \in [Conn -> Connections]
    <3>1. conn \in [Conn -> Connections]  BY DEF TInv, TypeOK
    <3>2. p = 0 => ServerSend(conn, p, m) = conn  BY DEF ServerSend
    <3>3. p # 0 => ServerSend(conn, p, m) \in [Conn -> Connections]
      BY <2>1, <2>2, <3>1, ConnTyped
    <3> QED BY <2>3, <3>1, <3>2, <3>3
  <2> QED BY <2>5, <2>6, SessionFrame DEF TInv, TypeOK

<1>DoneFinishTyped.
    ASSUME TInv, NEW t \in Thread, DoneFinish(t)
    PROVE  TInv'
  <2> USE <1>DoneFinishTyped
  <2> DEFINE o == work[t].object
             m == work[t].m
             p == work[t].p
             item == [m |-> Head(session[o].pending_messages), object |-> o]
  <2>1. m \in Messages /\ o \in Conn /\ session[o] \in Objects /\ p \in 0 .. MaxConn
    <3>1. work[t].stage # "idle"  BY DEF DoneFinish
    <3> QED BY <3>1, Parts DEF Tasks
  <2>2. /\ session' = [session EXCEPT ![o] = S!Finish(session[o], m, p)]
        /\ functors' = IF S!HasNext(session[o], m, p)
                       THEN [functors EXCEPT ![p] = Append(functors[p], item)] ELSE functors
        /\ conn' = conn \/ (p # 0 /\ conn' = ForceClose(conn, p))
        /\ work' = [work EXCEPT ![t] = Idle]
    BY DEF DoneFinish
  <2>3. p # 0 => p \in Conn  BY <2>1, ThreadFacts
  <2>4. S!HasNext(session[o], m, p) => p # 0  BY DEF S!HasNext, S!GoesOn
  <2> HIDE DEF o, m, p
  <2>5. session' \in [Conn -> Objects]
    <3>1. session \in [Conn -> Objects]  BY DEF TInv, TypeOK
    <3>2. S!Finish(session[o], m, p) \in Objects  BY <2>1, ObjectTyped
    <3> QED BY <2>2, <3>1, <3>2
  <2>6. functors' \in [Conn -> Seq(Items)]
    <3>1. functors \in [Conn -> Seq(Items)]  BY DEF TInv, TypeOK
    <3>2. CASE S!HasNext(session[o], m, p)
      <4>1. Head(session[o].pending_messages) \in Messages  BY <2>1, <3>2, ObjectTyped
      <4>2. item \in Items  BY <2>1, <4>1 DEF Items
      <4> HIDE DEF item
      <4>3. functors[p] \in Seq(Items)  BY <2>3, <2>4, <3>1, <3>2
      <4>4. Append(functors[p], item) \in Seq(Items)  BY <4>2, <4>3, SMT
      <4> QED BY <2>2, <3>1, <3>2, <4>4
    <3> QED BY <2>2, <3>1, <3>2
  <2>7. conn' \in [Conn -> Connections]
    <3>1. conn \in [Conn -> Connections]  BY DEF TInv, TypeOK
    <3>2. p # 0 => ForceClose(conn, p) \in [Conn -> Connections]
      BY <2>1, <2>3, <3>1, ConnTyped
    <3> QED BY <2>2, <3>1, <3>2
  <2>8. /\ work' \in [Thread -> Tasks]
        /\ \A u \in Thread : work'[u].stage # "idle" => work'[u].object \in Conn
    BY <2>2, IdleTask, TaskSet
  <2> QED BY <2>5, <2>6, <2>7, <2>8, SessionFrame DEF TInv, TypeOK

<1>PaxosTyped.
    ASSUME TInv, NEW pr \in proposals, Execute(pr) \/ Fail(pr)
    PROVE  TInv'
  <2> USE <1>PaxosTyped
  <2>1. pr \in Items /\ pr.m \in Messages /\ pr.object \in Conn /\ pr.m.id \in Nat
        /\ pr.m.session_id \in Nat
    BY Parts, MessageTyped
  <2>2. proposals' \subseteq Items  BY DecidedStep DEF TInv, TypeOK
  <2>3. callbacks' \in Seq(Items)
    <3>1. PICK m \in Messages : callbacks' = Append(callbacks, [m |-> m, object |-> pr.object])
      BY DecidedStep
    <3>2. [m |-> m, object |-> pr.object] \in Items /\ callbacks \in Seq(Items)
      BY <2>1 DEF Items, TInv, TypeOK
    <3> DEFINE b == [m |-> m, object |-> pr.object]
    <3> HIDE DEF b
    <3>3. b \in Items /\ callbacks \in Seq(Items) /\ callbacks' = Append(callbacks, b)
      BY <3>1, <3>2 DEF b
    <3> QED BY <3>3, SMT
  <2>4. settled' \subseteq Nat /\ executed' \subseteq Nat
    <3>1. settled \subseteq Nat /\ executed \subseteq Nat  BY DEF TInv, TypeOK
    <3>2. /\ executed' = executed \/ executed' = executed \cup {pr.m.id}
          /\ settled' = settled \/ settled' = settled \cup {pr.m.id}
      BY DecidedStep
    <3> QED BY <2>1, <3>1, <3>2
  <2>5. CASE Fail(pr)  BY <2>2, <2>3, <2>4, <2>5, PaxosFrame DEF TInv, TypeOK
  <2>6. CASE Execute(pr)
    <3>1. instance' \in Nat
      <4>1. instance \in Nat /\ instance' = instance + 1  BY <2>6 DEF Execute, TInv, TypeOK
      <4> QED BY <4>1, SMT
    <3>2. instance' = instance + 1  BY <2>6 DEF Execute
    <3>3. IsMap(db', Nat, Nat)
      <4>1. \/ db' = CreateSession(db, pr.m.session_id, instance', pr.m.version)
            \/ db' = db
            \/ db' = CloseSession(db, pr.m.session_id, pr.m.version)
        BY <2>6, <3>2 DEF Execute
      <4>2. IsMap(db, Nat, Nat)  BY DEF TInv, TypeOK
      <4>3. IsMap(Put(db, pr.m.session_id, instance'), Nat, Nat) /\ IsMap(Erase(db, pr.m.session_id), Nat, Nat)
        BY <2>1, <3>1, <4>2, <1>MapTyped
      <4> QED BY <4>1, <4>2, <4>3 DEF CreateSession, CloseSession
    <3> QED BY <2>2, <2>3, <2>4, <2>6, <3>1, <3>3, PaxosFrame DEF TInv, TypeOK
  <2> QED BY <2>5, <2>6, SMT

<1>CallbackTyped.
    ASSUME TInv, Callback
    PROVE  TInv'
  <2> USE <1>CallbackTyped
  <2>1. conn \in [Conn -> Connections] /\ session \in [Conn -> Objects]
        /\ IsMap(sessions, Nat, Conn) /\ CallbackThread \in Thread
    BY ThreadFacts DEF TInv, TypeOK
  <2>2. CASE CallbackMessage
    <3> DEFINE b == Head(callbacks)
               x == Work("reply", b.m, b.object, 0)
    <3>1. callbacks # <<>> /\ callbacks' = Tail(callbacks)
          /\ work' = [work EXCEPT ![CallbackThread] = x]
      BY <2>2 DEF CallbackMessage
    <3>2. b.m \in Messages /\ b.object \in Conn /\ callbacks' \in Seq(Items)  BY <3>1, Parts
    <3>3. IsTask(x, "reply", b.m, b.object)  BY <3>2, NewTask
    <3> HIDE DEF x
    <3>4. /\ work' \in [Thread -> Tasks]
          /\ \A u \in Thread : work'[u].stage # "idle" => work'[u].object \in Conn
      BY <2>1, <3>1, <3>2, <3>3, TaskSet DEF IsTask
    <3> QED BY <2>2, <3>2, <3>4, CallbackFrame DEF TInv, TypeOK
  <2>3. CASE CallbackConnect
    <3> DEFINE k == Head(callbacks).object
               sid == Head(callbacks).m.session_id
    <3>1. callbacks' \in Seq(Items)  BY <2>3, ConnectStep, Parts
    <3>2. k \in Conn /\ sid \in Nat  BY <2>3, ConnectStep
    <3>3. PICK x \in Tasks : work' = [work EXCEPT ![CallbackThread] = x] /\ x.object = k
      BY <2>3, ConnectStep
    <3>4. /\ work' \in [Thread -> Tasks]
          /\ \A u \in Thread : work'[u].stage # "idle" => work'[u].object \in Conn
      BY <2>1, <3>2, <3>3, TaskSet
    <3>5. \/ conn' = [conn EXCEPT ![k].started = FALSE] /\ session' = session /\ sessions' = sessions
          \/ \E o \in Conn, s \in Objects : Binds(k, sid, o, s)
      BY <2>3, ConnectStep
    <3> HIDE DEF k, sid
    <3>6. conn' \in [Conn -> Connections] /\ session' \in [Conn -> Objects]
          /\ IsMap(sessions', Nat, Conn)
      <4>1. NoMessage \in Messages  BY NewMessageTyped, SMT DEF NoMessage
      <4>2. CASE conn' = [conn EXCEPT ![k].started = FALSE] /\ session' = session
                 /\ sessions' = sessions
        <5>1. [conn EXCEPT ![k].started = FALSE] \in [Conn -> Connections]
          BY <2>1, <3>2, <4>1, ConnTyped
        <5> QED BY <2>1, <4>2, <5>1
      <4>3. CASE \E o \in Conn, s \in Objects : Binds(k, sid, o, s)
        <5>1. PICK o \in Conn, s \in Objects : Binds(k, sid, o, s)  BY <4>3, SMT
        <5>2. [conn EXCEPT ![k].session = o] \in [Conn -> Connections]
          BY <2>1, <3>2, <4>1, ConnTyped
        <5>3. IsMap(Put(sessions, sid, o), Nat, Conn)  BY <2>1, <3>2, <1>MapTyped
        <5> QED BY <2>1, <5>1, <5>2, <5>3 DEF Binds
      <4> QED BY <3>5, <4>2, <4>3, SMT
    <3> QED BY <2>3, <3>1, <3>4, <3>6, CallbackFrame DEF TInv, TypeOK
  <2>4. CASE CallbackRespond
    <3> DEFINE w == work[CallbackThread]
               p == Lock(w.object)
    <3>1. conn' = ServerSend(conn, p, w.m) /\ work' = [work EXCEPT ![CallbackThread] = Idle]
          /\ w.stage # "idle"
      BY <2>4 DEF CallbackRespond
    <3>2. w.m \in Messages /\ w.object \in Conn  BY <2>1, <3>1, Parts
    <3>3. p # 0 => p \in Conn  BY <3>2, LockTyped, ThreadFacts
    <3>4. conn' \in [Conn -> Connections]
      <4>1. p = 0 => ServerSend(conn, p, w.m) = conn  BY DEF ServerSend
      <4>2. p # 0 => ServerSend(conn, p, w.m) \in [Conn -> Connections]
        BY <2>1, <3>2, <3>3, ConnTyped
      <4> QED BY <2>1, <3>1, <4>1, <4>2
    <3>5. /\ work' \in [Thread -> Tasks]
          /\ \A u \in Thread : work'[u].stage # "idle" => work'[u].object \in Conn
      BY <2>1, <3>1, IdleTask, TaskSet
    <3> QED BY <2>4, <3>4, <3>5, CallbackFrame DEF TInv, TypeOK
  <2> QED BY <2>2, <2>3, <2>4 DEF Callback

<1>MasterTyped.
    ASSUME TInv, LoseMaster \/ Clean
    PROVE  TInv'
  <2> USE <1>MasterTyped
  <2> DEFINE CT == [due : BOOLEAN, held : BOOLEAN, todo : SUBSET Conn, told : SUBSET Conn]
  <2>1. cleaning \in CT  BY DEF TInv, TypeOK
  <2>2. CASE LoseMaster
    <3>1. cleaning' \in CT /\ isMaster' \in BOOLEAN  BY <2>1, <2>2 DEF LoseMaster
    <3> QED BY <2>2, <3>1, MasterFrame DEF TInv, TypeOK
  <2>3. CASE CleanSessions
    <3>1. cleaning' \in CT
      <4>1. {sessions[sid] : sid \in DOMAIN sessions} \subseteq Conn  BY Parts
      <4> QED BY <2>3, <4>1 DEF CleanSessions
    <3> QED BY <2>3, <3>1, MasterFrame DEF TInv, TypeOK
  <2>4. ASSUME NEW o \in Conn, CleanNext(o)  PROVE TInv'
    <3> DEFINE m == C!Message("MT_MASTER", 0, 0)
               x == Work("checked", m, o, 0)
    <3>1. cleaning' \in CT
      <4>1. cleaning' = [cleaning EXCEPT !.todo = @ \ {o}, !.told = @ \cup {o}]
        BY <2>4 DEF CleanNext
      <4>2. cleaning.todo \ {o} \subseteq Conn /\ cleaning.told \cup {o} \subseteq Conn  BY <2>1
      <4> QED BY <2>1, <4>1, <4>2
    <3>2. work' = work \/ work' = [work EXCEPT ![RunLoopThread] = x]
      BY <2>4 DEF CleanNext
    <3>3. IsTask(x, "checked", m, o)
      <4>1. m \in Messages  BY NewMessageTyped, SMT
      <4> HIDE DEF m
      <4> QED BY <4>1, NewTask
    <3> HIDE DEF x
    <3>4. /\ work' \in [Thread -> Tasks]
          /\ \A u \in Thread : work'[u].stage # "idle" => work'[u].object \in Conn
      <4>1. CASE work' = work  BY <4>1 DEF TInv, TypeOK
      <4>2. CASE work' = [work EXCEPT ![RunLoopThread] = x]
        BY <3>3, <4>2, ThreadFacts, TaskSet DEF IsTask
      <4> QED BY <3>2, <4>1, <4>2, SMT
    <3> QED BY <2>4, <3>1, <3>4, MasterFrame DEF TInv, TypeOK
  <2>5. CASE CleanEnd
    <3>1. cleaning' \in CT  BY <2>1, <2>5 DEF CleanEnd
    <3>2. IsMap(sessions', Nat, Conn)
      <4>1. IsMap(EmptyMap, Nat, Conn)  BY SMT DEF IsMap, EmptyMap
      <4> QED BY <2>5, <4>1 DEF CleanEnd
    <3> QED BY <2>5, <3>1, <3>2, MasterFrame DEF TInv, TypeOK
  <2> QED BY <2>2, <2>3, <2>4, <2>5 DEF Clean

<1> SUFFICES ASSUME BelowFound, TInv, [Next]_vars PROVE TInv'  OBVIOUS
<1>1. CASE Network  BY <1>1, <1>NetworkTyped DEF Network
<1>2. ASSUME NEW k \in Conn, Loop(k)  PROVE TInv'
  BY <1>2, ReceiveConnectTyped, ReceiveTyped, RunFunctorTyped DEF Loop
<1>3. ASSUME NEW t \in Thread, Session(t)  PROVE TInv'
  BY <1>3, <1>EnqueueTyped, <1>HandleTyped, <1>DoneSendTyped, <1>DoneFinishTyped DEF Session
<1>4. CASE Paxos  BY <1>4, <1>PaxosTyped DEF Paxos
<1>5. CASE UNCHANGED vars
  <2>1. /\ client' = client /\ link' = link /\ plan' = plan /\ issued' = issued
        /\ conn' = conn /\ session' = session /\ sessions' = sessions
        /\ cleaning' = cleaning /\ work' = work /\ functors' = functors
        /\ proposals' = proposals /\ callbacks' = callbacks /\ db' = db
        /\ instance' = instance /\ nextSid' = nextSid /\ isMaster' = isMaster
        /\ settled' = settled /\ executed' = executed
    BY <1>5, SMT DEF vars, clientVars, serverVars, paxosVars, history
  <2> QED BY <2>1 DEF TInv, TypeOK
<1> QED BY <1>1, <1>2, <1>3, <1>4, <1>5, <1>UserTyped, <1>ClientLoopTyped, <1>CallbackTyped,
           <1>MasterTyped DEF Next

-----------------------------------------------------------------------------
(* Callbacks are made in order: the ids of a queue grow, they are above    *)
(* the ids of the calls already made for the type, and none is above       *)
(* message_id.                                                             *)

Calls == [id : Nat, type : C!RequestType, code : Codes]

QueueOK(q, calls, id, type) ==
  /\ \A i, j \in 1 .. Len(q) : i < j => q[i] < q[j]
  /\ \A i \in 1 .. Len(q) : q[i] <= id
  /\ \A i \in 1 .. Len(calls), j \in 1 .. Len(q) :
       calls[i].type = type => calls[i].id < q[j]

CallsOK(calls, id) ==
  /\ \A i \in 1 .. Len(calls) : calls[i].id <= id
  /\ \A i, j \in 1 .. Len(calls) :
       i < j /\ calls[i].type = calls[j].type => calls[i].id < calls[j].id

OrderedClient(c) ==
  /\ \A type \in C!RequestType : QueueOK(c.queue[type], c.calls, c.message_id, type)
  /\ CallsOK(c.calls, c.message_id)

\* calls are followed by calls for the first l of the queue q.
Follow(new, calls, q, l, type) ==
  /\ Len(new) = Len(calls) + l
  /\ \A i \in 1 .. Len(calls) : new[i] = calls[i]
  /\ \A i \in 1 .. l : new[Len(calls) + i].id = q[i] /\ new[Len(calls) + i].type = type

Called(new, calls, q, l, type) ==
  \A i \in 1 .. Len(new) :
    \/ i \in 1 .. Len(calls) /\ new[i] = calls[i]
    \/ \E j \in 1 .. l : new[i].id = q[j] /\ new[i].type = type

\* What a step does to the client.
LEMMA ClientStep ==
  ASSUME TInv, [Next]_vars
  PROVE  \/ client' = client
         \/ client' = C!ClearMessage(client)
         \/ client' = C!OnConnection(client)
         \/ client' = C!OnClose(client)
         \/ client' = C!OnClose([client EXCEPT !.has_started = FALSE])
         \/ \E type \in C!RequestType : client' = C!Request(client, type)
         \/ \E k \in Conn : /\ conn[k].s2c # <<>>
                            /\ \/ client' = C!OnConnect(client, Head(conn[k].s2c))
                               \/ /\ Head(conn[k].s2c).type \in C!RequestType
                                  /\ client' = C!OnReply(client, Head(conn[k].s2c))
<1>1. CASE Network  BY <1>1, NetworkFrame DEF Network, ClientCloses
<1>2. CASE User
  <2>1. CASE Request
    <3>1. plan.requests \in Seq(C!RequestType) /\ plan.requests # <<>>
      BY <2>1 DEF Request, TInv, TypeOK
    <3>2. Head(plan.requests) \in C!RequestType  BY <3>1, SMT
    <3> QED BY <2>1, <3>2 DEF Request
  <2> QED BY <1>2, <2>1 DEF User, Connect, Close
<1>3. CASE ClientLoop
  <2>1. CASE OnTimer  BY <2>1, ClientLoopFrame
  <2>2. ASSUME NEW k \in Conn, OnConnection(k)  PROVE client' = C!OnConnection(client)
    BY <2>2 DEF OnConnection
  <2>3. ASSUME NEW k \in Conn, ClientReceive(k)
        PROVE  /\ conn[k].s2c # <<>>
               /\ \/ client' = C!OnConnect(client, Head(conn[k].s2c))
                  \/ client' = C!OnClose(client)
                  \/ client' = client
                  \/ /\ Head(conn[k].s2c).type \in C!RequestType
                     /\ client' = C!OnReply(client, Head(conn[k].s2c))
    BY <2>3 DEF ClientReceive
  <2> QED BY <1>3, <2>1, <2>2, <2>3 DEF ClientLoop
<1>4. CASE Callback
  BY <1>4, CallbackFrame DEF Callback
<1>5. CASE Paxos  BY <1>5, PaxosFrame DEF Paxos
<1>6. CASE LoseMaster \/ Clean
  BY <1>6, MasterFrame DEF Clean
<1>7. ASSUME NEW k \in Conn, Loop(k)  PROVE client' = client
  BY <1>7, LoopFrame DEF Loop
<1>8. ASSUME NEW t \in Thread, Session(t)  PROVE client' = client
  BY <1>8, SessionFrame DEF Session
<1>9. CASE UNCHANGED vars  BY <1>9, SMT DEF vars, clientVars
<1> QED BY <1>1, <1>2, <1>3, <1>4, <1>5, <1>6, <1>7, <1>8, <1>9, ZenonT(30) DEF Next

\* Every step keeps the requests of the client in order.
LEMMA OrderedNext ==
  BelowFound /\ TInv /\ OrderedClient(client) /\ [Next]_vars
  => OrderedClient(client')

<1>QueueGrows.
    ASSUME NEW q \in Seq(Nat), NEW calls \in Seq(Calls), NEW id \in Nat, NEW type,
           QueueOK(q, calls, id, type), CallsOK(calls, id)
    PROVE  /\ QueueOK(Append(q, id + 1), calls, id + 1, type)
           /\ QueueOK(q, calls, id + 1, type)
           /\ QueueOK(<<>>, calls, id, type)
           /\ CallsOK(calls, id + 1)
  <2> USE <1>QueueGrows
  <2>1. \A i \in 1 .. Len(calls) : calls[i].id \in Nat
    <3>1. \A i \in 1 .. Len(calls) : calls[i] \in Calls  BY SMT
    <3> QED BY <3>1 DEF Calls
  <2>0. \A x \in Nat : x <= id => x <= id + 1 /\ x < id + 1  BY SMT
  <2>2. CallsOK(calls, id + 1)  BY <2>0, <2>1 DEF CallsOK
  <2>3. Len(q) \in Nat /\ \A i \in 1 .. Len(q) : q[i] \in Nat  BY SMT
  <2>4. QueueOK(q, calls, id + 1, type)  BY <2>0, <2>3 DEF QueueOK
  <2>5. QueueOK(<<>>, calls, id, type)  BY SMT DEF QueueOK
  <2>6. QueueOK(Append(q, id + 1), calls, id + 1, type)
    <3> DEFINE r == Append(q, id + 1)
    <3>1. Len(r) = Len(q) + 1 /\ r[Len(q) + 1] = id + 1 /\ \A i \in 1 .. Len(q) : r[i] = q[i]
      BY SMT
    <3> HIDE DEF r
    <3>2. \A i \in 1 .. Len(r) : i \in 1 .. Len(q) \/ i = Len(q) + 1  BY <2>3, <3>1, SMT
    <3>3. \A i, j \in 1 .. Len(r) : i < j => i \in 1 .. Len(q)  BY <2>3, <3>1, SMT
    <3>4. id + 1 <= id + 1  BY SMT
    <3>5. \A i, j \in 1 .. Len(r) : i < j => r[i] < r[j]
      BY <2>0, <2>3, <3>1, <3>2, <3>3 DEF QueueOK
    <3>6. \A i \in 1 .. Len(r) : r[i] <= id + 1
      BY <2>0, <2>3, <3>1, <3>2, <3>4 DEF QueueOK
    <3>7. \A i \in 1 .. Len(calls), j \in 1 .. Len(r) :
            calls[i].type = type => calls[i].id < r[j]
      BY <2>0, <2>1, <3>1, <3>2 DEF QueueOK, CallsOK
    <3>8. QueueOK(r, calls, id + 1, type)  BY <3>5, <3>6, <3>7 DEF QueueOK
    <3> QED BY <3>8 DEF r
  <2> QED BY <2>2, <2>4, <2>5, <2>6

<1>CallsGrow.
    ASSUME NEW q \in Seq(Nat), NEW calls \in Seq(Calls), NEW id \in Nat, NEW type,
           QueueOK(q, calls, id, type), CallsOK(calls, id),
           NEW l \in Nat, l <= Len(q), NEW new \in Seq(Calls), Follow(new, calls, q, l, type)
    PROVE  CallsOK(new, id) /\ Called(new, calls, q, l, type)
  <2> USE <1>CallsGrow
  <2>1. \A i \in 1 .. Len(new) : i \in 1 .. Len(calls) \/ \E j \in 1 .. l : i = Len(calls) + j
    <3>1. SUFFICES ASSUME NEW i \in 1 .. Len(new), ~(i \in 1 .. Len(calls))
                   PROVE  \E j \in 1 .. l : i = Len(calls) + j
      OBVIOUS
    <3>2. i - Len(calls) \in 1 .. l /\ i = Len(calls) + (i - Len(calls))  BY <3>1, SMT DEF Follow
    <3> QED BY <3>2
  <2>2. \A i \in 1 .. Len(calls) : calls[i].id \in Nat
    <3>1. \A i \in 1 .. Len(calls) : calls[i] \in Calls  BY SMT
    <3> QED BY <3>1 DEF Calls
  <2>3. Len(calls) \in Nat /\ \A i \in 1 .. l : i \in 1 .. Len(q) /\ q[i] \in Nat  BY SMT
  <2>4. \A i \in 1 .. Len(new) :
          \/ i \in 1 .. Len(calls) /\ new[i] = calls[i]
          \/ \E j \in 1 .. l : i = Len(calls) + j /\ new[i].id = q[j] /\ new[i].type = type
    BY <2>1, ZenonT(30) DEF Follow
  <2>5. \A i \in 1 .. Len(new) : new[i].id <= id
    BY <2>2, <2>3, <2>4 DEF QueueOK, CallsOK
  <2>6. ASSUME NEW i \in 1 .. Len(new), NEW j \in 1 .. Len(new), i < j,
               new[i].type = new[j].type
        PROVE  new[i].id < new[j].id
    <3>1. CASE j \in 1 .. Len(calls)
      <4>1. i \in 1 .. Len(calls)  BY <2>3, <2>6, <3>1, SMT
      <4> QED BY <2>6, <3>1, <4>1 DEF Follow, CallsOK
    <3>2. CASE ~(j \in 1 .. Len(calls))
      <4>1. PICK b \in 1 .. l : j = Len(calls) + b /\ new[j].id = q[b] /\ new[j].type = type
        BY <2>4, <3>2
      <4>2. CASE i \in 1 .. Len(calls)
        <5>1. new[i] = calls[i] /\ b \in 1 .. Len(q)  BY <2>3, <4>2, SMTT(30) DEF Follow
        <5>2. calls[i].type = type  BY <2>6, <4>1, <5>1, SMT
        <5>3. calls[i].id < q[b]  BY <4>2, <5>1, <5>2, SMTT(30) DEF QueueOK
        <5> QED BY <4>1, <5>1, <5>3, SMT
      <4>3. CASE ~(i \in 1 .. Len(calls))
        <5>1. PICK a \in 1 .. l : i = Len(calls) + a /\ new[i].id = q[a]  BY <2>4, <4>3, ZenonT(30)
        <5>2. a < b /\ a \in 1 .. Len(q) /\ b \in 1 .. Len(q)  BY <2>3, <2>6, <4>1, <5>1, SMT
        <5> QED BY <4>1, <5>1, <5>2, SMTT(30) DEF QueueOK
      <4> QED BY <4>2, <4>3, SMT
    <3> QED BY <3>1, <3>2, SMT
  <2> QED BY <2>4, <2>5, <2>6 DEF CallsOK, Called

<1>ReplyOrdered.
    ASSUME BelowFound, NEW c \in Clients, NEW m \in Messages, m.type \in C!RequestType,
           OrderedClient(c)
    PROVE  OrderedClient(C!OnReply(c, m))
  <2> USE <1>ReplyOrdered
  <2> DEFINE type == m.type
             d == C!OnReply(c, m)
             q == c.queue[type]
             r == d.queue[type]
             id == c.message_id
  <2>1. d \in Clients /\ d.message_id = id
        /\ \A u \in C!RequestType \ {type} : d.queue[u] = c.queue[u]
    BY OnReplyOK
  <2>2. PICK n, l \in Nat :
          /\ l <= n /\ l <= Len(q)
          /\ Len(r) = IF n < Len(q) THEN Len(q) - n ELSE 0
          /\ \A i \in 1 .. Len(r) : r[i] = q[n + i]
          /\ Follow(d.calls, c.calls, q, l, type)
    <3>1. CalledBack(q, c.calls, m, r, d.calls)  BY OnReplyOK
    <3> HIDE DEF d, q, r
    <3> QED BY <3>1 DEF Follow, CalledBack
  <2>3. c.queue \in [C!RequestType -> Seq(Nat)] /\ d.queue \in [C!RequestType -> Seq(Nat)]
        /\ c.calls \in Seq(Calls) /\ d.calls \in Seq(Calls) /\ id \in Nat
    BY <2>1 DEF Clients, Calls
  <2>4. q \in Seq(Nat) /\ r \in Seq(Nat)  BY <2>3
  <2>5. QueueOK(q, c.calls, id, type) /\ CallsOK(c.calls, id)  BY DEF OrderedClient
  <2> HIDE DEF d
  <2>6. CallsOK(d.calls, id) /\ Called(d.calls, c.calls, q, l, type)
    <3>1. l \in Nat /\ l <= Len(q) /\ Follow(d.calls, c.calls, q, l, type)  BY <2>2
    <3> HIDE DEF q, type, id
    <3> QED BY <2>3, <2>4, <2>5, <3>1, <1>CallsGrow
  <2>7. QueueOK(r, d.calls, id, type)
    <3> HIDE DEF q, r, type, id
    <3>0. Len(q) \in Nat /\ Len(r) \in Nat /\ \A i \in 1 .. Len(q) : q[i] \in Nat  BY <2>4, SMTT(30)
    <3>1. \A i \in 1 .. Len(r) : n + i \in 1 .. Len(q) /\ r[i] = q[n + i] /\ \A j \in 1 .. l : j < n + i
      BY <2>2, <3>0, SMT
    <3>2. \A i, j \in 1 .. Len(r) : i < j => n + i < n + j  BY <3>0, SMT
    <3>3. \A i, j \in 1 .. Len(r) : i < j => r[i] < r[j]
      BY <2>5, <3>1, <3>2 DEF QueueOK
    <3>4. \A i \in 1 .. Len(r) : r[i] <= id  BY <2>5, <3>1 DEF QueueOK
    <3>5. \A j \in 1 .. l : j \in 1 .. Len(q)  BY <2>2, <3>0, SMT
    <3>6. \A i \in 1 .. Len(d.calls), j \in 1 .. Len(r) :
            d.calls[i].type = type => d.calls[i].id < r[j]
      BY <2>5, <2>6, <3>1, <3>5 DEF QueueOK, Called
    <3> QED BY <3>3, <3>4, <3>6 DEF QueueOK
  <2>8. ASSUME NEW u \in C!RequestType, u # type
        PROVE  QueueOK(d.queue[u], d.calls, id, u)
    <3>1. QueueOK(c.queue[u], c.calls, id, u) /\ d.queue[u] = c.queue[u]
      BY <2>1, <2>8 DEF OrderedClient
    <3>2. \A i \in 1 .. Len(d.calls) : d.calls[i].type = u =>
            i \in 1 .. Len(c.calls) /\ d.calls[i] = c.calls[i]
      BY <2>6, <2>8 DEF Called
    <3> QED BY <3>1, <3>2 DEF QueueOK
  <2> QED BY <2>1, <2>6, <2>7, <2>8 DEF OrderedClient, d

<1>RequestOrdered.
    ASSUME NEW c \in Clients, NEW type \in C!RequestType, OrderedClient(c)
    PROVE  OrderedClient(C!Request(c, type))
  <2> USE <1>RequestOrdered
  <2> DEFINE id == c.message_id
             d == C!Request(c, type)
  <2>1. c.queue \in [C!RequestType -> Seq(Nat)] /\ c.calls \in Seq(Calls) /\ id \in Nat
    BY DEF Clients, Calls
  <2>2. d.message_id = id + 1 /\ d.calls = c.calls
        /\ d.queue = [c.queue EXCEPT ![type] = Append(c.queue[type], id + 1)]
    BY DEF C!Request, Clients
  <2>3. \A u \in C!RequestType :
          /\ QueueOK(Append(c.queue[u], id + 1), c.calls, id + 1, u)
          /\ QueueOK(c.queue[u], c.calls, id + 1, u)
          /\ CallsOK(c.calls, id + 1)
    BY <2>1, <1>QueueGrows DEF OrderedClient
  <2> HIDE DEF d
  <2>4. \A u \in C!RequestType : d.queue[u] = IF u = type THEN Append(c.queue[u], id + 1) ELSE c.queue[u]
    BY <2>1, <2>2
  <2>5. CallsOK(c.calls, id + 1)  BY <2>3
  <2> QED BY <2>2, <2>3, <2>4, <2>5 DEF OrderedClient, d

\* The other operations: message_id may grow, and the queues may be cleared.
<1>KeepsOrdered.
    ASSUME NEW c \in Clients, NEW d, OrderedClient(c), d.calls = c.calls,
           d.message_id = c.message_id \/ d.message_id = c.message_id + 1,
           d.queue = c.queue \/ (d.queue = [t \in C!RequestType |-> <<>>]
                                 /\ d.message_id = c.message_id)
    PROVE  OrderedClient(d)
  <2> USE <1>KeepsOrdered
  <2> DEFINE id == c.message_id
  <2>1. c.queue \in [C!RequestType -> Seq(Nat)] /\ c.calls \in Seq(Calls) /\ id \in Nat
    BY DEF Clients, Calls
  <2>2. \A u \in C!RequestType :
          /\ QueueOK(c.queue[u], c.calls, id, u) /\ QueueOK(c.queue[u], c.calls, id + 1, u)
          /\ QueueOK(<<>>, c.calls, id, u) /\ CallsOK(c.calls, id) /\ CallsOK(c.calls, id + 1)
    BY <2>1, <1>QueueGrows DEF OrderedClient
  <2>3. "MT_CREATE" \in C!RequestType  BY SMT DEF C!RequestType
  <2>4. CallsOK(d.calls, d.message_id)  BY <2>2, <2>3
  <2>5. \A u \in C!RequestType : QueueOK(d.queue[u], d.calls, d.message_id, u)  BY <2>2
  <2> QED BY <2>4, <2>5 DEF OrderedClient

<1> SUFFICES ASSUME BelowFound, TInv, OrderedClient(client), [Next]_vars
    PROVE  OrderedClient(client')
  OBVIOUS
<1>1. client \in Clients  BY DEF TInv, TypeOK
<1>2. CASE client' = client  BY <1>2
<1>3. CASE \E type \in C!RequestType : client' = C!Request(client, type)
  BY <1>1, <1>3, <1>RequestOrdered
<1>4. ASSUME NEW k \in Conn, conn[k].s2c # <<>>, Head(conn[k].s2c).type \in C!RequestType,
             client' = C!OnReply(client, Head(conn[k].s2c))
      PROVE  OrderedClient(client')
  <2>1. Head(conn[k].s2c) \in Messages  BY <1>4, PopTyped DEF TInv, TypeOK
  <2> QED BY <1>1, <1>4, <2>1, <1>ReplyOrdered
<1>5. CASE client' = C!ClearMessage(client)
  <2>1. /\ client'.calls = client.calls /\ client'.message_id = client.message_id
        /\ client'.queue = [t \in C!RequestType |-> <<>>]
    BY <1>1, <1>5 DEF C!ClearMessage, Clients
  <2> QED BY <1>1, <2>1, <1>KeepsOrdered
<1>6. CASE client' = C!OnConnection(client)
  <2>1. /\ client'.calls = client.calls /\ client'.message_id = client.message_id + 1
        /\ client'.queue = client.queue
    BY <1>1, <1>6 DEF C!OnConnection, Clients
  <2> QED BY <1>1, <2>1, <1>KeepsOrdered
<1>7. CASE client' = C!OnClose(client) \/ client' = C!OnClose([client EXCEPT !.has_started = FALSE])
  <2>1. /\ client'.calls = client.calls /\ client'.message_id = client.message_id
        /\ client'.queue = client.queue
    BY <1>1, <1>7 DEF C!OnClose, Clients
  <2> QED BY <1>1, <2>1, <1>KeepsOrdered
<1>8. ASSUME NEW m, client' = C!OnConnect(client, m)  PROVE OrderedClient(client')
  <2>1. /\ client'.calls = client.calls
        /\ client'.message_id = client.message_id \/ client'.message_id = client.message_id + 1
        /\ client'.queue = client.queue
    BY <1>1, <1>8 DEF C!OnConnect, C!OnConnection, Clients
  <2> QED BY <1>1, <2>1, <1>KeepsOrdered
<1> QED BY <1>2, <1>3, <1>4, <1>5, <1>6, <1>7, <1>8, ClientStep

-----------------------------------------------------------------------------
(* A reply with RC_OK to a write is made only when the write has been      *)
(* executed; X stands for the writes executed.                             *)

Honest(m, X) == m.type = "MT_CREATE" /\ m.code = "RC_OK" => m.id \in X

HonestSeq(q, X) == \A i \in 1 .. Len(q) : Honest(q[i], X)
HonestItems(q, X) == \A i \in 1 .. Len(q) : Honest(q[i].m, X)
HonestConns(cs, X) == \A k \in Conn : HonestSeq(cs[k].s2c, X)
HonestTask(x, X) ==
  /\ x.stage \in {"reply", "sent"} => Honest(x.m, X)
  /\ x.stage = "respond" => x.m.type = "MT_CONNECT"

HInv ==
  /\ \A t \in Thread : HonestTask(work[t], executed)
  /\ HonestItems(callbacks, executed) /\ HonestConns(conn, executed)
  /\ HonestSeq(client.calls, executed)

\* Every step keeps the replies honest: an RC_OK to a create that is under way
\* stands for one that was executed.
LEMMA HonestNext == BelowFound /\ TInv /\ HInv /\ [Next]_vars => HInv'

<1>HonestGrows.
    ASSUME NEW X, NEW Y, X \subseteq Y
    PROVE  /\ \A m : Honest(m, X) => Honest(m, Y)
           /\ \A q : HonestSeq(q, X) => HonestSeq(q, Y)
           /\ \A q : HonestItems(q, X) => HonestItems(q, Y)
           /\ \A cs : HonestConns(cs, X) => HonestConns(cs, Y)
           /\ \A x : HonestTask(x, X) => HonestTask(x, Y)
  <2> USE <1>HonestGrows
  <2>1. \A m : Honest(m, X) => Honest(m, Y)  BY DEF Honest
  <2>2. \A q : HonestSeq(q, X) => HonestSeq(q, Y)  BY <2>1 DEF HonestSeq
  <2> QED BY <2>1, <2>2 DEF HonestItems, HonestConns, HonestTask

<1>HonestQueue.
    ASSUME NEW Y, NEW X, NEW q \in Seq(Y), HonestSeq(q, X), NEW m \in Y
    PROVE  /\ Honest(m, X) => HonestSeq(Append(q, m), X)
           /\ HonestSeq(<<>>, X)
           /\ q # <<>> => HonestSeq(Tail(q), X) /\ Honest(Head(q), X)
  <2> USE <1>HonestQueue
  <2>1. Honest(m, X) => HonestSeq(Append(q, m), X)
    <3> SUFFICES ASSUME Honest(m, X), NEW i \in 1 .. Len(Append(q, m))
                 PROVE  Honest(Append(q, m)[i], X)
      BY DEF HonestSeq
    <3>1. \/ i \in 1 .. Len(q) /\ Append(q, m)[i] = q[i]
          \/ Append(q, m)[i] = m
      BY SMT
    <3> QED BY <3>1 DEF HonestSeq
  <2>2. HonestSeq(<<>>, X)  BY SMT DEF HonestSeq
  <2>3. ASSUME q # <<>>  PROVE HonestSeq(Tail(q), X) /\ Honest(Head(q), X)
    <3>1. 1 \in 1 .. Len(q) /\ Head(q) = q[1]  BY <2>3, SMT
    <3>2. \A i \in 1 .. Len(Tail(q)) : i + 1 \in 1 .. Len(q) /\ Tail(q)[i] = q[i + 1]
      BY <2>3, SMT
    <3> QED BY <3>1, <3>2 DEF HonestSeq
  <2> QED BY <2>1, <2>2, <2>3

<1>HonestCallbacks.
    ASSUME NEW X, NEW q \in Seq(Items), HonestItems(q, X), NEW b \in Items
    PROVE  /\ Honest(b.m, X) => HonestItems(Append(q, b), X)
           /\ q # <<>> => HonestItems(Tail(q), X) /\ Honest(Head(q).m, X)
  <2> USE <1>HonestCallbacks
  <2>1. Honest(b.m, X) => HonestItems(Append(q, b), X)
    <3> SUFFICES ASSUME Honest(b.m, X), NEW i \in 1 .. Len(Append(q, b))
                 PROVE  Honest(Append(q, b)[i].m, X)
      BY DEF HonestItems
    <3>1. \/ i \in 1 .. Len(q) /\ Append(q, b)[i] = q[i]
          \/ Append(q, b)[i] = b
      BY SMT
    <3> QED BY <3>1 DEF HonestItems
  <2>2. ASSUME q # <<>>  PROVE HonestItems(Tail(q), X) /\ Honest(Head(q).m, X)
    <3>1. 1 \in 1 .. Len(q) /\ Head(q) = q[1]  BY <2>2, SMT
    <3>2. \A i \in 1 .. Len(Tail(q)) : i + 1 \in 1 .. Len(q) /\ Tail(q)[i] = q[i + 1]
      BY <2>2, SMT
    <3> QED BY <3>1, <3>2 DEF HonestItems
  <2> QED BY <2>1, <2>2

<1>HonestConnection.
    ASSUME NEW X, NEW cs \in [Conn -> Connections], HonestConns(cs, X), NEW k \in Conn,
           NEW m \in Messages
    PROVE  /\ Honest(m, X) => HonestConns(ServerSend(cs, k, m), X)
           /\ HonestConns(ForceClose(cs, k), X)
           /\ \A ms : HonestConns(ClientSend(cs, k, ms), X)
           /\ HonestConns([cs EXCEPT ![k].srv = "closed", ![k].c2s = <<>>], X)
           /\ HonestConns([cs EXCEPT ![k].srv = "freed"], X)
           /\ HonestConns([cs EXCEPT ![k].cli = "closed", ![k].s2c = <<>>], X)
           /\ HonestConns([cs EXCEPT ![k].cli = "open", ![k].srv = "open", ![k].c2s = <<m>>], X)
           /\ \A b : HonestConns([cs EXCEPT ![k].started = b], X)
           /\ \A o : HonestConns([cs EXCEPT ![k].session = o], X)
           /\ \A q : HonestConns([cs EXCEPT ![k].c2s = q], X)
           /\ cs[k].s2c # <<>> => /\ HonestConns([cs EXCEPT ![k].s2c = Tail(@)], X)
                                 /\ Honest(Head(cs[k].s2c), X)
  <2> USE <1>HonestConnection
  <2>1. cs[k] \in Connections /\ \A j \in Conn : HonestSeq(cs[j].s2c, X)  BY DEF HonestConns
  <2>2. ASSUME NEW c, HonestSeq(c.s2c, X)
        PROVE  HonestConns([cs EXCEPT ![k] = c], X)
    BY <2>1, <2>2 DEF HonestConns
  <2>3. cs[k].s2c \in Seq(Messages)  BY <2>1 DEF Connections
  <2>4. /\ Honest(m, X) => HonestSeq(Append(cs[k].s2c, m), X)
        /\ HonestSeq(<<>>, X)
        /\ cs[k].s2c # <<>> => HonestSeq(Tail(cs[k].s2c), X) /\ Honest(Head(cs[k].s2c), X)
    BY <2>1, <2>3, <1>HonestQueue
  <2>5. Honest(m, X) => HonestConns(ServerSend(cs, k, m), X)
    BY <2>1, <2>2, <2>4 DEF ServerSend, Connections
  <2>6. HonestConns(ForceClose(cs, k), X)
    BY <2>1, <2>2 DEF ForceClose, Connections, HonestConns
  <2>7. \A ms : HonestConns(ClientSend(cs, k, ms), X)
    BY <2>1, <2>2 DEF ClientSend, Connections, HonestConns
  <2>8. HonestConns([cs EXCEPT ![k].srv = "closed", ![k].c2s = <<>>], X)
    BY <2>1, <2>2 DEF Connections
  <2>9. HonestConns([cs EXCEPT ![k].srv = "freed"], X)  BY <2>1, <2>2 DEF Connections
  <2>10. HonestConns([cs EXCEPT ![k].cli = "closed", ![k].s2c = <<>>], X)
    BY <2>1, <2>2, <2>4 DEF Connections
  <2>11. HonestConns([cs EXCEPT ![k].cli = "open", ![k].srv = "open", ![k].c2s = <<m>>], X)
    BY <2>1, <2>2 DEF Connections
  <2>12. \A b : HonestConns([cs EXCEPT ![k].started = b], X)  BY <2>1, <2>2 DEF Connections
  <2>13. \A o : HonestConns([cs EXCEPT ![k].session = o], X)  BY <2>1, <2>2 DEF Connections
  <2>14. \A q : HonestConns([cs EXCEPT ![k].c2s = q], X)  BY <2>1, <2>2 DEF Connections
  <2>15. cs[k].s2c # <<>> => /\ HonestConns([cs EXCEPT ![k].s2c = Tail(@)], X)
                            /\ Honest(Head(cs[k].s2c), X)
    BY <2>1, <2>2, <2>4 DEF Connections
  <2> QED BY <2>5, <2>6, <2>7, <2>8, <2>9, <2>10, <2>11, <2>12, <2>13, <2>14, <2>15, ZenonT(30)

<1>HonestReply.
    ASSUME BelowFound, NEW X, NEW c \in Clients, NEW m \in Messages, m.type \in C!RequestType,
           HonestSeq(c.calls, X), Honest(m, X)
    PROVE  HonestSeq(C!OnReply(c, m).calls, X)
  <2> USE <1>HonestReply
  <2> DEFINE d == C!OnReply(c, m)
             q == c.queue[m.type]
  <2>1. PICK n, l \in Nat :
          /\ Len(d.calls) = Len(c.calls) + l
          /\ \A i \in 1 .. Len(c.calls) : d.calls[i] = c.calls[i]
          /\ \A i \in 1 .. l : /\ d.calls[Len(c.calls) + i].id = q[i]
                               /\ d.calls[Len(c.calls) + i].type = m.type
                               /\ \/ d.calls[Len(c.calls) + i].code = "RC_UNKNOWN"
                                  \/ q[i] = m.id /\ d.calls[Len(c.calls) + i].code = m.code
    BY OnReplyOK DEF CalledBack
  <2> HIDE DEF d, q
  <2>2. Len(c.calls) \in Nat
    <3>1. c.calls \in Seq(Calls)  BY DEF Clients, Calls
    <3> QED BY <3>1, SMT
  <2>3. SUFFICES ASSUME NEW i \in 1 .. Len(d.calls) PROVE Honest(d.calls[i], X)
    BY DEF HonestSeq, d
  <2>4. i \in 1 .. Len(c.calls) \/ (i - Len(c.calls) \in 1 .. l /\ i = Len(c.calls) + (i - Len(c.calls)))
    <3>1. Len(d.calls) = Len(c.calls) + l  BY <2>1
    <3> QED BY <2>2, <3>1, SMT
  <2>5. CASE i \in 1 .. Len(c.calls)  BY <2>1, <2>5 DEF HonestSeq
  <2>6. ASSUME NEW j \in 1 .. l, i = Len(c.calls) + j  PROVE Honest(d.calls[i], X)
    <3>1. \/ d.calls[i].code = "RC_UNKNOWN"
          \/ d.calls[i].code = m.code /\ d.calls[i].id = m.id /\ d.calls[i].type = m.type
      BY <2>1, <2>6
    <3>2. "RC_UNKNOWN" # "RC_OK"  BY SMT
    <3> QED BY <3>1, <3>2 DEF Honest
  <2> QED BY <2>4, <2>5, <2>6

\* The writes executed only become more.
<1>ExecutedGrows.
    ASSUME TInv, [Next]_vars
    PROVE  executed \subseteq executed'
  <2> USE <1>ExecutedGrows
  <2>1. CASE Paxos
    <3>1. PICK pr \in proposals : Execute(pr) \/ Fail(pr)  BY <2>1 DEF Paxos
    <3> QED BY <3>1, DecidedStep
  <2>2. CASE Network \/ User \/ ClientLoop
    BY <2>2, NetworkFrame, UserFrame, ClientLoopFrame DEF Network, User, ClientLoop
  <2>3. CASE Callback
    BY <2>3, CallbackFrame DEF Callback
  <2>4. CASE LoseMaster \/ Clean
    BY <2>4, MasterFrame DEF Clean
  <2>5. ASSUME NEW k \in Conn, Loop(k)  PROVE executed \subseteq executed'
    BY <2>5, LoopFrame DEF Loop
  <2>6. ASSUME NEW t \in Thread, Session(t)  PROVE executed \subseteq executed'
    BY <2>6, SessionFrame DEF Session
  <2>7. CASE UNCHANGED vars  BY <2>7, SMT DEF vars, history
  <2> QED BY <2>1, <2>2, <2>3, <2>4, <2>5, <2>6, <2>7 DEF Next

\* The callbacks made.
<1>HonestCalls.
    ASSUME BelowFound, TInv, HInv, [Next]_vars
    PROVE  HonestSeq(client'.calls, executed')
  <2> USE <1>HonestCalls
  <2>1. client \in Clients /\ conn \in [Conn -> Connections]  BY DEF TInv, TypeOK
  <2>2. HonestSeq(client.calls, executed)  BY DEF HInv
  <2>3. HonestSeq(client'.calls, executed)
    <3>1. ASSUME NEW k \in Conn, conn[k].s2c # <<>>, Head(conn[k].s2c).type \in C!RequestType,
                 client' = C!OnReply(client, Head(conn[k].s2c))
          PROVE  HonestSeq(client'.calls, executed)
      <4>1. Head(conn[k].s2c) \in Messages  BY <2>1, <3>1, PopTyped
      <4>2. Honest(Head(conn[k].s2c), executed)
        BY <2>1, <3>1, <4>1, <1>HonestConnection DEF HInv
      <4> QED BY <2>1, <2>2, <3>1, <4>1, <4>2, <1>HonestReply
    <3>2. /\ C!ClearMessage(client).calls = client.calls
          /\ C!OnConnection(client).calls = client.calls
          /\ C!OnClose(client).calls = client.calls
          /\ C!OnClose([client EXCEPT !.has_started = FALSE]).calls = client.calls
      BY <2>1 DEF C!ClearMessage, C!OnConnection, C!OnClose, Clients
    <3>3. \A m : C!OnConnect(client, m).calls = client.calls
      BY <2>1 DEF C!OnConnect, C!OnConnection, Clients
    <3>4. \A type : C!Request(client, type).calls = client.calls
      BY <2>1 DEF C!Request, Clients
    <3> QED BY <2>2, <3>1, <3>2, <3>3, <3>4, ClientStep
  <2> QED BY <2>3, <1>ExecutedGrows, <1>HonestGrows

\* The callbacks that wait.
<1>HonestDecided.
    ASSUME TInv, HInv, [Next]_vars
    PROVE  HonestItems(callbacks', executed')
  <2> USE <1>HonestDecided
  <2>1. callbacks \in Seq(Items) /\ HonestItems(callbacks, executed)  BY DEF TInv, TypeOK, HInv
  <2>2. HonestItems(callbacks, executed')  BY <2>1, <1>ExecutedGrows, <1>HonestGrows
  <2>3. callbacks # <<>> => HonestItems(Tail(callbacks), executed')
    <3>1. ASSUME callbacks # <<>>  PROVE Head(callbacks) \in Items  BY <3>1, Parts
    <3> QED BY <2>1, <2>2, <3>1, <1>HonestCallbacks
  <2>4. CASE Paxos
    <3>1. PICK pr \in proposals : Execute(pr) \/ Fail(pr)  BY <2>4 DEF Paxos
    <3>2. PICK m \in Messages :
            /\ callbacks' = Append(callbacks, [m |-> m, object |-> pr.object])
            /\ m.type = "MT_CREATE" /\ m.code = "RC_OK" => m.id \in executed'
      BY <3>1, DecidedStep
    <3>3. pr.object \in Conn  BY Parts
    <3> DEFINE b == [m |-> m, object |-> pr.object]
    <3>4. b \in Items /\ Honest(b.m, executed')  BY <3>2, <3>3 DEF Items, Honest
    <3> HIDE DEF b
    <3> QED BY <2>1, <2>2, <3>2, <3>4, <1>HonestCallbacks DEF b
  <2>5. CASE Network \/ User \/ ClientLoop
    BY <2>2, <2>5, NetworkFrame, UserFrame, ClientLoopFrame DEF Network, User, ClientLoop
  <2>6. CASE Callback
    BY <2>2, <2>3, <2>6, CallbackFrame DEF Callback, CallbackMessage, CallbackConnect
  <2>7. CASE LoseMaster \/ Clean
    BY <2>2, <2>7, MasterFrame DEF Clean
  <2>8. ASSUME NEW k \in Conn, Loop(k)  PROVE callbacks' = callbacks
    BY <2>8, LoopFrame DEF Loop
  <2>9. ASSUME NEW t \in Thread, Session(t)  PROVE callbacks' = callbacks
    BY <2>9, SessionFrame DEF Session
  <2>10. CASE UNCHANGED vars
    <3>1. callbacks' = callbacks  BY <2>10, SMT DEF vars, paxosVars
    <3> QED BY <2>2, <3>1
  <2> QED BY <2>2, <2>4, <2>5, <2>6, <2>7, <2>8, <2>9, <2>10 DEF Next

\* The replies on their way to the client.
<1>HonestSent.
    ASSUME TInv, HInv, [Next]_vars
    PROVE  HonestConns(conn', executed')
  <2> USE <1>HonestSent
  <2> DEFINE Y == executed
  <2>1. conn \in [Conn -> Connections] /\ HonestConns(conn, Y) /\ NoMessage \in Messages
        /\ client \in Clients /\ link \in 0 .. MaxConn
    <3>1. 0 \in Nat  BY SMT
    <3> QED BY <3>1, NewMessageTyped DEF TInv, TypeOK, HInv, NoMessage
  <2> SUFFICES HonestConns(conn', Y)  BY <1>ExecutedGrows, <1>HonestGrows
  <2> HIDE DEF Y
  <2>2. ASSUME NEW k \in Conn, ServerCloses(k) \/ Freed(k) \/ ClientCloses(k)
        PROVE  HonestConns(conn', Y)
    <3>1. /\ HonestConns([conn EXCEPT ![k].srv = "closed", ![k].c2s = <<>>], Y)
          /\ HonestConns([conn EXCEPT ![k].srv = "freed"], Y)
          /\ HonestConns([conn EXCEPT ![k].cli = "closed", ![k].s2c = <<>>], Y)
      BY <2>1, <1>HonestConnection
    <3> QED BY <2>2, <3>1 DEF ServerCloses, Freed, ClientCloses
  <2>3. ASSUME NEW cs \in [Conn -> Connections], HonestConns(cs, Y), NEW ms
        PROVE  HonestConns(ClientSend(cs, link, ms), Y)
    <3>1. CASE link = 0  BY <2>3, <3>1 DEF ClientSend
    <3>2. CASE link # 0
      <4>1. link \in Conn  BY <2>1, <3>2, ThreadFacts
      <4> QED BY <2>1, <2>3, <4>1, <1>HonestConnection
    <3> QED BY <3>1, <3>2, SMT
  <2>4. CASE Connect \/ Request \/ OnTimer
    BY <2>1, <2>3, <2>4 DEF Connect, Request, OnTimer
  <2>5. CASE Close
    <3>1. CASE link = 0  BY <2>1, <2>5, <3>1 DEF Close
    <3>2. CASE link # 0
      <4> DEFINE m == C!Message("MT_CLOSE", 0, 0)
                 cs == ClientSend(conn, link, <<m>>)
      <4>1. m \in Messages /\ link \in Conn  BY <2>1, <3>2, NewMessageTyped, ThreadFacts, SMT
      <4> HIDE DEF m
      <4>2. <<m>> \in Seq(Messages)  BY <4>1, SMT
      <4>3. cs \in [Conn -> Connections] /\ HonestConns(cs, Y)
        BY <2>1, <2>3, <4>1, <4>2, ConnTyped
      <4>4. conn' = [cs EXCEPT ![link].cli = "closed", ![link].s2c = <<>>]
        BY <2>5, <3>2 DEF Close, m
      <4> HIDE DEF cs
      <4> QED BY <4>1, <4>3, <4>4, <1>HonestConnection
    <3> QED BY <3>1, <3>2, SMT
  <2>6. ASSUME NEW k \in Conn, OnConnection(k)  PROVE HonestConns(conn', Y)
    <3>1. C!ConnectMessage(client) \in Messages  BY <2>1, ClientTyped
    <3> QED BY <2>1, <2>6, <3>1, <1>HonestConnection DEF OnConnection
  <2>7. ASSUME NEW k \in Conn, ClientReceive(k)  PROVE HonestConns(conn', Y)
    <3> DEFINE cs == [conn EXCEPT ![k].s2c = Tail(@)]
    <3>1. conn[k].s2c # <<>>  BY <2>7 DEF ClientReceive
    <3>2. cs \in [Conn -> Connections] /\ HonestConns(cs, Y)
      BY <2>1, <3>1, PopTyped, <1>HonestConnection
    <3>3. \/ conn' = ClientSend(cs, k, C!OnConnectSends(client, Head(conn[k].s2c)))
          \/ conn' = [cs EXCEPT ![k].cli = "closed", ![k].s2c = <<>>]
          \/ conn' = cs
      BY <2>7 DEF ClientReceive
    <3> HIDE DEF cs
    <3>4. /\ \A ms : HonestConns(ClientSend(cs, k, ms), Y)
          /\ HonestConns([cs EXCEPT ![k].cli = "closed", ![k].s2c = <<>>], Y)
      BY <2>1, <3>2, <1>HonestConnection
    <3> QED BY <3>2, <3>3, <3>4
  <2>8. ASSUME NEW k \in Conn, ReceiveConnect(k)  PROVE HonestConns(conn', Y)
    <3> DEFINE m == Head(conn[k].c2s)
               m1 == [m EXCEPT !.type = "MT_MASTER"]
               no == [m EXCEPT !.session_id = 0, !.code = "RC_UNKNOWN"]
               failed == [m EXCEPT !.session_id = 0, !.code = "RC_FAILED"]
               begun == [Read(k) EXCEPT ![k].started = TRUE]
    <3>1. conn[k].c2s # <<>>  BY <2>8 DEF ReceiveConnect, Readable
    <3>2. m \in Messages /\ Read(k) \in [Conn -> Connections] /\ HonestConns(Read(k), Y)
      BY <2>1, <3>1, PopTyped, <1>HonestConnection DEF Read
    <3>3. \/ conn' = ForceClose(ServerSend(Read(k), k, m1), k)
          \/ conn' = Read(k)
          \/ conn' = ForceClose(ServerSend(begun, k, no), k)
          \/ conn' = begun
          \/ conn' = ServerSend(Read(k), k, failed)
      BY <2>8 DEF ReceiveConnect
    <3> HIDE DEF m
    <3>4. "RC_UNKNOWN" \in Codes /\ "RC_FAILED" \in Codes /\ 0 \in Nat  BY SMT DEF Codes
    <3>5. m1 \in Messages /\ no \in Messages /\ failed \in Messages
      BY <3>2, <3>4, MessageTyped
    <3>6. Honest(m1, Y) /\ Honest(no, Y) /\ Honest(failed, Y)
      <4>1. m1.type = "MT_MASTER" /\ no.code = "RC_UNKNOWN" /\ failed.code = "RC_FAILED"
        BY <3>2 DEF Messages
      <4> HIDE DEF m1, no, failed
      <4> QED BY <4>1, SMT DEF Honest
    <3> HIDE DEF m1, no, failed
    <3>7. begun \in [Conn -> Connections] /\ HonestConns(begun, Y)
      BY <2>1, <3>2, ConnTyped, <1>HonestConnection
    <3> HIDE DEF begun
    <3>8. ASSUME NEW cs \in [Conn -> Connections], HonestConns(cs, Y), NEW x \in Messages,
                 Honest(x, Y)
          PROVE  /\ HonestConns(ServerSend(cs, k, x), Y)
                 /\ HonestConns(ForceClose(ServerSend(cs, k, x), k), Y)
      <4>1. ServerSend(cs, k, x) \in [Conn -> Connections] /\ HonestConns(ServerSend(cs, k, x), Y)
        BY <3>8, ConnTyped, <1>HonestConnection
      <4> QED BY <2>1, <4>1, <1>HonestConnection
    <3> QED BY <3>2, <3>3, <3>5, <3>6, <3>7, <3>8, ZenonT(30)
  <2>9. ASSUME NEW k \in Conn, Receive(k)  PROVE HonestConns(conn', Y)
    <3>1. conn[k].c2s # <<>> /\ (conn' = ForceClose(Read(k), k) \/ conn' = Read(k))
      BY <2>9 DEF Receive, Readable
    <3>2. Read(k) \in [Conn -> Connections] /\ HonestConns(Read(k), Y)
      BY <2>1, <3>1, PopTyped, <1>HonestConnection DEF Read
    <3>3. HonestConns(ForceClose(Read(k), k), Y)  BY <2>1, <3>2, <1>HonestConnection
    <3> QED BY <3>1, <3>2, <3>3
  <2>10. ASSUME NEW p \in 0 .. MaxConn, NEW m \in Messages, Honest(m, Y)
         PROVE  HonestConns(ServerSend(conn, p, m), Y)
    <3>1. CASE p = 0  BY <2>1, <3>1 DEF ServerSend
    <3>2. CASE p # 0
      <4>1. p \in Conn  BY <3>2, ThreadFacts
      <4> QED BY <2>1, <2>10, <4>1, <1>HonestConnection
    <3> QED BY <3>1, <3>2, SMT
  <2>11. ASSUME NEW t \in Thread, DoneSend(t)  PROVE HonestConns(conn', Y)
    <3> DEFINE p == Lock(session[work[t].object].conn)
    <3>1. work[t].stage = "reply" /\ (conn' = conn \/ conn' = ServerSend(conn, p, work[t].m))
      BY <2>11 DEF DoneSend
    <3>2. work[t].m \in Messages /\ session[work[t].object] \in Objects  BY <3>1, Parts
    <3>3. p \in 0 .. MaxConn  BY <3>2, LockTyped DEF Objects
    <3>4. Honest(work[t].m, Y)  BY <3>1 DEF HInv, HonestTask, Y
    <3> QED BY <2>1, <2>10, <3>1, <3>2, <3>3, <3>4
  <2>12. ASSUME NEW t \in Thread, DoneFinish(t)  PROVE HonestConns(conn', Y)
    <3>1. work[t].stage = "sent" /\ (conn' = conn \/ (work[t].p # 0 /\ conn' = ForceClose(conn, work[t].p)))
      BY <2>12 DEF DoneFinish
    <3>2. work[t].p \in 0 .. MaxConn  BY Parts DEF Tasks
    <3>3. work[t].p # 0 => work[t].p \in Conn  BY <3>2, ThreadFacts
    <3>4. work[t].p # 0 => HonestConns(ForceClose(conn, work[t].p), Y)
      BY <2>1, <3>3, <1>HonestConnection
    <3> QED BY <2>1, <3>1, <3>4
  <2>13. CASE CallbackConnect
    <3>1. Head(callbacks).object \in Conn
          /\ \/ conn' = [conn EXCEPT ![Head(callbacks).object].started = FALSE]
             \/ \E o : conn' = [conn EXCEPT ![Head(callbacks).object].session = o]
      BY <2>13, ConnectStep DEF Binds
    <3>2. \A k \in Conn : /\ \A b : HonestConns([conn EXCEPT ![k].started = b], Y)
                          /\ \A o : HonestConns([conn EXCEPT ![k].session = o], Y)
      BY <2>1, <1>HonestConnection
    <3> QED BY <3>1, <3>2
  <2>14. CASE CallbackRespond
    <3> DEFINE w == work[CallbackThread]
    <3>1. conn' = ServerSend(conn, Lock(w.object), w.m) /\ w.stage = "respond"
      BY <2>14 DEF CallbackRespond
    <3>2. w.m \in Messages /\ w.object \in Conn  BY <3>1, ThreadFacts, Parts
    <3>3. Lock(w.object) \in 0 .. MaxConn  BY <3>2, ThreadFacts, LockTyped
    <3>4. w.m.type = "MT_CONNECT"  BY <3>1, ThreadFacts DEF HInv, HonestTask
    <3>5. Honest(w.m, Y)  BY <3>4, SMT DEF Honest
    <3> QED BY <2>10, <3>1, <3>2, <3>3, <3>5
  <2>15. CASE CallbackMessage \/ Paxos \/ LoseMaster \/ Clean
    BY <2>1, <2>15, CallbackFrame, PaxosFrame, MasterFrame DEF Paxos, Clean
  <2>16. ASSUME NEW k \in Conn, Loop(k)  PROVE HonestConns(conn', Y)
    BY <2>1, <2>8, <2>9, <2>16, LoopFrame DEF Loop
  <2>17. ASSUME NEW t \in Thread, Session(t)  PROVE HonestConns(conn', Y)
    BY <2>1, <2>11, <2>12, <2>17, SessionFrame DEF Session
  <2>18. CASE UNCHANGED vars
    <3>1. conn' = conn  BY <2>18, SMT DEF vars
    <3> QED BY <2>1, <3>1
  <2>19. CASE User \/ Network \/ ClientLoop
    BY <2>2, <2>4, <2>5, <2>6, <2>7, <2>19 DEF User, Network, ClientLoop
  <2> QED BY <2>13, <2>14, <2>15, <2>16, <2>17, <2>18, <2>19 DEF Next, Callback

\* What the threads are doing.
<1>HonestTasks.
    ASSUME TInv, HInv, [Next]_vars
    PROVE  \A t \in Thread : HonestTask(work'[t], executed')
  <2> USE <1>HonestTasks
  <2> DEFINE Y == executed
  <2>1. \A t \in Thread : HonestTask(work[t], Y)  BY DEF HInv
  <2> SUFFICES \A t \in Thread : HonestTask(work'[t], Y)  BY <1>ExecutedGrows, <1>HonestGrows
  <2> HIDE DEF Y
  <2>2. ASSUME NEW t \in Thread, NEW x \in Tasks, HonestTask(x, Y), work' = [work EXCEPT ![t] = x]
        PROVE  \A u \in Thread : HonestTask(work'[u], Y)
    <3>1. work \in [Thread -> Tasks]  BY DEF TInv, TypeOK
    <3> QED BY <2>1, <2>2, <3>1
  <2>3. HonestTask(Idle, Y) /\ Idle \in Tasks
    <3>1. Idle.stage = "idle" /\ Idle \in Tasks  BY IdleTask
    <3> QED BY <3>1, SMT DEF HonestTask
  <2>4. \A x : x.stage = "idle" \/ x.stage = "checked" \/ x.stage = "handle" => HonestTask(x, Y)
    BY SMT DEF HonestTask
  <2>5. ASSUME NEW k \in Conn, Loop(k)  PROVE \A u \in Thread : HonestTask(work'[u], Y)
    <3>1. CASE ReceiveConnect(k)  BY <2>1, <3>1, LoopFrame
    <3>2. CASE Receive(k) \/ RunFunctor(k)
      <4>1. TInv'  BY <3>2, ReceiveTyped, RunFunctorTyped
      <4>2. \/ work' = work
            \/ \E m, o : work' = [work EXCEPT ![k] = Work("checked", m, o, 0)]
            \/ \E m, o : work' = [work EXCEPT ![k] = Work("handle", m, o, 0)]
        BY <3>2 DEF Receive, RunFunctor
      <4>3. work \in [Thread -> Tasks] /\ k \in Thread  BY ThreadFacts DEF TInv, TypeOK
      <4>4. \A stage, m, o : Work(stage, m, o, 0).stage = stage  BY DEF Work
      <4>5. \A u \in Thread : \/ work'[u] = work[u]
                              \/ work'[u].stage = "checked" \/ work'[u].stage = "handle"
        <5>1. ASSUME NEW x, x.stage = "checked" \/ x.stage = "handle",
                     work' = [work EXCEPT ![k] = x], NEW u \in Thread
              PROVE  \/ work'[u] = work[u]
                     \/ work'[u].stage = "checked" \/ work'[u].stage = "handle"
          BY <4>3, <5>1
        <5> QED BY <4>2, <4>4, <5>1, ZenonT(30)
      <4> QED BY <2>1, <2>4, <4>5
    <3> QED BY <2>5, <3>1, <3>2 DEF Loop
  <2>6. ASSUME NEW t \in Thread, Enqueue(t)  PROVE \A u \in Thread : HonestTask(work'[u], Y)
    <3>1. PICK x \in {[work[t] EXCEPT !.stage = "handle"], Idle} : work' = [work EXCEPT ![t] = x]
      BY <2>6 DEF Enqueue
    <3>2. work[t] \in Tasks  BY Parts
    <3>3. x \in Tasks /\ (x.stage = "idle" \/ x.stage = "handle")
      <4>1. [work[t] EXCEPT !.stage = "handle"].stage = "handle"  BY <3>2 DEF Tasks
      <4> QED BY <3>1, <3>2, <4>1, IdleTask, TaskGoesOn, ZenonT(30)
    <3>4. HonestTask(x, Y)  BY <2>4, <3>3
    <3> QED BY <2>2, <3>1, <3>3, <3>4
  <2>7. ASSUME NEW t \in Thread, Handle(t)  PROVE \A u \in Thread : HonestTask(work'[u], Y)
    <3>1. work[t] \in Tasks /\ work[t].m \in Messages  BY Parts
    <3>2. ASSUME NEW code \in Codes, code = "RC_OK" => ~IsProposed(work[t].m),
                 NEW x, x = [work[t] EXCEPT !.stage = "reply", !.m.code = code]
          PROVE  x \in Tasks /\ HonestTask(x, Y)
      <4>1. x \in Tasks  BY <3>1, <3>2, TaskGoesOn
      <4>2. x.stage = "reply" /\ x.m.code = code /\ x.m.type = work[t].m.type
        BY <3>1, <3>2 DEF Tasks, Messages
      <4>3. x.m.type = "MT_CREATE" => x.m.code # "RC_OK"  BY <3>2, <4>2 DEF IsProposed
      <4> QED BY <4>1, <4>2, <4>3, SMTT(30) DEF HonestTask, Honest
    <3>3. ASSUME NEW x, x = [work[t] EXCEPT !.stage = "reply", !.m.type = "MT_MASTER"]
          PROVE  x \in Tasks /\ HonestTask(x, Y)
      <4>1. x \in Tasks  BY <3>1, <3>3, TaskGoesOn
      <4>2. x.stage = "reply" /\ x.m.type = "MT_MASTER"  BY <3>1, <3>3 DEF Tasks, Messages
      <4> QED BY <4>1, <4>2, SMT DEF HonestTask, Honest
    <3>4. \E x \in Tasks : HonestTask(x, Y) /\ work' = [work EXCEPT ![t] = x]
      BY <2>3, <2>7, <3>2, <3>3, HandleStep
    <3> QED BY <2>2, <3>4
  <2>8. ASSUME NEW t \in Thread, DoneSend(t)  PROVE \A u \in Thread : HonestTask(work'[u], Y)
    <3> DEFINE p == Lock(session[work[t].object].conn)
               x == [work[t] EXCEPT !.stage = "sent", !.p = p]
    <3>1. work[t].stage = "reply" /\ work' = [work EXCEPT ![t] = x]  BY <2>8 DEF DoneSend
    <3>2. work[t] \in Tasks /\ session[work[t].object] \in Objects  BY <3>1, Parts
    <3>3. p \in 0 .. MaxConn  BY <3>2, LockTyped DEF Objects
    <3>4. x \in Tasks /\ x.stage = "sent" /\ x.m = work[t].m
      BY <3>2, <3>3, TaskGoesOn DEF Tasks
    <3> HIDE DEF x
    <3>5. HonestTask(x, Y)  BY <2>1, <3>1, <3>4, SMT DEF HonestTask
    <3> QED BY <2>2, <3>1, <3>4, <3>5
  <2>9. ASSUME NEW t \in Thread, DoneFinish(t)  PROVE \A u \in Thread : HonestTask(work'[u], Y)
    BY <2>2, <2>3, <2>9 DEF DoneFinish
  <2>10. CASE CallbackMessage
    <3> DEFINE b == Head(callbacks)
               x == Work("reply", b.m, b.object, 0)
    <3>1. callbacks # <<>> /\ work' = [work EXCEPT ![CallbackThread] = x]
      BY <2>10 DEF CallbackMessage
    <3>2. b \in Items /\ b.m \in Messages /\ b.object \in Conn /\ callbacks \in Seq(Items)
      BY <3>1, Parts DEF TInv, TypeOK
    <3>3. Honest(b.m, Y)  BY <3>1, <3>2, <1>HonestCallbacks DEF HInv, Y
    <3>4. IsTask(x, "reply", b.m, b.object)  BY <3>2, NewTask
    <3> HIDE DEF x
    <3>5. x \in Tasks /\ x.stage = "reply" /\ Honest(x.m, Y)  BY <3>3, <3>4 DEF IsTask
    <3>6. HonestTask(x, Y)  BY <3>5, SMT DEF HonestTask
    <3> QED BY <2>2, <3>1, <3>5, <3>6, ThreadFacts, ZenonT(30)
  <2>11. CASE CallbackConnect
    <3>1. PICK x \in Tasks : /\ work' = [work EXCEPT ![CallbackThread] = x]
                             /\ x.stage = "respond" /\ x.m.type = "MT_CONNECT"
      BY <2>11, ConnectStep
    <3>2. HonestTask(x, Y)  BY <3>1, SMT DEF HonestTask
    <3> QED BY <2>2, <3>1, <3>2, ThreadFacts
  <2>12. CASE CallbackRespond  BY <2>2, <2>3, <2>12, ThreadFacts DEF CallbackRespond
  <2>13. ASSUME NEW o \in Conn, CleanNext(o)  PROVE \A u \in Thread : HonestTask(work'[u], Y)
    <3> DEFINE x == Work("checked", C!Message("MT_MASTER", 0, 0), o, 0)
    <3>1. work' = work \/ work' = [work EXCEPT ![RunLoopThread] = x]
      BY <2>13 DEF CleanNext
    <3>2. x.stage = "checked"  BY DEF Work
    <3>3. work \in [Thread -> Tasks]  BY DEF TInv, TypeOK
    <3> HIDE DEF x
    <3>4. \A u \in Thread : work'[u] = work[u] \/ work'[u].stage = "checked"
      BY <3>1, <3>2, <3>3
    <3> QED BY <2>1, <2>4, <3>4
  <2>14. CASE Paxos \/ LoseMaster \/ CleanSessions \/ CleanEnd
    BY <2>1, <2>14, PaxosFrame, MasterFrame, ZenonT(30) DEF Paxos
  <2>15. CASE Network \/ User \/ ClientLoop
    BY <2>1, <2>15, NetworkFrame, UserFrame, ClientLoopFrame, ZenonT(30) DEF Network, User, ClientLoop
  <2>16. ASSUME NEW t \in Thread, Session(t)  PROVE \A u \in Thread : HonestTask(work'[u], Y)
    BY <2>6, <2>7, <2>8, <2>9, <2>16 DEF Session
  <2>17. CASE UNCHANGED vars
    <3>1. work' = work  BY <2>17, SMT DEF vars
    <3> QED BY <2>1, <3>1
  <2> QED BY <2>5, <2>10, <2>11, <2>12, <2>13, <2>14, <2>15, <2>16, <2>17, ZenonT(30)
             DEF Next, Callback, Clean

<1> SUFFICES ASSUME BelowFound, TInv, HInv, [Next]_vars PROVE HInv'  OBVIOUS
<1>1. /\ \A t \in Thread : HonestTask(work'[t], executed')
      /\ HonestItems(callbacks', executed') /\ HonestConns(conn', executed')
      /\ HonestSeq(client'.calls, executed')
  BY <1>HonestTasks, <1>HonestDecided, <1>HonestSent, <1>HonestCalls
<1> QED BY <1>1, SMT DEF HInv, HonestTask, HonestItems, HonestConns, HonestSeq, Honest

=============================================================================
