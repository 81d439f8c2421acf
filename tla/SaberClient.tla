----------------------------- MODULE SaberClient -----------------------------
(***************************************************************************)
(* The request side of a client (saber/client/saber_client.cc), as         *)
(* functions of its state.  All of it runs in the client's event loop.     *)
(*                                                                         *)
(* A request gets the next message id and waits in two queues: the one of  *)
(* its type, with its callback, and outgoing, which is sent again after    *)
(* every reconnect.  A reply is matched with the front of both.            *)
(*                                                                         *)
(* Two types of request stand for the six: a write, which the server       *)
(* proposes, and a read, which it answers at once; the six handlers differ *)
(* only in their names.  calls is history: the callbacks made, in order.   *)
(* The session state that is reported to watchers is left out, and so are  *)
(* the choice of the server to connect to and the retry delays.            *)
(***************************************************************************)
EXTENDS Sequences, Naturals

RequestType == {"MT_CREATE", "MT_GETDATA"}

\* A message: its type and id, the session a connect or a close is about and
\* its version, and the code of a reply.
Message(type, id, sid) ==
  [type |-> type, id |-> id, session_id |-> sid, version |-> 0,
   code |-> "RC_OK"]

NewClient ==
  [has_started |-> FALSE, session_id |-> 0, can_send |-> FALSE,
   message_id |-> 0, outgoing |-> <<>>,
   queue |-> [t \in RequestType |-> <<>>], calls |-> <<>>]

\* SaberClient::Connect, before the TCP connection is made.
ClearMessage(c) ==
  [c EXCEPT !.has_started = TRUE, !.session_id = 0, !.outgoing = <<>>,
            !.queue = [t \in RequestType |-> <<>>]]

\* Create, Delete, Exists, GetData, SetData and GetChildren.
Request(c, type) ==
  LET id == c.message_id + 1
  IN  [c EXCEPT !.message_id = id,
                !.outgoing = Append(@, Message(type, id, 0)),
                !.queue[type] = Append(@, id)]

\* Faulty: a request is sent only if no other waits for its reply.
TrySendAlone(c) ==
  IF c.can_send /\ Len(c.outgoing) = 1 THEN <<c.outgoing[Len(c.outgoing)]>> ELSE <<>>

\* What TrySendInLoop puts on the connection for the request just queued.
TrySend(c) == IF c.can_send THEN <<c.outgoing[Len(c.outgoing)]>> ELSE <<>>

\* OnConnection: the connect message, and the state after it.
ConnectMessage(c) == Message("MT_CONNECT", c.message_id, c.session_id)

OnConnection(c) == [c EXCEPT !.message_id = @ + 1]

\* OnClose: nothing is sent until the next connect is answered.
OnClose(c) == [c EXCEPT !.can_send = FALSE]

\* The answer of a connect.  After a failure the client asks for a new
\* session on the same connection.
Connected(m) == m.code \in {"RC_OK", "RC_RECONNECT"}

OnConnect(c, m) ==
  IF Connected(m)
  THEN [c EXCEPT !.can_send = TRUE, !.session_id = m.session_id]
  ELSE [OnConnection([c EXCEPT !.session_id = 0])
          EXCEPT !.session_id = m.session_id]

OnConnectSends(c, m) ==
  IF Connected(m) THEN c.outgoing
  ELSE <<ConnectMessage([c EXCEPT !.session_id = 0])>>

\* How many ids the sequence q begins with that are below id: what a loop
\* that pops the front while it is below id takes.
Below(q, id) ==
  CHOOSE n \in 0 .. Len(q) : /\ \A i \in 1 .. n : q[i] < id
                             /\ n < Len(q) => q[n + 1] >= id

Ids(requests) == [i \in DOMAIN requests |-> requests[i].id]

\* Faulty: the request replied to stays in outgoing.
PopSentKeeps(out, id) == SubSeq(out, Below(Ids(out), id) + 1, Len(out))

\* The end of OnMessage: outgoing after a reply.
PopSent(out, id) == SubSeq(out, Below(Ids(out), id + 1) + 1, Len(out))

\* Faulty: every reply makes a callback, whatever request is at the front.
OnReplyAny(c, m) ==
  [c EXCEPT !.queue[m.type] = IF @ = <<>> THEN @ ELSE Tail(@),
            !.calls = Append(@, [id |-> m.id, type |-> m.type, code |-> m.code]),
            !.outgoing = PopSent(@, m.id)]

\* OnCreate, OnGetData and the others, and the end of OnMessage: requests
\* older than the reply are called back with RC_UNKNOWN, the next one is
\* taken from the queue, and called back if it is the one replied to.
OnReply(c, m) ==
  LET q     == c.queue[m.type]
      n     == Below(q, m.id)
      Call(id, code) == [id |-> id, type |-> m.type, code |-> code]
      unknown == [i \in 1 .. n |-> Call(q[i], "RC_UNKNOWN")]
      match == IF n < Len(q) /\ q[n + 1] = m.id THEN <<Call(m.id, m.code)>> ELSE <<>>
  IN  [c EXCEPT !.queue[m.type] = IF n < Len(q) THEN SubSeq(q, n + 2, Len(q)) ELSE <<>>,
                !.calls = @ \o unknown \o match,
                !.outgoing = PopSent(@, m.id)]

\* The asserts of OnMessage and OnCreate on a reply.
ReplyExpected(c, m) ==
  /\ c.outgoing # <<>> /\ Head(c.outgoing).id = m.id
  /\ c.queue[m.type] # <<>> /\ Head(c.queue[m.type]) = m.id

=============================================================================
