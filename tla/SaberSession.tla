---------------------------- MODULE SaberSession ----------------------------
(***************************************************************************)
(* A session on its server (saber/server/saber_session.cc), as functions   *)
(* of its state: the parts that run under mutex_.                          *)
(*                                                                         *)
(* A session handles one message at a time: last_finished tells whether    *)
(* one is being handled, and the others wait in pending_messages.  conn is *)
(* the connection the session is on; it is a weak pointer, so it may name  *)
(* a connection that is gone.                                              *)
(***************************************************************************)
EXTENDS Sequences, Naturals

NewSession(sid, version, conn) ==
  [session_id |-> sid, version |-> version, conn |-> conn, closed |-> FALSE,
   last_finished |-> TRUE, pending_messages |-> <<>>]

\* Faulty: a reconnect lets the next message start at once.
OnConnectFinished(s, conn) ==
  [s EXCEPT !.closed = FALSE, !.conn = conn, !.pending_messages = <<>>,
            !.last_finished = TRUE]

\* The session moves to a connection.  A message that is being handled
\* goes on, and its reply will go to the new connection.
OnConnect(s, conn) ==
  [s EXCEPT !.closed = FALSE, !.conn = conn, !.pending_messages = <<>>]

\* Faulty: the last message to come is the next to be handled.
EnqueueFront(s, m) ==
  IF s.last_finished
  THEN [s EXCEPT !.last_finished = FALSE]
  ELSE [s EXCEPT !.pending_messages = <<m>> \o @]

\* The locked part of OnMessage: the message is started if last_finished,
\* and waits otherwise.
Enqueue(s, m) ==
  IF s.last_finished
  THEN [s EXCEPT !.last_finished = FALSE]
  ELSE [s EXCEPT !.pending_messages =
          IF m.type = "MT_MASTER" THEN <<m>> ELSE Append(@, m)]

\* The locked part of Done, for the reply m and the connection p that was
\* there when the reply was sent (0 if there was none).
GoesOn(m, p) == p # 0 /\ m.type \notin {"MT_MASTER", "MT_CLOSE"}

HasNext(s, m, p) == GoesOn(m, p) /\ s.pending_messages # <<>>

Finish(s, m, p) ==
  IF HasNext(s, m, p)
  THEN [s EXCEPT !.pending_messages = Tail(@)]
  ELSE IF GoesOn(m, p)
  THEN [s EXCEPT !.last_finished = TRUE]
  ELSE [s EXCEPT !.closed = TRUE, !.pending_messages = <<>>,
                 !.last_finished = TRUE]

=============================================================================
