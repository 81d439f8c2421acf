------------------------- MODULE ClientServerProofs -------------------------
(***************************************************************************)
(* The theorems about ClientServer, for any number of connections and any  *)
(* plans.  ClientServerSteps has what they need of the types.              *)
(***************************************************************************)
EXTENDS ClientServerSteps

USE Zenon DEF SameClient, SameServer, SameLoops, SamePaxos, SameHistory

-----------------------------------------------------------------------------
(* A session handles one message at a time.  A message in hand is in a     *)
(* thread, in a loop's queue, proposed or decided; it moves from one to    *)
(* the next, and last_finished tells that there is none.                   *)

\* The members of A in a sequence and in a set: at least one, at most one.
Has(q, A) == \E i \in 1 .. Len(q) : q[i] \in A
Once(q, A) == \A i, j \in 1 .. Len(q) : q[i] \in A /\ q[j] \in A => i = j
HasIn(P, A) == \E x \in P : x \in A
OnceIn(P, A) == \A x, y \in P : x \in A /\ y \in A => x = y

ObjectOf(o) == {b \in Items : b.object = o}
MessageOf(o) == {b \in Items : b.object = o /\ b.m.type # "MT_CONNECT"}
ConnectOf(k) == {b \in Items : b.object = k /\ b.m.type = "MT_CONNECT"}

InHand(x, o) ==
  (x.stage = "handle" \/ x.stage = "reply" \/ x.stage = "sent") /\ x.object = o
Held(w, o) == \E t \in Thread : InHand(w[t], o)
HeldOnce(w, o) == \A t, u \in Thread : InHand(w[t], o) /\ InHand(w[u], o) => t = u

Queued(f, o) == \E k \in Conn : Has(f[k], ObjectOf(o))
QueuedOnce(f, o) ==
  /\ \A k \in Conn : Once(f[k], ObjectOf(o))
  /\ \A j, k \in Conn : Has(f[j], ObjectOf(o)) /\ Has(f[k], ObjectOf(o)) => j = k

\* What taking the head off a queue does to the members of A in it.
\* What taking the head off a queue does to the members of A in it.
LEMMA TailOnce ==
  ASSUME NEW q \in Seq(Items), q # <<>>, NEW A, Once(q, A)
  PROVE  /\ Once(Tail(q), A)
         /\ Head(q) \notin A => (Has(Tail(q), A) <=> Has(q, A))
         /\ Head(q) \in A => Has(q, A) /\ ~Has(Tail(q), A)
<1>1. /\ 1 \in 1 .. Len(q) /\ Head(q) = q[1]
      /\ \A i \in 1 .. Len(Tail(q)) : i + 1 \in 1 .. Len(q) /\ Tail(q)[i] = q[i + 1] /\ i + 1 # 1
      /\ \A i \in 1 .. Len(q) : i = 1 \/ (i - 1 \in 1 .. Len(Tail(q)) /\ Tail(q)[i - 1] = q[i])
  BY SMT
<1>2. \A i, j \in 1 .. Len(Tail(q)) : i + 1 = j + 1 => i = j
  <2>1. Len(Tail(q)) \in Nat  BY SMT
  <2> QED BY <2>1, SMT
<1>3. Once(Tail(q), A)
  <2> SUFFICES ASSUME NEW i \in 1 .. Len(Tail(q)), NEW j \in 1 .. Len(Tail(q)),
                      Tail(q)[i] \in A, Tail(q)[j] \in A
               PROVE  i = j
    BY DEF Once
  <2>1. q[i + 1] \in A /\ q[j + 1] \in A /\ i + 1 \in 1 .. Len(q) /\ j + 1 \in 1 .. Len(q)
    BY <1>1
  <2>2. i + 1 = j + 1  BY <2>1 DEF Once
  <2> QED BY <1>2, <2>2
<1>4. Head(q) \notin A => (Has(Tail(q), A) <=> Has(q, A))  BY <1>1 DEF Has
<1>5. Head(q) \in A => Has(q, A) /\ ~Has(Tail(q), A)  BY <1>1 DEF Has, Once
<1> QED BY <1>3, <1>4, <1>5

-----------------------------------------------------------------------------
(* The connections: started and session are left alone by most steps.      *)

Entries(cs, ds) ==
  \A j \in Conn : ds[j].session = cs[j].session /\ ds[j].started = cs[j].started

-----------------------------------------------------------------------------
(* The invariant.                                                          *)

\* A connection without a session has not made a session object.
Fresh(k) ==
  conn[k].session = 0 =>
    /\ session[k].last_finished
    /\ \A sid \in DOMAIN sessions : sessions[sid] # k
    /\ k \notin cleaning.todo /\ k \notin cleaning.told
    /\ \A j \in Conn : conn[j].session # k
    /\ \A t \in Thread : work[t].stage = "checked" => work[t].object # k

\* A connection has at most one connect under way, and no session meanwhile.
Calling(k) ==
  /\ OnceIn(proposals, ConnectOf(k)) /\ Once(callbacks, ConnectOf(k))
  /\ ~(HasIn(proposals, ConnectOf(k)) /\ Has(callbacks, ConnectOf(k)))
  /\ HasIn(proposals, ConnectOf(k)) \/ Has(callbacks, ConnectOf(k)) =>
       conn[k].started /\ conn[k].session = 0
  /\ conn[k].session # 0 => conn[k].started

\* One message is in hand, at one place, unless last_finished.
Turn(w, f, P, d, s, o) ==
  /\ HeldOnce(w, o) /\ QueuedOnce(f, o)
  /\ OnceIn(P, MessageOf(o)) /\ Once(d, MessageOf(o))
  /\ Held(w, o) => /\ ~Queued(f, o) /\ ~HasIn(P, MessageOf(o)) /\ ~Has(d, MessageOf(o))
  /\ Queued(f, o) => ~HasIn(P, MessageOf(o)) /\ ~Has(d, MessageOf(o))
  /\ HasIn(P, MessageOf(o)) => ~Has(d, MessageOf(o))
  /\ s.last_finished <=> /\ ~Held(w, o) /\ ~Queued(f, o)
                         /\ ~HasIn(P, MessageOf(o)) /\ ~Has(d, MessageOf(o))
  /\ s.last_finished => s.pending_messages = <<>>

FreshInv == \A k \in Conn : Fresh(k)
CallingInv == \A k \in Conn : Calling(k)
TurnInv == \A o \in Conn : Turn(work, functors, proposals, callbacks, session[o], o)

\* An idle thread has no message of a session in hand.
\* An idle thread has no message of a session in hand.
LEMMA IdleHand == \A u : ~InHand(Idle, u)
<1>1. Idle.stage = "idle"  BY IdleTask
<1> QED BY <1>1, SMT DEF InHand

\* Every step keeps the turn of each session, and that a connection has one
\* connect under way and no session until it is called back.
\* Every step keeps the turn of each session, and that a connection has one
\* connect under way and no session until it is called back.
LEMMA NextTurn ==
  TInv /\ FreshInv /\ CallingInv /\ TurnInv /\ [Next]_vars
  => FreshInv' /\ CallingInv' /\ TurnInv'

<1>AppendOnce.
    ASSUME NEW q \in Seq(Items), NEW b \in Items, NEW A
    PROVE  /\ b \notin A => (Has(Append(q, b), A) <=> Has(q, A))
           /\ b \notin A /\ Once(q, A) => Once(Append(q, b), A)
           /\ b \in A => Has(Append(q, b), A)
           /\ b \in A /\ ~Has(q, A) => Once(Append(q, b), A)
  <2> USE <1>AppendOnce
  <2> DEFINE r == Append(q, b)
  <2>1. /\ Len(q) + 1 \in 1 .. Len(r) /\ r[Len(q) + 1] = b
        /\ \A i \in 1 .. Len(q) : i \in 1 .. Len(r) /\ r[i] = q[i]
        /\ \A i \in 1 .. Len(r) : i = Len(q) + 1 \/ i \in 1 .. Len(q)
    BY SMT
  <2> HIDE DEF r
  <2>2. b \notin A => (Has(r, A) <=> Has(q, A))  BY <2>1 DEF Has
  <2>3. b \in A => Has(r, A)  BY <2>1 DEF Has
  <2>4. ASSUME b \notin A, Once(q, A)  PROVE Once(r, A)
    <3>1. \A i \in 1 .. Len(r) : r[i] \in A => i \in 1 .. Len(q) /\ q[i] \in A  BY <2>1, <2>4
    <3> QED BY <2>4, <3>1 DEF Once
  <2>5. ASSUME b \in A, ~Has(q, A)  PROVE Once(r, A)
    <3>1. \A i \in 1 .. Len(r) : r[i] \in A => i = Len(q) + 1  BY <2>1, <2>5 DEF Has
    <3> QED BY <3>1 DEF Once
  <2> QED BY <2>2, <2>3, <2>4, <2>5 DEF r

<1>SetOnce.
    ASSUME NEW P, NEW b, NEW A, OnceIn(P, A)
    PROVE  /\ b \notin A => (HasIn(P \cup {b}, A) <=> HasIn(P, A)) /\ OnceIn(P \cup {b}, A)
           /\ b \in A /\ ~HasIn(P, A) => HasIn(P \cup {b}, A) /\ OnceIn(P \cup {b}, A)
           /\ OnceIn(P \ {b}, A)
           /\ b \notin A => (HasIn(P \ {b}, A) <=> HasIn(P, A))
           /\ b \in A /\ b \in P => HasIn(P, A) /\ ~HasIn(P \ {b}, A)
  BY <1>SetOnce, SMT DEF HasIn, OnceIn

\* A thread's task becomes x.
<1>TaskOnce.
    ASSUME NEW w \in [Thread -> Tasks], NEW t \in Thread, NEW x, NEW v,
           v = [w EXCEPT ![t] = x], NEW o, HeldOnce(w, o)
    PROVE  /\ (InHand(x, o) <=> InHand(w[t], o)) => (Held(v, o) <=> Held(w, o)) /\ HeldOnce(v, o)
           /\ InHand(w[t], o) /\ ~InHand(x, o) => Held(w, o) /\ ~Held(v, o) /\ HeldOnce(v, o)
           /\ ~Held(w, o) /\ InHand(x, o) => Held(v, o) /\ HeldOnce(v, o)
  <2> USE <1>TaskOnce
  <2>1. v[t] = x /\ \A u \in Thread : u # t => v[u] = w[u]  OBVIOUS
  <2> QED BY <2>1 DEF Held, HeldOnce

\* The queue of a loop becomes r.
<1>QueueOnce.
    ASSUME NEW f \in [Conn -> Seq(Items)], NEW k \in Conn, NEW r, NEW g,
           g = [f EXCEPT ![k] = r], NEW o, QueuedOnce(f, o)
    PROVE  /\ (Has(r, ObjectOf(o)) <=> Has(f[k], ObjectOf(o))) /\ Once(r, ObjectOf(o)) =>
                (Queued(g, o) <=> Queued(f, o)) /\ QueuedOnce(g, o)
           /\ Has(f[k], ObjectOf(o)) /\ ~Has(r, ObjectOf(o)) /\ Once(r, ObjectOf(o)) =>
                Queued(f, o) /\ ~Queued(g, o) /\ QueuedOnce(g, o)
           /\ ~Queued(f, o) /\ Has(r, ObjectOf(o)) /\ Once(r, ObjectOf(o)) =>
                Queued(g, o) /\ QueuedOnce(g, o)
  <2> USE <1>QueueOnce
  <2> DEFINE A == ObjectOf(o)
  <2>1. g[k] = r /\ \A j \in Conn : j # k => g[j] = f[j]  OBVIOUS
  <2> HIDE DEF A
  <2>2. QueuedOnce(f, o) => /\ \A j \in Conn : Once(f[j], A)
                            /\ \A i, j \in Conn : Has(f[i], A) /\ Has(f[j], A) => i = j
    BY DEF QueuedOnce, A
  <2>3. /\ \A j \in Conn : Once(g[j], A)
        /\ \A i, j \in Conn : Has(g[i], A) /\ Has(g[j], A) => i = j
        => QueuedOnce(g, o)
    BY DEF QueuedOnce, A
  <2>4. Queued(f, o) <=> \E j \in Conn : Has(f[j], A)  BY DEF Queued, A
  <2>5. Queued(g, o) <=> \E j \in Conn : Has(g[j], A)  BY DEF Queued, A
  <2>6. (Has(r, A) <=> Has(f[k], A)) /\ Once(r, A) =>
          (Queued(g, o) <=> Queued(f, o)) /\ QueuedOnce(g, o)
    BY <2>1, <2>2, <2>3, <2>4, <2>5
  <2>7. Has(f[k], A) /\ ~Has(r, A) /\ Once(r, A) => Queued(f, o) /\ ~Queued(g, o) /\ QueuedOnce(g, o)
    BY <2>1, <2>2, <2>3, <2>4, <2>5
  <2>8. ~Queued(f, o) /\ Has(r, A) /\ Once(r, A) => Queued(g, o) /\ QueuedOnce(g, o)
    BY <2>1, <2>2, <2>3, <2>4, <2>5
  <2> QED BY <2>6, <2>7, <2>8 DEF A

<1>EntriesKept.
    ASSUME NEW cs \in [Conn -> Connections], NEW k \in Conn
    PROVE  /\ \A m : Entries(cs, ServerSend(cs, k, m))
           /\ Entries(cs, ForceClose(cs, k))
           /\ \A ms : Entries(cs, ClientSend(cs, k, ms))
           /\ Entries(cs, [cs EXCEPT ![k].srv = "closed", ![k].c2s = <<>>])
           /\ Entries(cs, [cs EXCEPT ![k].srv = "freed"])
           /\ Entries(cs, [cs EXCEPT ![k].cli = "closed", ![k].s2c = <<>>])
           /\ \A q : Entries(cs, [cs EXCEPT ![k].cli = "open", ![k].srv = "open", ![k].c2s = q])
           /\ \A q : Entries(cs, [cs EXCEPT ![k].c2s = q])
           /\ \A q : Entries(cs, [cs EXCEPT ![k].s2c = q])
  <2> USE <1>EntriesKept
  <2>1. cs[k] \in Connections  OBVIOUS
  <2>2. ASSUME NEW c, c.session = cs[k].session, c.started = cs[k].started
        PROVE  Entries(cs, [cs EXCEPT ![k] = c])
    BY <2>2 DEF Entries
  <2>3. Entries(cs, cs)  BY DEF Entries
  <2>4. \A m : Entries(cs, ServerSend(cs, k, m))
    BY <2>1, <2>2, <2>3 DEF ServerSend, Connections
  <2>5. Entries(cs, ForceClose(cs, k))
    BY <2>1, <2>2, <2>3 DEF ForceClose, Connections
  <2>6. \A ms : Entries(cs, ClientSend(cs, k, ms))
    BY <2>1, <2>2, <2>3 DEF ClientSend, Connections
  <2>7. /\ Entries(cs, [cs EXCEPT ![k].srv = "closed", ![k].c2s = <<>>])
        /\ Entries(cs, [cs EXCEPT ![k].srv = "freed"])
        /\ Entries(cs, [cs EXCEPT ![k].cli = "closed", ![k].s2c = <<>>])
    BY <2>1, <2>2 DEF Connections
  <2>8. \A q : Entries(cs, [cs EXCEPT ![k].cli = "open", ![k].srv = "open", ![k].c2s = q])
    BY <2>1, <2>2 DEF Connections
  <2>9. \A q : /\ Entries(cs, [cs EXCEPT ![k].c2s = q])
               /\ Entries(cs, [cs EXCEPT ![k].s2c = q])
    BY <2>1, <2>2 DEF Connections
  <2> QED BY <2>4, <2>5, <2>6, <2>7, <2>8, <2>9

<1>EntriesChain.
    ASSUME NEW a, NEW b, NEW d, Entries(a, b), Entries(b, d)
    PROVE  Entries(a, d)
  BY <1>EntriesChain DEF Entries

<1>NetworkEntries.
    ASSUME TInv, Network \/ User \/ ClientLoop
    PROVE  Entries(conn, conn')
  <2> USE <1>NetworkEntries
  <2>1. conn \in [Conn -> Connections] /\ client \in Clients /\ link \in 0 .. MaxConn
        /\ Entries(conn, conn)
    BY DEF TInv, TypeOK, Entries
  <2>2. ASSUME NEW k \in Conn, ServerCloses(k) \/ Freed(k) \/ ClientCloses(k)
        PROVE  Entries(conn, conn')
    <3>1. /\ Entries(conn, [conn EXCEPT ![k].srv = "closed", ![k].c2s = <<>>])
          /\ Entries(conn, [conn EXCEPT ![k].srv = "freed"])
          /\ Entries(conn, [conn EXCEPT ![k].cli = "closed", ![k].s2c = <<>>])
      BY <2>1, <1>EntriesKept
    <3> QED BY <2>2, <3>1 DEF ServerCloses, Freed, ClientCloses
  <2>3. \A ms : Entries(conn, ClientSend(conn, link, ms))
    <3>1. CASE link = 0  BY <2>1, <3>1 DEF ClientSend
    <3>2. CASE link # 0
      <4>1. link \in Conn  BY <2>1, <3>2, ThreadFacts
      <4> QED BY <2>1, <4>1, <1>EntriesKept
    <3> QED BY <3>1, <3>2, SMT
  <2>4. CASE Connect \/ Request \/ OnTimer
    BY <2>1, <2>3, <2>4 DEF Connect, Request, OnTimer
  <2>5. CASE Close
    <3>1. CASE link = 0  BY <2>1, <2>5, <3>1 DEF Close
    <3>2. CASE link # 0
      <4> DEFINE m == C!Message("MT_CLOSE", 0, 0)
                 cs == ClientSend(conn, link, <<m>>)
      <4>1. m \in Messages /\ link \in Conn  BY <2>1, <3>2, NewMessageTyped, ThreadFacts, SMTT(30)
      <4> HIDE DEF m
      <4>2. <<m>> \in Seq(Messages)  BY <4>1, SMT
      <4>3. cs \in [Conn -> Connections] /\ Entries(conn, cs)
        BY <2>1, <2>3, <4>1, <4>2, ConnTyped
      <4>4. conn' = [cs EXCEPT ![link].cli = "closed", ![link].s2c = <<>>]
        BY <2>5, <3>2 DEF Close, m
      <4> HIDE DEF cs
      <4>5. Entries(cs, [cs EXCEPT ![link].cli = "closed", ![link].s2c = <<>>])
        BY <4>1, <4>3, <1>EntriesKept
      <4> QED BY <4>3, <4>4, <4>5, <1>EntriesChain
    <3> QED BY <3>1, <3>2, SMT
  <2>6. ASSUME NEW k \in Conn, OnConnection(k)  PROVE Entries(conn, conn')
    <3>1. \A q : Entries(conn, [conn EXCEPT ![k].cli = "open", ![k].srv = "open", ![k].c2s = q])
      BY <2>1, <1>EntriesKept
    <3> QED BY <2>6, <3>1 DEF OnConnection
  <2>7. ASSUME NEW k \in Conn, ClientReceive(k)  PROVE Entries(conn, conn')
    <3> DEFINE cs == [conn EXCEPT ![k].s2c = Tail(@)]
    <3>1. conn[k].s2c # <<>>  BY <2>7 DEF ClientReceive
    <3>2. cs \in [Conn -> Connections] /\ Entries(conn, cs)
      BY <2>1, <3>1, PopTyped, <1>EntriesKept
    <3>3. \/ conn' = ClientSend(cs, k, C!OnConnectSends(client, Head(conn[k].s2c)))
          \/ conn' = [cs EXCEPT ![k].cli = "closed", ![k].s2c = <<>>]
          \/ conn' = cs
      BY <2>7 DEF ClientReceive
    <3> HIDE DEF cs
    <3>4. /\ \A ms : Entries(cs, ClientSend(cs, k, ms))
          /\ Entries(cs, [cs EXCEPT ![k].cli = "closed", ![k].s2c = <<>>])
      BY <3>2, <1>EntriesKept
    <3> QED BY <3>2, <3>3, <3>4, <1>EntriesChain
  <2> QED BY <2>2, <2>4, <2>5, <2>6, <2>7 DEF User, Network, ClientLoop

\* A connect that is received starts the connection when it is proposed, and
\* only then is the connection started without a reply.
<1>ReceiveConnectStep.
    ASSUME TInv, NEW k \in Conn, ReceiveConnect(k)
    PROVE  /\ \A j \in Conn : conn'[j].session = conn[j].session
           /\ \A j \in Conn : conn[j].started => conn'[j].started
           /\ \/ proposals' = proposals
              \/ /\ ~conn[k].started /\ conn'[k].started
                 /\ \E b \in ConnectOf(k) : proposals' = proposals \cup {b}
  <2> USE <1>ReceiveConnectStep
  <2> DEFINE m == Head(conn[k].c2s)
             m1 == [m EXCEPT !.type = "MT_MASTER"]
             no == [m EXCEPT !.session_id = 0, !.code = "RC_UNKNOWN"]
             failed == [m EXCEPT !.session_id = 0, !.code = "RC_FAILED"]
             begun == [Read(k) EXCEPT ![k].started = TRUE]
             b == ConnectProposal(m, k)
  <2>1. conn \in [Conn -> Connections] /\ conn[k].c2s # <<>> /\ m.type = "MT_CONNECT"
    BY DEF TInv, TypeOK, ReceiveConnect, Readable
  <2>2. m \in Messages /\ Read(k) \in [Conn -> Connections] /\ Entries(conn, Read(k))
    BY <2>1, PopTyped, <1>EntriesKept DEF Read
  <2>3. \/ /\ \/ conn' = ForceClose(ServerSend(Read(k), k, m1), k)
              \/ conn' = Read(k)
              \/ conn' = ForceClose(ServerSend(begun, k, no), k)
              \/ conn' = ServerSend(Read(k), k, failed)
           /\ proposals' = proposals
        \/ conn' = begun /\ ~conn[k].started /\ proposals' = proposals \cup {b}
    BY DEF ReceiveConnect
  <2>4. proposals' \subseteq Items  BY ReceiveConnectTyped DEF TInv, TypeOK
  <2>5. b.object = k /\ b.m.type = m.type  BY <2>2 DEF ConnectProposal, Messages
  <2>6. proposals' = proposals \cup {b} => b \in ConnectOf(k)
    BY <2>1, <2>4, <2>5 DEF ConnectOf
  <2>7. m1 \in Messages /\ no \in Messages /\ failed \in Messages
    <3>1. "RC_UNKNOWN" \in Codes /\ "RC_FAILED" \in Codes /\ 0 \in Nat  BY SMT DEF Codes
    <3> QED BY <2>2, <3>1, MessageTyped
  <2> HIDE DEF b, m1, no, failed, m
  <2>8. /\ begun \in [Conn -> Connections] /\ begun[k].started
        /\ \A j \in Conn : begun[j].session = conn[j].session /\ (conn[j].started => begun[j].started)
    <3>1. begun \in [Conn -> Connections]  BY <2>2, ConnTyped
    <3>2. Read(k)[k] \in Connections  BY <2>2
    <3>3. begun[k].started /\ begun[k].session = Read(k)[k].session
      BY <2>2, <3>2 DEF Connections
    <3>4. \A j \in Conn : j # k => begun[j] = Read(k)[j]  BY <2>2
    <3> QED BY <2>2, <3>1, <3>3, <3>4 DEF Entries
  <2> HIDE DEF begun
  <2>9. ASSUME NEW cs \in [Conn -> Connections], NEW x \in Messages
        PROVE  Entries(cs, ServerSend(cs, k, x)) /\ Entries(cs, ForceClose(ServerSend(cs, k, x), k))
    <3>1. ServerSend(cs, k, x) \in [Conn -> Connections] /\ Entries(cs, ServerSend(cs, k, x))
      BY ConnTyped, <1>EntriesKept
    <3>2. Entries(ServerSend(cs, k, x), ForceClose(ServerSend(cs, k, x), k))
      BY <3>1, <1>EntriesKept
    <3> QED BY <3>1, <3>2, <1>EntriesChain
  <2>10. CASE /\ \/ conn' = ForceClose(ServerSend(Read(k), k, m1), k)
                 \/ conn' = Read(k)
                 \/ conn' = ForceClose(ServerSend(begun, k, no), k)
                 \/ conn' = ServerSend(Read(k), k, failed)
              /\ proposals' = proposals
    <3>1. Entries(Read(k), conn') \/ Entries(begun, conn')
      <4>1. Entries(Read(k), Read(k))  BY DEF Entries
      <4> QED BY <2>2, <2>7, <2>8, <2>9, <2>10, <4>1
    <3> QED BY <2>2, <2>8, <2>10, <3>1 DEF Entries
  <2>11. CASE conn' = begun /\ ~conn[k].started /\ proposals' = proposals \cup {b}
    BY <2>6, <2>8, <2>11
  <2> QED BY <2>3, <2>10, <2>11

<1>SessionEntries.
    ASSUME TInv,
           \/ \E k \in Conn : Receive(k) \/ RunFunctor(k)
           \/ \E t \in Thread : Session(t)
           \/ CallbackMessage \/ CallbackRespond \/ Paxos \/ LoseMaster \/ Clean
    PROVE  Entries(conn, conn')
  <2> USE <1>SessionEntries
  <2>1. conn \in [Conn -> Connections] /\ Entries(conn, conn)  BY DEF TInv, TypeOK, Entries
  <2>2. ASSUME NEW k \in Conn, Receive(k)  PROVE Entries(conn, conn')
    <3>1. conn[k].c2s # <<>> /\ (conn' = ForceClose(Read(k), k) \/ conn' = Read(k))
      BY <2>2 DEF Receive, Readable
    <3>2. Read(k) \in [Conn -> Connections] /\ Entries(conn, Read(k))
      BY <2>1, <3>1, PopTyped, <1>EntriesKept DEF Read
    <3>3. Entries(Read(k), ForceClose(Read(k), k))  BY <3>2, <1>EntriesKept
    <3> QED BY <3>1, <3>2, <3>3, <1>EntriesChain
  <2>3. ASSUME NEW p \in 0 .. MaxConn, NEW m  PROVE Entries(conn, ServerSend(conn, p, m))
    <3>1. CASE p = 0  BY <2>1, <3>1 DEF ServerSend
    <3>2. CASE p # 0
      <4>1. p \in Conn  BY <3>2, ThreadFacts
      <4> QED BY <2>1, <4>1, <1>EntriesKept
    <3> QED BY <3>1, <3>2, SMT
  <2>4. ASSUME NEW t \in Thread, DoneSend(t)  PROVE Entries(conn, conn')
    <3> DEFINE p == Lock(session[work[t].object].conn)
    <3>1. work[t].stage = "reply" /\ (conn' = conn \/ conn' = ServerSend(conn, p, work[t].m))
      BY <2>4 DEF DoneSend
    <3>2. session[work[t].object] \in Objects  BY <3>1, Parts
    <3>3. p \in 0 .. MaxConn  BY <3>2, LockTyped DEF Objects
    <3> QED BY <2>1, <2>3, <3>1, <3>3
  <2>5. ASSUME NEW t \in Thread, DoneFinish(t)  PROVE Entries(conn, conn')
    <3>1. conn' = conn \/ (work[t].p # 0 /\ conn' = ForceClose(conn, work[t].p))
      BY <2>5 DEF DoneFinish
    <3>2. work[t].p \in 0 .. MaxConn  BY Parts DEF Tasks
    <3>3. work[t].p # 0 => work[t].p \in Conn  BY <3>2, ThreadFacts
    <3>4. work[t].p # 0 => Entries(conn, ForceClose(conn, work[t].p))
      BY <2>1, <3>3, <1>EntriesKept
    <3> QED BY <2>1, <3>1, <3>4
  <2>6. CASE CallbackRespond
    <3> DEFINE w == work[CallbackThread]
    <3>1. conn' = ServerSend(conn, Lock(w.object), w.m) /\ w.stage = "respond"
      BY <2>6 DEF CallbackRespond
    <3>2. w.object \in Conn  BY <3>1, ThreadFacts, Parts
    <3>3. Lock(w.object) \in 0 .. MaxConn  BY <3>2, ThreadFacts, LockTyped
    <3> QED BY <2>3, <3>1, <3>3
  <2>7. CASE CallbackMessage \/ Paxos \/ LoseMaster \/ Clean
    BY <2>1, <2>7, CallbackFrame, PaxosFrame, MasterFrame DEF Paxos, Clean
  <2>8. ASSUME NEW k \in Conn, RunFunctor(k)  PROVE Entries(conn, conn')
    BY <2>1, <2>8, LoopFrame
  <2>9. ASSUME NEW t \in Thread, Enqueue(t) \/ Handle(t)  PROVE Entries(conn, conn')
    BY <2>1, <2>9, SessionFrame
  <2> QED BY <2>2, <2>4, <2>5, <2>6, <2>7, <2>8, <2>9 DEF Session

\* The steps that do not bind a connection leave what is fresh alone.
<1>FreshStep.
    ASSUME FreshInv, \A j \in Conn : conn'[j].session = conn[j].session,
           \A k \in Conn : conn[k].session = 0 => session'[k].last_finished,
           \A sid \in DOMAIN sessions' : \E s \in DOMAIN sessions : sessions'[sid] = sessions[s],
           \A k \in cleaning'.todo : k \in cleaning.todo \/ \E sid \in DOMAIN sessions : k = sessions[sid],
           \A k \in cleaning'.told : k \in cleaning.told \/ k \in cleaning.todo,
           \A t \in Thread : work'[t].stage = "checked" =>
             \/ work[t].stage = "checked" /\ work'[t].object = work[t].object
             \/ work'[t].object \in cleaning.todo
             \/ \E j \in Conn : work'[t].object = conn[j].session
    PROVE  FreshInv'
  <2> USE <1>FreshStep
  <2> SUFFICES ASSUME NEW k \in Conn, conn'[k].session = 0
               PROVE  /\ session'[k].last_finished
                      /\ \A sid \in DOMAIN sessions' : sessions'[sid] # k
                      /\ k \notin cleaning'.todo /\ k \notin cleaning'.told
                      /\ \A j \in Conn : conn'[j].session # k
                      /\ \A t \in Thread : work'[t].stage = "checked" => work'[t].object # k
    BY DEF FreshInv, Fresh
  <2>1. conn[k].session = 0  OBVIOUS
  <2>2. /\ session[k].last_finished
        /\ \A sid \in DOMAIN sessions : sessions[sid] # k
        /\ k \notin cleaning.todo /\ k \notin cleaning.told
        /\ \A j \in Conn : conn[j].session # k
        /\ \A t \in Thread : work[t].stage = "checked" => work[t].object # k
    BY <2>1 DEF FreshInv, Fresh
  <2>3. ASSUME NEW sid \in DOMAIN sessions'  PROVE sessions'[sid] # k
    <3>1. PICK s \in DOMAIN sessions : sessions'[sid] = sessions[s]  OBVIOUS
    <3> QED BY <2>2, <3>1
  <2>4. k \notin cleaning'.todo /\ k \notin cleaning'.told  BY <2>2
  <2>5. \A j \in Conn : conn'[j].session # k  BY <2>2
  <2>6. ASSUME NEW t \in Thread, work'[t].stage = "checked"  PROVE work'[t].object # k
    <3>1. \/ work[t].stage = "checked" /\ work'[t].object = work[t].object
          \/ work'[t].object \in cleaning.todo
          \/ \E j \in Conn : work'[t].object = conn[j].session
      BY <2>6
    <3>2. CASE \E j \in Conn : work'[t].object = conn[j].session  BY <2>2, <3>2
    <3>3. CASE work'[t].object \in cleaning.todo  BY <2>2, <3>3
    <3>4. CASE work[t].stage = "checked" /\ work'[t].object = work[t].object  BY <2>2, <3>4
    <3> QED BY <3>1, <3>2, <3>3, <3>4
  <2>7. session'[k].last_finished  BY <2>1
  <2> QED BY <2>3, <2>4, <2>5, <2>6, <2>7

<1>CallingStep.
    ASSUME CallingInv, Entries(conn, conn'), proposals' = proposals, callbacks' = callbacks
    PROVE  CallingInv'
  BY <1>CallingStep DEF CallingInv, Calling, Entries

\* The steps of the network and of the client.
<1>QuietStep.
    ASSUME TInv, FreshInv, CallingInv, TurnInv, Network \/ User \/ ClientLoop \/ LoseMaster
    PROVE  FreshInv' /\ CallingInv' /\ TurnInv'
  <2> USE <1>QuietStep
  <2>1. /\ session' = session /\ sessions' = sessions /\ work' = work /\ functors' = functors
        /\ proposals' = proposals /\ callbacks' = callbacks
        /\ cleaning' = cleaning \/ cleaning' = [cleaning EXCEPT !.due = TRUE]
    BY NetworkFrame, UserFrame, ClientLoopFrame, MasterFrame
       DEF Network, User, ClientLoop, LoseMaster
  <2>2. cleaning'.todo = cleaning.todo /\ cleaning'.told = cleaning.told
    BY <2>1 DEF TInv, TypeOK
  <2>3. Entries(conn, conn')
    <3>1. CASE LoseMaster  BY <3>1, MasterFrame DEF Entries
    <3> QED BY <3>1, <1>NetworkEntries
  <2>4. FreshInv'
    <3>1. \A j \in Conn : conn'[j].session = conn[j].session  BY <2>3 DEF Entries
    <3> QED BY <2>1, <2>2, <3>1, <1>FreshStep DEF FreshInv, Fresh
  <2>5. CallingInv'  BY <2>1, <2>3, <1>CallingStep
  <2>6. TurnInv'  BY <2>1 DEF TurnInv
  <2> QED BY <2>4, <2>5, <2>6, SMT

\* What thread t does with the message it has.
<1>EnqueueTurn.
    ASSUME TInv, FreshInv, CallingInv, TurnInv, NEW t \in Thread, Enqueue(t)
    PROVE  FreshInv' /\ CallingInv' /\ TurnInv'
  <2> USE <1>EnqueueTurn
  <2> DEFINE o == work[t].object
             s == session[o]
             v == S!Enqueue(s, work[t].m)
  <2>1. work[t].stage = "checked" /\ session' = [session EXCEPT ![o] = v]
        /\ work' = [work EXCEPT ![t] = IF s.last_finished THEN [work[t] EXCEPT !.stage = "handle"]
                                       ELSE Idle]
    BY DEF Enqueue
  <2>2. work \in [Thread -> Tasks] /\ session \in [Conn -> Objects]  BY DEF TInv, TypeOK
  <2>3. work[t] \in Tasks /\ o \in Conn /\ s \in Objects  BY <2>1, Parts
  <2>4. Entries(conn, conn')  BY <1>SessionEntries DEF Session
  <2> DEFINE x == IF s.last_finished THEN [work[t] EXCEPT !.stage = "handle"] ELSE Idle
  <2>5. /\ s.last_finished => x.stage = "handle" /\ x.object = o
        /\ ~s.last_finished => x.stage = "idle"
    BY <2>3, IdleTask DEF Tasks
  <2>6. /\ ~v.last_finished
        /\ ~s.last_finished => v.last_finished = s.last_finished
    BY <2>3 DEF S!Enqueue, Objects
  <2> HIDE DEF v, x
  <2>7. work' = [work EXCEPT ![t] = x]  BY <2>1 DEF x
  <2>8. \A u \in Conn : session'[u] = IF u = o THEN v ELSE session[u]
    <3> HIDE DEF o
    <3> QED BY <2>1, <2>2
  <2>9. \A u \in Thread : work'[u] = IF u = t THEN x ELSE work[u]  BY <2>2, <2>7
  <2>10. FreshInv'
    <3>1. \A k \in Conn : conn[k].session = 0 => k # o  BY <2>1 DEF FreshInv, Fresh
    <3>2. \A k \in Conn : conn[k].session = 0 => session'[k].last_finished
      BY <2>8, <3>1 DEF FreshInv, Fresh
    <3>3. \A u \in Thread : work'[u].stage = "checked" =>
            work[u].stage = "checked" /\ work'[u].object = work[u].object
      <4>1. x.stage # "checked"  BY <2>5, SMT
      <4> QED BY <2>9, <4>1
    <3>4. \A j \in Conn : conn'[j].session = conn[j].session  BY <2>4 DEF Entries
    <3> QED BY <3>2, <3>3, <3>4, SessionFrame, <1>FreshStep
  <2>11. CallingInv'  BY <2>4, SessionFrame, <1>CallingStep
  <2>12. ASSUME NEW u \in Conn  PROVE Turn(work', functors, proposals, callbacks, session'[u], u)
    <3>1. Turn(work, functors, proposals, callbacks, session[u], u)  BY DEF TurnInv
    <3>2. ~InHand(work[t], u)  BY <2>1, SMT DEF InHand
    <3>3. HeldOnce(work, u)  BY <3>1 DEF Turn
    <3>4. /\ ~InHand(x, u) => (Held(work', u) <=> Held(work, u)) /\ HeldOnce(work', u)
          /\ ~Held(work, u) /\ InHand(x, u) => Held(work', u) /\ HeldOnce(work', u)
      BY <2>2, <2>7, <3>2, <3>3, <1>TaskOnce
    <3>5. CASE u # o
      <4>1. ~InHand(x, u)  BY <2>5, <3>5, SMT DEF InHand
      <4>2. session'[u] = session[u]  BY <2>8, <3>5
      <4> QED BY <3>1, <3>4, <4>1, <4>2 DEF Turn
    <3>6. CASE u = o /\ s.last_finished
      <4>1. InHand(x, u)  BY <2>5, <3>6, SMT DEF InHand
      <4>2. ~session'[u].last_finished  BY <2>6, <2>8, <3>6
      <4>3. /\ ~Held(work, u) /\ ~Queued(functors, u)
            /\ ~HasIn(proposals, MessageOf(u)) /\ ~Has(callbacks, MessageOf(u))
        BY <3>1, <3>6 DEF Turn
      <4> QED BY <3>1, <3>4, <4>1, <4>2, <4>3 DEF Turn
    <3>7. CASE u = o /\ ~s.last_finished
      <4>1. ~InHand(x, u)  BY <2>5, <3>7, SMT DEF InHand
      <4>2. ~session'[u].last_finished /\ ~session[u].last_finished  BY <2>6, <2>8, <3>7
      <4> QED BY <3>1, <3>4, <4>1, <4>2 DEF Turn
    <3> QED BY <3>5, <3>6, <3>7
  <2>13. TurnInv'  BY <2>12, SessionFrame DEF TurnInv
  <2> QED BY <2>10, <2>11, <2>13, SMT

\* A thread's task becomes x, and neither is in hand, or both are.
<1>TaskTurn.
    ASSUME TInv, TurnInv, NEW t \in Thread, NEW x, work' = [work EXCEPT ![t] = x],
           functors' = functors, proposals' = proposals, callbacks' = callbacks, session' = session,
           \A u \in Conn : InHand(x, u) <=> InHand(work[t], u)
    PROVE  TurnInv'
  <2> USE <1>TaskTurn
  <2>1. work \in [Thread -> Tasks]  BY DEF TInv, TypeOK
  <2>2. ASSUME NEW u \in Conn  PROVE Turn(work', functors, proposals, callbacks, session[u], u)
    <3>1. Turn(work, functors, proposals, callbacks, session[u], u)  BY DEF TurnInv
    <3>2. HeldOnce(work, u)  BY <3>1 DEF Turn
    <3>3. (Held(work', u) <=> Held(work, u)) /\ HeldOnce(work', u)
      BY <2>1, <3>2, <1>TaskOnce
    <3> QED BY <3>1, <3>3 DEF Turn
  <2> QED BY <2>2 DEF TurnInv

<1>ReceiveTurn.
    ASSUME TInv, FreshInv, CallingInv, TurnInv, NEW k \in Conn, Receive(k)
    PROVE  FreshInv' /\ CallingInv' /\ TurnInv'
  <2> USE <1>ReceiveTurn
  <2> DEFINE o == conn[k].session
             x == Work("checked", WithSession(Head(conn[k].c2s), o), o, 0)
  <2>1. work[k] = Idle /\ (work' = work \/ work' = [work EXCEPT ![k] = x])
    BY DEF Receive, Readable
  <2>2. Entries(conn, conn')  BY <1>SessionEntries
  <2>3. x.stage = "checked" /\ x.object = o  BY DEF Work
  <2>4. work \in [Thread -> Tasks] /\ k \in Thread  BY ThreadFacts DEF TInv, TypeOK
  <2> HIDE DEF x
  <2>5. FreshInv'
    <3>1. \A u \in Thread : \/ work'[u] = work[u]
                            \/ work'[u].object = conn[k].session
      BY <2>1, <2>3, <2>4
    <3>2. \A j \in Conn : conn'[j].session = conn[j].session  BY <2>2 DEF Entries
    <3>3. \A j \in Conn : conn[j].session = 0 => session'[j].last_finished
      BY LoopFrame DEF FreshInv, Fresh
    <3> QED BY <3>1, <3>2, <3>3, LoopFrame, <1>FreshStep
  <2>6. CallingInv'  BY <2>2, LoopFrame, <1>CallingStep
  <2>7. TurnInv'
    <3>1. CASE work' = work  BY <3>1, LoopFrame DEF TurnInv
    <3>2. CASE work' = [work EXCEPT ![k] = x]
      <4>1. \A u \in Conn : ~InHand(x, u)  BY <2>3, SMT DEF InHand
      <4>2. \A u \in Conn : ~InHand(work[k], u)  BY <2>1, IdleHand
      <4> QED BY <2>4, <3>2, <4>1, <4>2, LoopFrame, <1>TaskTurn
    <3> QED BY <2>1, <3>1, <3>2, SMT
  <2> QED BY <2>5, <2>6, <2>7, SMT

<1>RunFunctorTurn.
    ASSUME TInv, FreshInv, CallingInv, TurnInv, NEW k \in Conn, RunFunctor(k)
    PROVE  FreshInv' /\ CallingInv' /\ TurnInv'
  <2> USE <1>RunFunctorTurn
  <2> DEFINE q == functors[k]
             f == Head(q)
             x == Work("handle", f.m, f.object, 0)
  <2>1. work[k] = Idle /\ q # <<>> /\ work' = [work EXCEPT ![k] = x]
        /\ functors' = [functors EXCEPT ![k] = Tail(q)]
    BY DEF RunFunctor
  <2>2. Entries(conn, conn')  BY <1>SessionEntries
  <2>3. x.stage = "handle" /\ x.object = f.object  BY DEF Work
  <2>4. work \in [Thread -> Tasks] /\ k \in Thread /\ functors \in [Conn -> Seq(Items)]
    BY ThreadFacts DEF TInv, TypeOK
  <2>5. q \in Seq(Items)  BY <2>4
  <2>6. f \in Items
    <3> HIDE DEF q
    <3> QED BY <2>1, <2>5, SMT
  <2> HIDE DEF x, f, q
  <2>7. FreshInv'
    <3>1. x.stage # "checked"  BY <2>3, SMT
    <3>2. \A u \in Thread : work'[u] = work[u] \/ work'[u].stage # "checked"
      BY <2>1, <2>4, <3>1
    <3>3. \A j \in Conn : conn'[j].session = conn[j].session  BY <2>2 DEF Entries
    <3>4. \A j \in Conn : conn[j].session = 0 => session'[j].last_finished
      BY LoopFrame DEF FreshInv, Fresh
    <3> QED BY <3>2, <3>3, <3>4, LoopFrame, <1>FreshStep
  <2>8. CallingInv'  BY <2>2, LoopFrame, <1>CallingStep
  <2>9. ASSUME NEW u \in Conn  PROVE Turn(work', functors', proposals, callbacks, session[u], u)
    <3>1. Turn(work, functors, proposals, callbacks, session[u], u)  BY DEF TurnInv
    <3>2. HeldOnce(work, u) /\ QueuedOnce(functors, u) /\ Once(q, ObjectOf(u))
      BY <3>1 DEF Turn, QueuedOnce, q
    <3>3. ~InHand(work[k], u)  BY <2>1, IdleHand
    <3>4. /\ ~InHand(x, u) => (Held(work', u) <=> Held(work, u)) /\ HeldOnce(work', u)
          /\ ~Held(work, u) /\ InHand(x, u) => Held(work', u) /\ HeldOnce(work', u)
      BY <2>1, <2>4, <3>2, <3>3, <1>TaskOnce
    <3>5. /\ Once(Tail(q), ObjectOf(u))
          /\ f \notin ObjectOf(u) => (Has(Tail(q), ObjectOf(u)) <=> Has(q, ObjectOf(u)))
          /\ f \in ObjectOf(u) => Has(q, ObjectOf(u)) /\ ~Has(Tail(q), ObjectOf(u))
      BY <2>1, <2>5, <3>2, TailOnce DEF f
    <3>6. f \in ObjectOf(u) <=> u = f.object  BY <2>6 DEF ObjectOf
    <3>7. CASE u # f.object
      <4>1. ~InHand(x, u)  BY <2>3, <3>7, SMT DEF InHand
      <4>2. (Queued(functors', u) <=> Queued(functors, u)) /\ QueuedOnce(functors', u)
        <5>1. /\ Has(Tail(q), ObjectOf(u)) <=> Has(functors[k], ObjectOf(u))
              /\ Once(Tail(q), ObjectOf(u))
          BY <3>5, <3>6, <3>7 DEF q
        <5> QED BY <2>1, <2>4, <3>2, <5>1, <1>QueueOnce
      <4> QED BY <3>1, <3>4, <4>1, <4>2 DEF Turn
    <3>8. CASE u = f.object
      <4>1. InHand(x, u)  BY <2>3, <3>8, SMTT(30) DEF InHand
      <4>2. Queued(functors, u) /\ ~Queued(functors', u) /\ QueuedOnce(functors', u)
        <5>1. /\ Has(functors[k], ObjectOf(u)) /\ ~Has(Tail(q), ObjectOf(u))
              /\ Once(Tail(q), ObjectOf(u))
          BY <3>5, <3>6, <3>8 DEF q
        <5> QED BY <2>1, <2>4, <3>2, <5>1, <1>QueueOnce
      <4>3. ~Held(work, u) /\ ~session[u].last_finished  BY <3>1, <4>2 DEF Turn
      <4> QED BY <3>1, <3>4, <4>1, <4>2, <4>3 DEF Turn
    <3> QED BY <3>7, <3>8, SMT
  <2>10. TurnInv'  BY <2>9, LoopFrame DEF TurnInv
  <2> QED BY <2>7, <2>8, <2>10, SMT

<1>HandleTurn.
    ASSUME TInv, FreshInv, CallingInv, TurnInv, NEW t \in Thread, Handle(t)
    PROVE  FreshInv' /\ CallingInv' /\ TurnInv'
  <2> USE <1>HandleTurn
  <2> DEFINE o == work[t].object
             b == [m |-> work[t].m, object |-> o]
  <2>1. work[t].stage = "handle" /\ work[t] \in Tasks /\ o \in Conn /\ work[t].m \in Messages
    BY HandleStep, Parts
  <2>2. /\ \A code : /\ [work[t] EXCEPT !.stage = "reply", !.m.code = code].stage = "reply"
                     /\ [work[t] EXCEPT !.stage = "reply", !.m.code = code].object = o
        /\ [work[t] EXCEPT !.stage = "reply", !.m.type = "MT_MASTER"].stage = "reply"
        /\ [work[t] EXCEPT !.stage = "reply", !.m.type = "MT_MASTER"].object = o
    BY <2>1 DEF Tasks
  <2>3. \/ /\ proposals' = proposals
           /\ \E x : work' = [work EXCEPT ![t] = x] /\ x.stage = "reply" /\ x.object = o
        \/ /\ work' = [work EXCEPT ![t] = Idle] /\ proposals' = proposals \cup {b}
           /\ IsProposed(work[t].m)
    <3>1. CASE /\ proposals' = proposals
               /\ \E code : work' = [work EXCEPT ![t] = [work[t] EXCEPT !.stage = "reply", !.m.code = code]]
      <4>1. PICK code :
              work' = [work EXCEPT ![t] = [work[t] EXCEPT !.stage = "reply", !.m.code = code]]
        BY <3>1
      <4> DEFINE x == [work[t] EXCEPT !.stage = "reply", !.m.code = code]
      <4>2. work' = [work EXCEPT ![t] = x] /\ x.stage = "reply" /\ x.object = o  BY <2>2, <4>1
      <4> HIDE DEF x
      <4> QED BY <3>1, <4>2
    <3>2. CASE /\ proposals' = proposals
               /\ work' = [work EXCEPT ![t] = [work[t] EXCEPT !.stage = "reply", !.m.type = "MT_MASTER"]]
      BY <2>2, <3>2
    <3> QED BY <3>1, <3>2, HandleStep
  <2>4. Entries(conn, conn')  BY <1>SessionEntries DEF Session
  <2>5. work \in [Thread -> Tasks]  BY DEF TInv, TypeOK
  <2>6. FreshInv'
    <3>1. PICK x : work' = [work EXCEPT ![t] = x] /\ x.stage # "checked"
      <4>1. Idle.stage # "checked"  BY IdleTask, SMT
      <4>2. "reply" # "checked"  BY SMT
      <4> QED BY <2>3, <4>1, <4>2
    <3>2. \A u \in Thread : work'[u] = work[u] \/ work'[u].stage # "checked"  BY <2>5, <3>1
    <3>3. \A j \in Conn : conn'[j].session = conn[j].session  BY <2>4 DEF Entries
    <3>4. \A j \in Conn : conn[j].session = 0 => session'[j].last_finished
      BY SessionFrame DEF FreshInv, Fresh
    <3> QED BY <3>2, <3>3, <3>4, SessionFrame, <1>FreshStep
  <2>7. CASE /\ proposals' = proposals
             /\ \E x : work' = [work EXCEPT ![t] = x] /\ x.stage = "reply" /\ x.object = o
    <3>1. PICK x : work' = [work EXCEPT ![t] = x] /\ x.stage = "reply" /\ x.object = o  BY <2>7
    <3>2. \A u \in Conn : InHand(x, u) <=> InHand(work[t], u)  BY <2>1, <3>1, SMT DEF InHand
    <3>3. TurnInv'  BY <2>7, <3>1, <3>2, SessionFrame, <1>TaskTurn
    <3>4. CallingInv'  BY <2>4, <2>7, SessionFrame, <1>CallingStep, ZenonT(30)
    <3> QED BY <2>6, <3>3, <3>4, SMT
  <2>8. CASE /\ work' = [work EXCEPT ![t] = Idle] /\ proposals' = proposals \cup {b}
             /\ IsProposed(work[t].m)
    <3>1. b \in Items /\ b.object = o /\ b.m = work[t].m  BY <2>1 DEF Items
    <3>2. b.m.type # "MT_CONNECT"  BY <2>8, <3>1, SMT DEF IsProposed
    <3>3. \A u \in Conn : b \notin ConnectOf(u) /\ (b \in MessageOf(u) <=> u = o)
      BY <3>1, <3>2 DEF ConnectOf, MessageOf
    <3> HIDE DEF b
    <3>4. ASSUME NEW u \in Conn, Calling(u)
          PROVE  /\ OnceIn(proposals', ConnectOf(u))
                 /\ HasIn(proposals', ConnectOf(u)) <=> HasIn(proposals, ConnectOf(u))
      <4>1. OnceIn(proposals, ConnectOf(u))  BY <3>4 DEF Calling
      <4> QED BY <2>8, <3>3, <4>1, <1>SetOnce
    <3>5. CallingInv'
      BY <2>4, <3>4, SessionFrame DEF CallingInv, Calling, Entries
    <3>6. ASSUME NEW u \in Conn  PROVE Turn(work', functors, proposals', callbacks, session[u], u)
      <4>1. Turn(work, functors, proposals, callbacks, session[u], u)  BY DEF TurnInv
      <4>2. HeldOnce(work, u) /\ OnceIn(proposals, MessageOf(u))  BY <4>1 DEF Turn
      <4>3. InHand(work[t], u) <=> u = o  BY <2>1, SMT DEF InHand
      <4>4. /\ ~InHand(work[t], u) => (Held(work', u) <=> Held(work, u)) /\ HeldOnce(work', u)
            /\ InHand(work[t], u) => Held(work, u) /\ ~Held(work', u) /\ HeldOnce(work', u)
        BY <2>5, <2>8, <4>2, IdleHand, <1>TaskOnce
      <4>5. /\ u # o => /\ HasIn(proposals', MessageOf(u)) <=> HasIn(proposals, MessageOf(u))
                        /\ OnceIn(proposals', MessageOf(u))
            /\ u = o /\ ~HasIn(proposals, MessageOf(u)) =>
                 HasIn(proposals', MessageOf(u)) /\ OnceIn(proposals', MessageOf(u))
        BY <2>8, <3>3, <4>2, <1>SetOnce
      <4>6. CASE u # o  BY <4>1, <4>3, <4>4, <4>5, <4>6, ZenonT(30) DEF Turn
      <4>7. CASE u = o
        <5>1. ~HasIn(proposals, MessageOf(u))  BY <4>1, <4>3, <4>4, <4>7 DEF Turn
        <5> QED BY <4>1, <4>3, <4>4, <4>5, <4>7, <5>1, ZenonT(30) DEF Turn
      <4> QED BY <4>6, <4>7, SMT
    <3>7. TurnInv'  BY <3>6, SessionFrame, ZenonT(30) DEF TurnInv
    <3> QED BY <2>6, <3>5, <3>7, SMT
  <2> QED BY <2>3, <2>7, <2>8

<1>DoneSendTurn.
    ASSUME TInv, FreshInv, CallingInv, TurnInv, NEW t \in Thread, DoneSend(t)
    PROVE  FreshInv' /\ CallingInv' /\ TurnInv'
  <2> USE <1>DoneSendTurn
  <2> DEFINE x == [work[t] EXCEPT !.stage = "sent", !.p = Lock(session[work[t].object].conn)]
  <2>1. work[t].stage = "reply" /\ work' = [work EXCEPT ![t] = x]  BY DEF DoneSend
  <2>2. work \in [Thread -> Tasks] /\ work[t] \in Tasks  BY DEF TInv, TypeOK
  <2>3. x.stage = "sent" /\ x.object = work[t].object  BY <2>2 DEF Tasks
  <2>4. Entries(conn, conn')  BY <1>SessionEntries DEF Session
  <2> HIDE DEF x
  <2>5. FreshInv'
    <3>1. x.stage # "checked"  BY <2>3, SMT
    <3>2. \A u \in Thread : work'[u] = work[u] \/ work'[u].stage # "checked"
      BY <2>1, <2>2, <3>1
    <3>3. \A j \in Conn : conn'[j].session = conn[j].session  BY <2>4 DEF Entries
    <3>4. \A j \in Conn : conn[j].session = 0 => session'[j].last_finished
      BY SessionFrame DEF FreshInv, Fresh
    <3> QED BY <3>2, <3>3, <3>4, SessionFrame, <1>FreshStep
  <2>6. CallingInv'  BY <2>4, SessionFrame, <1>CallingStep
  <2>7. \A u \in Conn : InHand(x, u) <=> InHand(work[t], u)  BY <2>1, <2>3, SMT DEF InHand
  <2>8. TurnInv'  BY <2>1, <2>7, SessionFrame, <1>TaskTurn, ZenonT(30)
  <2> QED BY <2>5, <2>6, <2>8, SMT

\* Done hands the turn to the next message, or gives it back.
<1>DoneFinishTurn.
    ASSUME TInv, FreshInv, CallingInv, TurnInv, NEW t \in Thread, DoneFinish(t)
    PROVE  FreshInv' /\ CallingInv' /\ TurnInv'
  <2> USE <1>DoneFinishTurn
  <2> DEFINE o == work[t].object
             m == work[t].m
             p == work[t].p
             s == session[o]
             v == S!Finish(s, m, p)
             next == S!HasNext(s, m, p)
             item == [m |-> Head(s.pending_messages), object |-> o]
  <2>1. work[t].stage = "sent"  BY DEF DoneFinish
  <2>2. m \in Messages /\ o \in Conn /\ s \in Objects /\ p \in 0 .. MaxConn
    BY <2>1, Parts DEF Tasks
  <2>3. /\ session' = [session EXCEPT ![o] = v]
        /\ functors' = IF next THEN [functors EXCEPT ![p] = Append(functors[p], item)] ELSE functors
        /\ work' = [work EXCEPT ![t] = Idle]
    BY DEF DoneFinish
  <2>4. work \in [Thread -> Tasks] /\ session \in [Conn -> Objects]
        /\ functors \in [Conn -> Seq(Items)]
    BY DEF TInv, TypeOK
  <2>5. /\ next => v.last_finished = s.last_finished
        /\ ~next => v.last_finished
        /\ s.last_finished => v.last_finished
        /\ ~next => s.pending_messages = <<>> \/ v.pending_messages = <<>>
        /\ ~next => v.pending_messages = <<>>
    BY <2>2 DEF S!Finish, S!HasNext, Objects
  <2>6. next => p \in Conn /\ item \in Items
    <3>1. ASSUME next  PROVE p # 0  BY <3>1 DEF S!HasNext, S!GoesOn
    <3>2. ASSUME next  PROVE Head(s.pending_messages) \in Messages  BY <2>2, <3>2, ObjectTyped
    <3> QED BY <2>2, <3>1, <3>2, ThreadFacts DEF Items
  <2>7. Entries(conn, conn')  BY <1>SessionEntries DEF Session
  <2>8. item.object = o  OBVIOUS
  <2> HIDE DEF v, next, item
  <2>9. \A u \in Conn : session'[u] = IF u = o THEN v ELSE session[u]
    <3> HIDE DEF o
    <3> QED BY <2>3, <2>4
  <2>10. FreshInv'
    <3>1. Idle.stage # "checked"  BY IdleTask, SMT
    <3>2. \A u \in Thread : work'[u] = work[u] \/ work'[u].stage # "checked"
      BY <2>3, <2>4, <3>1
    <3>3. \A j \in Conn : conn'[j].session = conn[j].session  BY <2>7 DEF Entries
    <3>4. \A j \in Conn : conn[j].session = 0 => session'[j].last_finished
      BY <2>5, <2>9 DEF FreshInv, Fresh
    <3> QED BY <3>2, <3>3, <3>4, SessionFrame, <1>FreshStep, ZenonT(30)
  <2>11. CallingInv'  BY <2>7, SessionFrame, <1>CallingStep
  <2>12. ASSUME NEW u \in Conn  PROVE Turn(work', functors', proposals, callbacks, session'[u], u)
    <3>1. Turn(work, functors, proposals, callbacks, session[u], u)  BY DEF TurnInv
    <3>2. HeldOnce(work, u) /\ QueuedOnce(functors, u)  BY <3>1 DEF Turn
    <3>3. InHand(work[t], u) <=> u = o  BY <2>1, SMT DEF InHand
    <3>4. /\ u # o => (Held(work', u) <=> Held(work, u)) /\ HeldOnce(work', u)
          /\ u = o => Held(work, u) /\ ~Held(work', u) /\ HeldOnce(work', u)
      BY <2>3, <2>4, <3>2, <3>3, IdleHand, <1>TaskOnce, ZenonT(30)
    <3>5. ASSUME next
          PROVE  /\ u # o => (Queued(functors', u) <=> Queued(functors, u)) /\ QueuedOnce(functors', u)
                 /\ u = o /\ ~Queued(functors, u) => Queued(functors', u) /\ QueuedOnce(functors', u)
      <4> DEFINE q == functors[p]
                 r == Append(q, item)
                 A == ObjectOf(u)
      <4>1. p \in Conn /\ item \in Items /\ q \in Seq(Items)  BY <2>4, <2>6, <3>5
      <4>2. Once(q, A) /\ (~Queued(functors, u) => ~Has(q, A))
        BY <3>2, <4>1 DEF QueuedOnce, Queued
      <4>3. item \in A <=> u = o  BY <2>8, <4>1 DEF ObjectOf
      <4>4. /\ u # o => (Has(r, A) <=> Has(q, A)) /\ Once(r, A)
            /\ u = o => Has(r, A)
            /\ u = o /\ ~Has(q, A) => Once(r, A)
        BY <4>1, <4>2, <4>3, <1>AppendOnce
      <4>5. functors' = [functors EXCEPT ![p] = r]  BY <2>3, <3>5
      <4> HIDE DEF r, p
      <4>6. ASSUME u # o
            PROVE  (Queued(functors', u) <=> Queued(functors, u)) /\ QueuedOnce(functors', u)
        BY <2>4, <3>2, <4>1, <4>4, <4>5, <4>6, <1>QueueOnce, ZenonT(30)
      <4>7. ASSUME u = o, ~Queued(functors, u)
            PROVE  Queued(functors', u) /\ QueuedOnce(functors', u)
        <5>1. Has(r, ObjectOf(u)) /\ Once(r, ObjectOf(u))  BY <4>2, <4>4, <4>7
        <5>2. /\ ~Queued(functors, u) /\ Has(r, ObjectOf(u)) /\ Once(r, ObjectOf(u)) =>
                   Queued(functors', u) /\ QueuedOnce(functors', u)
          BY <2>4, <3>2, <4>1, <4>5, <1>QueueOnce, ZenonT(30)
        <5> QED BY <4>7, <5>1, <5>2
      <4> QED BY <4>6, <4>7
    <3>6. ~next => functors' = functors  BY <2>3
    <3>7. CASE u # o
      <4>1. session'[u] = session[u]  BY <2>9, <3>7
      <4>2. (Queued(functors', u) <=> Queued(functors, u)) /\ QueuedOnce(functors', u)
        BY <3>2, <3>5, <3>6, <3>7, ZenonT(30)
      <4> QED BY <3>1, <3>4, <3>7, <4>1, <4>2, ZenonT(30) DEF Turn
    <3>8. CASE u = o
      <4>1. session'[u] = v  BY <2>9, <3>8
      <4>2. /\ Held(work, u) /\ ~Queued(functors, u) /\ ~HasIn(proposals, MessageOf(u))
            /\ ~Has(callbacks, MessageOf(u)) /\ ~s.last_finished
        BY <3>1, <3>4, <3>8, ZenonT(30) DEF Turn
      <4>3. CASE next
        <5>1. Queued(functors', u) /\ QueuedOnce(functors', u)  BY <3>5, <3>8, <4>2, <4>3, ZenonT(30)
        <5>2. ~v.last_finished  BY <2>5, <4>2, <4>3, ZenonT(30)
        <5> QED BY <3>1, <3>4, <3>8, <4>1, <4>2, <5>1, <5>2, ZenonT(30) DEF Turn
      <4>4. CASE ~next
        <5>1. functors' = functors /\ v.last_finished /\ v.pending_messages = <<>>
          BY <2>5, <3>6, <4>4
        <5> QED BY <3>1, <3>4, <3>8, <4>1, <4>2, <5>1, ZenonT(30) DEF Turn
      <4> QED BY <4>3, <4>4, SMT
    <3> QED BY <3>7, <3>8, SMT
  <2>13. TurnInv'  BY <2>12, SessionFrame DEF TurnInv
  <2> QED BY <2>10, <2>11, <2>13, SMT

\* A decided proposal moves to the callbacks.
<1>PaxosTurn.
    ASSUME TInv, FreshInv, CallingInv, TurnInv, Paxos
    PROVE  FreshInv' /\ CallingInv' /\ TurnInv'
  <2> USE <1>PaxosTurn
  <2>1. PICK pr \in proposals : Execute(pr) \/ Fail(pr)  BY DEF Paxos
  <2>2. PICK m \in Messages : /\ callbacks' = Append(callbacks, [m |-> m, object |-> pr.object])
                              /\ m.type = pr.m.type
    BY <2>1, DecidedStep
  <2>3. proposals' = proposals \ {pr} /\ pr \in Items  BY <2>1, DecidedStep
  <2>4. /\ session' = session /\ sessions' = sessions /\ cleaning' = cleaning /\ work' = work
        /\ functors' = functors /\ conn' = conn
    BY <2>1, PaxosFrame, ZenonT(30)
  <2> DEFINE b == [m |-> m, object |-> pr.object]
  <2>5. b \in Items /\ b.object = pr.object /\ b.m = m  BY <2>3 DEF Items
  <2>6. callbacks \in Seq(Items) /\ callbacks' = Append(callbacks, b)  BY <2>2 DEF TInv, TypeOK
  <2> HIDE DEF b
  <2>7. \A u \in Conn : /\ b \in ConnectOf(u) <=> pr \in ConnectOf(u)
                        /\ b \in MessageOf(u) <=> pr \in MessageOf(u)
    BY <2>2, <2>3, <2>5 DEF ConnectOf, MessageOf
  <2>8. ASSUME NEW A, b \in A <=> pr \in A, OnceIn(proposals, A), Once(callbacks, A),
               ~(HasIn(proposals, A) /\ Has(callbacks, A))
        PROVE  /\ OnceIn(proposals', A) /\ Once(callbacks', A)
               /\ ~(HasIn(proposals', A) /\ Has(callbacks', A))
               /\ HasIn(proposals', A) \/ Has(callbacks', A) <=> HasIn(proposals, A) \/ Has(callbacks, A)
    <3>1. /\ OnceIn(proposals', A)
          /\ pr \notin A => (HasIn(proposals', A) <=> HasIn(proposals, A))
          /\ pr \in A => HasIn(proposals, A) /\ ~HasIn(proposals', A)
      BY <2>3, <2>8, <1>SetOnce
    <3>2. /\ b \notin A => (Has(callbacks', A) <=> Has(callbacks, A))
          /\ b \notin A => Once(callbacks', A)
          /\ b \in A => Has(callbacks', A)
          /\ b \in A /\ ~Has(callbacks, A) => Once(callbacks', A)
      BY <2>5, <2>6, <2>8, <1>AppendOnce, ZenonT(30)
    <3> QED BY <2>8, <3>1, <3>2
  <2>9. FreshInv'  BY <2>4 DEF FreshInv, Fresh
  <2>10. ASSUME NEW u \in Conn  PROVE Calling(u)'
    <3>1. /\ OnceIn(proposals, ConnectOf(u)) /\ Once(callbacks, ConnectOf(u))
          /\ ~(HasIn(proposals, ConnectOf(u)) /\ Has(callbacks, ConnectOf(u)))
      BY DEF CallingInv, Calling
    <3>2. /\ OnceIn(proposals', ConnectOf(u)) /\ Once(callbacks', ConnectOf(u))
          /\ ~(HasIn(proposals', ConnectOf(u)) /\ Has(callbacks', ConnectOf(u)))
          /\ HasIn(proposals', ConnectOf(u)) \/ Has(callbacks', ConnectOf(u)) <=>
               HasIn(proposals, ConnectOf(u)) \/ Has(callbacks, ConnectOf(u))
      BY <2>7, <2>8, <3>1
    <3> QED BY <2>4, <3>2 DEF CallingInv, Calling
  <2>11. ASSUME NEW u \in Conn  PROVE Turn(work, functors, proposals', callbacks', session[u], u)
    <3>1. Turn(work, functors, proposals, callbacks, session[u], u)  BY DEF TurnInv
    <3>2. /\ OnceIn(proposals, MessageOf(u)) /\ Once(callbacks, MessageOf(u))
          /\ ~(HasIn(proposals, MessageOf(u)) /\ Has(callbacks, MessageOf(u)))
      BY <3>1 DEF Turn
    <3>3. /\ OnceIn(proposals', MessageOf(u)) /\ Once(callbacks', MessageOf(u))
          /\ ~(HasIn(proposals', MessageOf(u)) /\ Has(callbacks', MessageOf(u)))
          /\ HasIn(proposals', MessageOf(u)) \/ Has(callbacks', MessageOf(u)) <=>
               HasIn(proposals, MessageOf(u)) \/ Has(callbacks, MessageOf(u))
      BY <2>7, <2>8, <3>2
    <3> QED BY <3>1, <3>3 DEF Turn
  <2>12. TurnInv'  BY <2>4, <2>11 DEF TurnInv
  <2>13. CallingInv'  BY <2>10 DEF CallingInv
  <2> QED BY <2>9, <2>12, <2>13, SMTT(30)

\* The callback thread takes a message up.
<1>CallbackMessageTurn.
    ASSUME TInv, FreshInv, CallingInv, TurnInv, CallbackMessage
    PROVE  FreshInv' /\ CallingInv' /\ TurnInv'
  <2> USE <1>CallbackMessageTurn
  <2> DEFINE b == Head(callbacks)
             x == Work("reply", b.m, b.object, 0)
             t == CallbackThread
  <2>1. /\ work[t] = Idle /\ callbacks # <<>> /\ b.m.type # "MT_CONNECT"
        /\ work' = [work EXCEPT ![t] = x] /\ callbacks' = Tail(callbacks)
    BY DEF CallbackMessage
  <2>2. b \in Items  BY <2>1, Parts
  <2>3. work \in [Thread -> Tasks] /\ callbacks \in Seq(Items) /\ t \in Thread
    BY ThreadFacts DEF TInv, TypeOK
  <2>4. x.stage = "reply" /\ x.object = b.object  BY DEF Work
  <2>5. Entries(conn, conn')  BY <1>SessionEntries
  <2> HIDE DEF x, t
  <2>6. \A A : Once(callbacks, A) =>
          /\ Once(callbacks', A)
          /\ b \notin A => (Has(callbacks', A) <=> Has(callbacks, A))
          /\ b \in A => Has(callbacks, A) /\ ~Has(callbacks', A)
    BY <2>1, <2>3, TailOnce
  <2>7. \A u \in Conn : b \notin ConnectOf(u) /\ (b \in MessageOf(u) <=> u = b.object)
    BY <2>1, <2>2 DEF ConnectOf, MessageOf
  <2> HIDE DEF b
  <2>8. FreshInv'
    <3>1. x.stage # "checked"  BY <2>4, SMT
    <3>2. \A u \in Thread : work'[u] = work[u] \/ work'[u].stage # "checked"
      BY <2>1, <2>3, <3>1
    <3>3. \A j \in Conn : conn'[j].session = conn[j].session  BY <2>5 DEF Entries
    <3>4. \A j \in Conn : conn[j].session = 0 => session'[j].last_finished
      BY CallbackFrame DEF FreshInv, Fresh
    <3> QED BY <3>2, <3>3, <3>4, CallbackFrame, <1>FreshStep
  <2>9. ASSUME NEW u \in Conn  PROVE Calling(u)'
    <3>1. Calling(u) /\ Once(callbacks, ConnectOf(u))  BY DEF CallingInv, Calling
    <3>2. Once(callbacks', ConnectOf(u)) /\ (Has(callbacks', ConnectOf(u)) <=> Has(callbacks, ConnectOf(u)))
      BY <2>6, <2>7, <3>1
    <3> QED BY <3>1, <3>2, CallbackFrame DEF Calling
  <2>10. ASSUME NEW u \in Conn  PROVE Turn(work', functors, proposals, callbacks', session[u], u)
    <3>1. Turn(work, functors, proposals, callbacks, session[u], u)  BY DEF TurnInv
    <3>2. HeldOnce(work, u) /\ Once(callbacks, MessageOf(u))  BY <3>1 DEF Turn
    <3>3. ~InHand(work[t], u)  BY <2>1, IdleHand
    <3>4. /\ ~InHand(x, u) => (Held(work', u) <=> Held(work, u)) /\ HeldOnce(work', u)
          /\ ~Held(work, u) /\ InHand(x, u) => Held(work', u) /\ HeldOnce(work', u)
      BY <2>1, <2>3, <3>2, <3>3, <1>TaskOnce
    <3>5. InHand(x, u) <=> u = b.object  BY <2>4, SMT DEF InHand
    <3>6. /\ Once(callbacks', MessageOf(u))
          /\ u # b.object => (Has(callbacks', MessageOf(u)) <=> Has(callbacks, MessageOf(u)))
          /\ u = b.object => Has(callbacks, MessageOf(u)) /\ ~Has(callbacks', MessageOf(u))
      BY <2>6, <2>7, <3>2
    <3>7. CASE u # b.object  BY <3>1, <3>4, <3>5, <3>6, <3>7 DEF Turn
    <3>8. CASE u = b.object  BY <3>1, <3>4, <3>5, <3>6, <3>8 DEF Turn
    <3> QED BY <3>7, <3>8, SMT
  <2>11. TurnInv'  BY <2>10, CallbackFrame DEF TurnInv
  <2>12. CallingInv'  BY <2>9 DEF CallingInv
  <2> QED BY <2>8, <2>11, <2>12, SMT

\* The callback of a connect binds its connection, which has no session yet.
<1>CallbackConnectTurn.
    ASSUME TInv, FreshInv, CallingInv, TurnInv, CallbackConnect
    PROVE  FreshInv' /\ CallingInv' /\ TurnInv'
  <2> USE <1>CallbackConnectTurn
  <2> DEFINE b == Head(callbacks)
             k == b.object
             sid == b.m.session_id
             t == CallbackThread
  <2>1. /\ work[t] = Idle /\ callbacks # <<>> /\ callbacks' = Tail(callbacks)
        /\ b.m.type = "MT_CONNECT" /\ k \in Conn /\ sid \in Nat
    BY ConnectStep
  <2>2. PICK x \in Tasks : /\ work' = [work EXCEPT ![t] = x] /\ x.stage = "respond"
    BY ConnectStep
  <2>3. \/ /\ conn' = [conn EXCEPT ![k].started = FALSE]
           /\ session' = session /\ sessions' = sessions
        \/ \E o \in Conn, s \in Objects : Binds(k, sid, o, s)
    BY ConnectStep
  <2>4. b \in Items  BY <2>1, Parts
  <2>5. /\ work \in [Thread -> Tasks] /\ callbacks \in Seq(Items) /\ t \in Thread
        /\ conn \in [Conn -> Connections] /\ session \in [Conn -> Objects]
    BY ThreadFacts DEF TInv, TypeOK
  <2>6. /\ functors' = functors /\ proposals' = proposals /\ cleaning' = cleaning
    BY CallbackFrame
  <2>7. \A A : Once(callbacks, A) =>
          /\ Once(callbacks', A)
          /\ b \notin A => (Has(callbacks', A) <=> Has(callbacks, A))
          /\ b \in A => Has(callbacks, A) /\ ~Has(callbacks', A)
    BY <2>1, <2>5, TailOnce
  <2>8. \A u \in Conn : (b \in ConnectOf(u) <=> u = k) /\ b \notin MessageOf(u)
    BY <2>1, <2>4 DEF ConnectOf, MessageOf
  <2>9. k # 0 /\ conn[k] \in Connections  BY <2>1, <2>5, ThreadFacts
  <2> HIDE DEF b, k, t, sid
  <2>10. /\ conn[k].session = 0 /\ conn[k].started /\ Fresh(k)
         /\ ~HasIn(proposals, ConnectOf(k)) /\ ~Has(callbacks', ConnectOf(k))
    <3>1. Calling(k) /\ Fresh(k)  BY <2>1 DEF CallingInv, FreshInv
    <3>2. Has(callbacks, ConnectOf(k)) /\ ~Has(callbacks', ConnectOf(k))
      BY <2>1, <2>7, <2>8, <3>1 DEF Calling
    <3> QED BY <3>1, <3>2 DEF Calling
  <2>11. \A u \in Thread : work'[u].stage = "checked" => work'[u] = work[u]
    <3>1. x.stage # "checked"  BY <2>2, SMT
    <3> QED BY <2>2, <2>5, <3>1
  <2>12. ASSUME NEW u \in Conn, NEW s, s.last_finished = session[u].last_finished,
                s.last_finished => s.pending_messages = <<>>
         PROVE  Turn(work', functors, proposals, callbacks', s, u)
    <3>1. Turn(work, functors, proposals, callbacks, session[u], u)  BY DEF TurnInv
    <3>2. HeldOnce(work, u) /\ Once(callbacks, MessageOf(u))  BY <3>1 DEF Turn
    <3>3. ~InHand(work[t], u)  BY <2>1, IdleHand
    <3>4. ~InHand(x, u)  BY <2>2, SMT DEF InHand
    <3>5. (Held(work', u) <=> Held(work, u)) /\ HeldOnce(work', u)
      BY <2>2, <2>5, <3>2, <3>3, <3>4, <1>TaskOnce, ZenonT(30)
    <3>6. Once(callbacks', MessageOf(u)) /\ (Has(callbacks', MessageOf(u)) <=> Has(callbacks, MessageOf(u)))
      BY <2>7, <2>8, <3>2
    <3> QED BY <2>12, <3>1, <3>5, <3>6 DEF Turn
  <2>13. ASSUME NEW u \in Conn
         PROVE  /\ Once(callbacks', ConnectOf(u))
                /\ u # k => (Has(callbacks', ConnectOf(u)) <=> Has(callbacks, ConnectOf(u)))
    <3>1. Once(callbacks, ConnectOf(u))  BY DEF CallingInv, Calling
    <3> QED BY <2>7, <2>8, <3>1
  <2>14. ASSUME \A j \in Conn : j # k => /\ conn'[j].session = conn[j].session
                                          /\ conn'[j].started = conn[j].started,
                conn'[k].session # 0 => conn'[k].started
         PROVE  CallingInv'
    <3>1. ASSUME NEW u \in Conn  PROVE Calling(u)'
      <4>1. Calling(u)  BY DEF CallingInv
      <4>2. CASE u # k  BY <2>6, <2>13, <2>14, <4>1, <4>2 DEF Calling
      <4>3. CASE u = k  BY <2>6, <2>10, <2>13, <2>14, <4>1, <4>3, ZenonT(30) DEF Calling
      <4> QED BY <4>2, <4>3, SMT
    <3> QED BY <3>1 DEF CallingInv
  <2>15. \A u \in Conn : Turn(work, functors, proposals, callbacks, session[u], u)
    BY DEF TurnInv
  <2>16. CASE /\ conn' = [conn EXCEPT ![k].started = FALSE]
              /\ session' = session /\ sessions' = sessions
    <3>1. conn'[k].session = 0 /\ \A j \in Conn : j # k => conn'[j] = conn[j]
      BY <2>1, <2>5, <2>9, <2>10, <2>16 DEF Connections
    <3>2. \A j \in Conn : conn'[j].session = conn[j].session  BY <2>10, <3>1
    <3>3. CallingInv'  BY <2>14, <3>1
    <3>4. \A u \in Conn : session[u].last_finished => session[u].pending_messages = <<>>
      BY <2>15 DEF Turn
    <3>5. TurnInv'  BY <2>6, <2>12, <2>16, <3>4 DEF TurnInv
    <3>6. FreshInv'  BY <2>6, <2>11, <2>16, <3>2, <1>FreshStep DEF FreshInv, Fresh
    <3> QED BY <3>3, <3>5, <3>6, SMTT(30)
  <2>17. ASSUME NEW o \in Conn, NEW s \in Objects, Binds(k, sid, o, s)
         PROVE  FreshInv' /\ CallingInv' /\ TurnInv'
    <3>1. /\ session' = [session EXCEPT ![o] = s] /\ sessions' = Put(sessions, sid, o)
          /\ conn' = [conn EXCEPT ![k].session = o] /\ s.pending_messages = <<>>
          /\ \/ sid \in DOMAIN sessions /\ o = sessions[sid] /\ s.last_finished = session[o].last_finished
             \/ o = k /\ s.last_finished
      BY <2>17 DEF Binds
    <3>2. /\ conn'[k].session = o /\ conn'[k].started = conn[k].started /\ o # 0
          /\ \A j \in Conn : j # k => conn'[j] = conn[j]
      BY <2>1, <2>5, <2>9, <3>1, ThreadFacts DEF Connections
    <3>3. CallingInv'  BY <2>10, <2>14, <3>2
    <3>4. session'[o] = s /\ \A u \in Conn : u # o => session'[u] = session[u]  BY <2>5, <3>1
    <3>5. s.last_finished = session[o].last_finished
      <4>1. session[k].last_finished  BY <2>10 DEF Fresh
      <4>2. s.last_finished \in BOOLEAN /\ session[k].last_finished \in BOOLEAN
        BY <2>1, <2>5 DEF Objects
      <4> QED BY <3>1, <4>1, <4>2
    <3>6. \A u \in Conn : Turn(work', functors, proposals, callbacks', session'[u], u)
      <4>1. ASSUME NEW u \in Conn, u # o  PROVE Turn(work', functors, proposals, callbacks', session'[u], u)
        <5>1. session[u].last_finished => session[u].pending_messages = <<>>  BY <2>15 DEF Turn
        <5>2. session'[u] = session[u]  BY <3>4, <4>1
        <5> QED BY <2>12, <5>1, <5>2
      <4>2. Turn(work', functors, proposals, callbacks', session'[o], o)
        BY <2>12, <3>1, <3>4, <3>5
      <4> QED BY <4>1, <4>2
    <3>7. TurnInv'  BY <2>6, <3>6 DEF TurnInv
    <3>8. ASSUME NEW j \in Conn, conn'[j].session = 0
          PROVE  /\ session'[j].last_finished
                 /\ \A i \in DOMAIN sessions' : sessions'[i] # j
                 /\ j \notin cleaning'.todo /\ j \notin cleaning'.told
                 /\ \A i \in Conn : conn'[i].session # j
                 /\ \A u \in Thread : work'[u].stage = "checked" => work'[u].object # j
      <4>1. j # k /\ conn[j].session = 0  BY <3>2, <3>8
      <4>2. /\ session[j].last_finished
            /\ \A i \in DOMAIN sessions : sessions[i] # j
            /\ j \notin cleaning.todo /\ j \notin cleaning.told
            /\ \A i \in Conn : conn[i].session # j
            /\ \A u \in Thread : work[u].stage = "checked" => work[u].object # j
        BY <4>1 DEF FreshInv, Fresh
      <4>3. j # o  BY <3>1, <4>1, <4>2
      <4>4. session'[j].last_finished  BY <3>4, <4>2, <4>3
      <4>5. \A i \in DOMAIN sessions' : sessions'[i] # j
        <5>1. \A i \in DOMAIN sessions' : sessions'[i] = o \/ (i \in DOMAIN sessions /\ sessions'[i] = sessions[i])
          BY <3>1, SMT DEF Put
        <5> QED BY <4>2, <4>3, <5>1
      <4>6. \A i \in Conn : conn'[i].session # j  BY <3>2, <4>2, <4>3
      <4>7. \A u \in Thread : work'[u].stage = "checked" => work'[u].object # j  BY <2>11, <4>2
      <4> QED BY <2>6, <4>2, <4>4, <4>5, <4>6, <4>7, ZenonT(30)
    <3>9. FreshInv'  BY <3>8 DEF FreshInv, Fresh
    <3> QED BY <3>3, <3>7, <3>9, SMTT(30)
  <2> QED BY <2>3, <2>16, <2>17

<1>CallbackRespondTurn.
    ASSUME TInv, FreshInv, CallingInv, TurnInv, CallbackRespond
    PROVE  FreshInv' /\ CallingInv' /\ TurnInv'
  <2> USE <1>CallbackRespondTurn
  <2> DEFINE t == CallbackThread
  <2>1. work[t].stage = "respond" /\ work' = [work EXCEPT ![t] = Idle]  BY DEF CallbackRespond
  <2>2. work \in [Thread -> Tasks] /\ t \in Thread  BY ThreadFacts DEF TInv, TypeOK
  <2>3. Entries(conn, conn')  BY <1>SessionEntries
  <2> HIDE DEF t
  <2>4. FreshInv'
    <3>1. Idle.stage # "checked"  BY IdleTask, SMT
    <3>2. \A u \in Thread : work'[u] = work[u] \/ work'[u].stage # "checked"
      BY <2>1, <2>2, <3>1, ZenonT(30)
    <3>3. \A j \in Conn : conn'[j].session = conn[j].session  BY <2>3 DEF Entries
    <3>4. \A j \in Conn : conn[j].session = 0 => session'[j].last_finished
      BY CallbackFrame DEF FreshInv, Fresh
    <3> QED BY <3>2, <3>3, <3>4, CallbackFrame, <1>FreshStep, ZenonT(30)
  <2>5. CallingInv'  BY <2>3, CallbackFrame, <1>CallingStep
  <2>6. \A u \in Conn : InHand(Idle, u) <=> InHand(work[t], u)
    <3>1. \A u \in Conn : ~InHand(work[t], u)  BY <2>1, SMT DEF InHand
    <3> QED BY <3>1, IdleHand
  <2>7. TurnInv'  BY <2>1, <2>2, <2>6, CallbackFrame, <1>TaskTurn, ZenonT(30)
  <2> QED BY <2>4, <2>5, <2>7, SMTT(30)

\* CleanSessions tells sessions of the server's map.
<1>CleanTurn.
    ASSUME TInv, FreshInv, CallingInv, TurnInv, Clean
    PROVE  FreshInv' /\ CallingInv' /\ TurnInv'
  <2> USE <1>CleanTurn
  <2>1. Entries(conn, conn')  BY <1>SessionEntries
  <2>2. \A j \in Conn : conn'[j].session = conn[j].session  BY <2>1 DEF Entries
  <2>3. cleaning \in [due : BOOLEAN, held : BOOLEAN, todo : SUBSET Conn, told : SUBSET Conn]
        /\ work \in [Thread -> Tasks]
    BY DEF TInv, TypeOK
  <2>4. \A j \in Conn : conn[j].session = 0 => session[j].last_finished  BY DEF FreshInv, Fresh
  <2>5. CASE CleanSessions
    <3>1. cleaning'.told = {} /\ cleaning'.todo = {sessions[sid] : sid \in DOMAIN sessions}
      BY <2>5 DEF CleanSessions
    <3>2. FreshInv'  BY <2>2, <2>4, <2>5, <3>1, MasterFrame, <1>FreshStep
    <3> QED BY <2>1, <2>5, <3>2, MasterFrame, <1>CallingStep DEF TurnInv
  <2>6. CASE CleanEnd
    <3>1. sessions' = EmptyMap /\ cleaning'.told = cleaning.told /\ cleaning'.todo = cleaning.todo
      BY <2>3, <2>6 DEF CleanEnd
    <3>2. DOMAIN sessions' = {}  BY <3>1, SMT DEF EmptyMap
    <3>3. FreshInv'  BY <2>2, <2>4, <2>6, <3>1, <3>2, MasterFrame, <1>FreshStep, ZenonT(30)
    <3> QED BY <2>1, <2>6, <3>3, MasterFrame, <1>CallingStep DEF TurnInv
  <2>7. ASSUME NEW o \in Conn, CleanNext(o)  PROVE FreshInv' /\ CallingInv' /\ TurnInv'
    <3> DEFINE t == RunLoopThread
               x == Work("checked", C!Message("MT_MASTER", 0, 0), o, 0)
    <3>1. /\ work[t] = Idle /\ o \in cleaning.todo
          /\ cleaning' = [cleaning EXCEPT !.todo = @ \ {o}, !.told = @ \cup {o}]
          /\ work' = work \/ work' = [work EXCEPT ![t] = x]
      BY <2>7 DEF CleanNext
    <3>2. cleaning'.todo = cleaning.todo \ {o} /\ cleaning'.told = cleaning.told \cup {o}
      BY <2>3, <3>1
    <3>3. x.stage = "checked" /\ x.object = o /\ t \in Thread  BY ThreadFacts DEF Work
    <3> HIDE DEF x, t
    <3>4. \A u \in Thread : work'[u] = work[u] \/ work'[u].object = o  BY <2>3, <3>1, <3>3
    <3>5. FreshInv'  BY <2>2, <2>4, <2>7, <3>1, <3>2, <3>4, MasterFrame, <1>FreshStep, ZenonT(30)
    <3>6. CallingInv'  BY <2>1, <2>7, MasterFrame, <1>CallingStep
    <3>7. CASE work' = work  BY <2>7, <3>5, <3>6, <3>7, MasterFrame DEF TurnInv
    <3>8. CASE work' = [work EXCEPT ![t] = x]
      <4>1. \A u \in Conn : ~InHand(x, u)  BY <3>3, SMT DEF InHand
      <4>2. \A u \in Conn : ~InHand(work[t], u)  BY <3>1, IdleHand
      <4>3. TurnInv'  BY <2>7, <3>3, <3>8, <4>1, <4>2, MasterFrame, <1>TaskTurn, ZenonT(30)
      <4> QED BY <3>5, <3>6, <4>3, SMTT(30)
    <3> QED BY <3>1, <3>7, <3>8, SMTT(30)
  <2> QED BY <2>5, <2>6, <2>7 DEF Clean

\* A connect is proposed only for a connection that has not started.
<1>ReceiveConnectTurn.
    ASSUME TInv, FreshInv, CallingInv, TurnInv, NEW k \in Conn, ReceiveConnect(k)
    PROVE  FreshInv' /\ CallingInv' /\ TurnInv'
  <2> USE <1>ReceiveConnectTurn
  <2>1. /\ \A j \in Conn : conn'[j].session = conn[j].session
        /\ \A j \in Conn : conn[j].started => conn'[j].started
        /\ \/ proposals' = proposals
           \/ /\ ~conn[k].started /\ conn'[k].started
              /\ \E b \in ConnectOf(k) : proposals' = proposals \cup {b}
    BY <1>ReceiveConnectStep
  <2>2. /\ session' = session /\ sessions' = sessions /\ cleaning' = cleaning /\ work' = work
        /\ functors' = functors /\ callbacks' = callbacks
    BY LoopFrame
  <2>3. FreshInv'
    <3> SUFFICES ASSUME NEW u \in Conn, conn[u].session = 0  PROVE Fresh(u)'
      BY <2>1 DEF FreshInv, Fresh
    <3>1. /\ session[u].last_finished
          /\ \A sid \in DOMAIN sessions : sessions[sid] # u
          /\ u \notin cleaning.todo /\ u \notin cleaning.told
          /\ \A j \in Conn : conn[j].session # u
          /\ \A t \in Thread : work[t].stage = "checked" => work[t].object # u
      BY DEF FreshInv, Fresh
    <3>2. \A j \in Conn : conn'[j].session # u  BY <2>1, <3>1
    <3> QED BY <2>2, <3>1, <3>2 DEF Fresh
  <2>4. CASE proposals' = proposals
    BY <2>1, <2>2, <2>3, <2>4 DEF CallingInv, Calling, TurnInv
  <2>5. ASSUME NEW b \in ConnectOf(k), proposals' = proposals \cup {b},
               ~conn[k].started, conn'[k].started
        PROVE  CallingInv' /\ TurnInv'
    <3>1. \A u \in Conn : b \notin MessageOf(u) /\ (b \in ConnectOf(u) <=> u = k)
      BY DEF ConnectOf, MessageOf
    <3>2. ASSUME NEW u \in Conn  PROVE Calling(u)'
      <4>1. Calling(u) /\ OnceIn(proposals, ConnectOf(u))  BY DEF CallingInv, Calling
      <4>2. /\ u # k => /\ HasIn(proposals', ConnectOf(u)) <=> HasIn(proposals, ConnectOf(u))
                        /\ OnceIn(proposals', ConnectOf(u))
            /\ u = k /\ ~HasIn(proposals, ConnectOf(u)) =>
                 HasIn(proposals', ConnectOf(u)) /\ OnceIn(proposals', ConnectOf(u))
        BY <2>5, <3>1, <4>1, <1>SetOnce
      <4>3. CASE u # k  BY <2>1, <2>2, <4>1, <4>2, <4>3 DEF Calling
      <4>4. CASE u = k  BY <2>1, <2>2, <2>5, <4>1, <4>2, <4>4, ZenonT(30) DEF Calling
      <4> QED BY <4>3, <4>4, SMT
    <3>3. ASSUME NEW u \in Conn  PROVE Turn(work, functors, proposals', callbacks, session[u], u)
      <4>1. Turn(work, functors, proposals, callbacks, session[u], u)  BY DEF TurnInv
      <4>2. OnceIn(proposals, MessageOf(u))  BY <4>1 DEF Turn
      <4>3. /\ HasIn(proposals', MessageOf(u)) <=> HasIn(proposals, MessageOf(u))
            /\ OnceIn(proposals', MessageOf(u))
        BY <2>5, <3>1, <4>2, <1>SetOnce, ZenonT(30)
      <4> QED BY <4>1, <4>3 DEF Turn
    <3> QED BY <2>2, <3>2, <3>3 DEF CallingInv, TurnInv
  <2> QED BY <2>1, <2>3, <2>4, <2>5

<1> SUFFICES ASSUME TInv, FreshInv, CallingInv, TurnInv, [Next]_vars
    PROVE  FreshInv' /\ CallingInv' /\ TurnInv'
  OBVIOUS
<1>1. CASE UNCHANGED vars
  <2>1. /\ session' = session /\ sessions' = sessions /\ cleaning' = cleaning /\ work' = work
        /\ functors' = functors /\ callbacks' = callbacks /\ conn' = conn /\ proposals' = proposals
    BY <1>1, SMT DEF vars, clientVars, serverVars, paxosVars, history
  <2> QED BY <2>1 DEF FreshInv, Fresh, CallingInv, Calling, TurnInv
<1>2. CASE \/ User \/ Network \/ ClientLoop \/ LoseMaster  BY <1>2, <1>QuietStep
<1>3. CASE Callback
  BY <1>3, <1>CallbackMessageTurn, <1>CallbackConnectTurn, <1>CallbackRespondTurn DEF Callback
<1>4. CASE Paxos \/ Clean  BY <1>4, <1>PaxosTurn, <1>CleanTurn
<1>5. CASE \E k \in Conn : Loop(k)
  BY <1>5, <1>ReceiveConnectTurn, <1>ReceiveTurn, <1>RunFunctorTurn DEF Loop
<1>6. CASE \E t \in Thread : Session(t)
  BY <1>6, <1>EnqueueTurn, <1>HandleTurn, <1>DoneSendTurn, <1>DoneFinishTurn DEF Session
<1> QED BY <1>1, <1>2, <1>3, <1>4, <1>5, <1>6 DEF Next

\* Before the first step no session has a message and none is in use.
\* Before the first step no session has a message and none is in use.
LEMMA InitTurn == Init => FreshInv /\ CallingInv /\ TurnInv
<1> SUFFICES ASSUME Init  PROVE FreshInv /\ CallingInv /\ TurnInv
  BY SMT
<1>1. /\ conn = [k \in Conn |-> NewConn] /\ session = [k \in Conn |-> NoSession]
      /\ sessions = EmptyMap /\ work = [t \in Thread |-> Idle]
      /\ cleaning = [due |-> FALSE, held |-> FALSE, todo |-> {}, told |-> {}]
      /\ functors = [k \in Conn |-> <<>>] /\ proposals = {} /\ callbacks = <<>>
  BY DEF Init
<1>2. NewConn.session = 0 /\ NoSession.last_finished /\ NoSession.pending_messages = <<>>
  BY SMT DEF NewConn, NoSession, S!NewSession
<1>3. DOMAIN sessions = {} /\ cleaning.todo = {} /\ cleaning.told = {}  BY <1>1, SMT DEF EmptyMap
<1>4. \A A : ~Has(<<>>, A) /\ Once(<<>>, A)  BY SMT DEF Has, Once
<1>5. \A A : ~HasIn({}, A) /\ OnceIn({}, A)  BY SMT DEF HasIn, OnceIn
<1>6. \A t \in Thread : work[t] = Idle  BY <1>1
<1>7. \A k \in Conn : conn[k].session = 0 /\ session[k] = NoSession /\ functors[k] = <<>>
  BY <1>1, <1>2
<1>8. FreshInv
  <2>1. Idle.stage # "checked" /\ \A k \in Conn : k # 0  BY IdleTask, ThreadFacts, SMT
  <2> QED BY <1>2, <1>3, <1>6, <1>7, <2>1 DEF FreshInv, Fresh
<1>9. CallingInv  BY <1>1, <1>4, <1>5, <1>7 DEF CallingInv, Calling
<1>10. TurnInv
  <2>1. \A u \in Conn : ~Held(work, u) /\ HeldOnce(work, u)
    BY <1>6, IdleHand DEF Held, HeldOnce
  <2>2. \A u \in Conn : ~Queued(functors, u) /\ QueuedOnce(functors, u)
    BY <1>4, <1>7 DEF Queued, QueuedOnce
  <2> QED BY <1>1, <1>2, <1>4, <1>5, <1>7, <2>1, <2>2 DEF TurnInv, Turn
<1> QED BY <1>8, <1>9, <1>10, SMT

\* A set whose members are all one is a singleton.
\* A set whose members are all one is a singleton.
LEMMA Single ==
  ASSUME NEW X, NEW a \in X, \A b \in X : b = a
  PROVE  \E c \in X : X = {c}
BY SMT

\* One message in hand is one place, and none is no place.
LEMMA TurnPlaces ==
  ASSUME TInv, TurnInv
  PROVE  OneAtATime
<1> SUFFICES ASSUME NEW o \in Conn
             PROVE  IF session[o].last_finished
                    THEN Handling(o) = {} /\ session[o].pending_messages = <<>>
                    ELSE \E place \in Handling(o) : Handling(o) = {place}
  BY DEF OneAtATime
<1>1. Turn(work, functors, proposals, callbacks, session[o], o)  BY DEF TurnInv
<1>2. /\ functors \in [Conn -> Seq(Items)] /\ callbacks \in Seq(Items) /\ proposals \subseteq Items
  BY DEF TInv, TypeOK
<1> DEFINE A == InThread(o)
           B == UNION {InLoop(k, o) : k \in Conn}
           P == Proposed(o)
           D == ToCallBack(o)
<1>3. Handling(o) = A \cup B \cup P \cup D  BY SMT DEF Handling
<1>4. /\ Held(work, o) => \E a \in A : A = {a}
      /\ ~Held(work, o) => A = {}
  <2>1. HeldOnce(work, o)  BY <1>1 DEF Turn
  <2>2. \A a : a \in A <=> \E t \in Thread : InHand(work[t], o) /\ a = <<"thread", t>>
    BY SMT DEF InHand, InThread
  <2> HIDE DEF A
  <2>3. CASE ~Held(work, o)  BY <2>2, <2>3, SMT DEF Held
  <2>4. CASE Held(work, o)
    <3>1. PICK t \in Thread : InHand(work[t], o)  BY <2>4 DEF Held
    <3>2. \A a \in A : a = <<"thread", t>>  BY <2>1, <2>2, <3>1 DEF HeldOnce
    <3>3. <<"thread", t>> \in A  BY <2>2, <3>1, ZenonT(30)
    <3> QED BY <2>4, <3>2, <3>3, Single
  <2> QED BY <2>3, <2>4, SMT
<1>5. /\ Queued(functors, o) => \E a \in B : B = {a}
      /\ ~Queued(functors, o) => B = {}
  <2>1. QueuedOnce(functors, o)  BY <1>1 DEF Turn
  <2>2. \A a : a \in B <=> \E k \in Conn : \E i \in 1 .. Len(functors[k]) :
                             functors[k][i] \in ObjectOf(o) /\ a = <<"loop", k, i>>
    <3>1. \A a : a \in B <=> \E k \in Conn : a \in InLoop(k, o)
      BY SMT
    <3>2. ASSUME NEW k \in Conn, NEW a
          PROVE  a \in InLoop(k, o) <=> \E i \in 1 .. Len(functors[k]) :
                                  functors[k][i] \in ObjectOf(o) /\ a = <<"loop", k, i>>
      <4> DEFINE q == functors[k]
      <4>1. q \in Seq(Items)  BY <1>2
      <4>2. a \in InLoop(k, o) <=> \E i \in DOMAIN q : q[i].object = o /\ a = <<"loop", k, i>>
        BY SMT DEF InLoop
      <4> HIDE DEF q
      <4>3. DOMAIN q = 1 .. Len(q) /\ \A j \in 1 .. Len(q) : q[j] \in Items  BY <4>1, SMT
      <4>4. \A j \in 1 .. Len(q) : q[j].object = o <=> q[j] \in ObjectOf(o)  BY <4>3 DEF ObjectOf
      <4>5. a \in InLoop(k, o) <=> \E i \in 1 .. Len(q) : q[i] \in ObjectOf(o) /\ a = <<"loop", k, i>>
        BY <4>2, <4>3, <4>4
      <4> QED BY <4>5 DEF q
    <3> DEFINE At(k, a) == \E i \in 1 .. Len(functors[k]) :
                             functors[k][i] \in ObjectOf(o) /\ a = <<"loop", k, i>>
    <3>3. \A k \in Conn : \A a : a \in InLoop(k, o) <=> At(k, a)  BY <3>2
    <3> HIDE DEF B, At
    <3>4. \A a : a \in B <=> \E k \in Conn : At(k, a)  BY <3>1, <3>3
    <3> QED BY <3>4 DEF At
  <2> HIDE DEF B
  <2>3. CASE ~Queued(functors, o)
    <3>1. \A a : a \notin B  BY <2>2, <2>3 DEF Queued, Has
    <3> QED BY <2>3, <3>1, SMT
  <2>4. CASE Queued(functors, o)
    <3>1. PICK k \in Conn : Has(functors[k], ObjectOf(o))  BY <2>4 DEF Queued
    <3>2. PICK i \in 1 .. Len(functors[k]) : functors[k][i] \in ObjectOf(o)  BY <3>1 DEF Has
    <3>3. \A a \in B : a = <<"loop", k, i>>
      <4> SUFFICES ASSUME NEW j \in Conn, NEW h \in 1 .. Len(functors[j]), functors[j][h] \in ObjectOf(o)
                   PROVE  j = k /\ h = i
        BY <2>2, ZenonT(30)
      <4>1. j = k  BY <2>1, <3>1 DEF QueuedOnce, Has
      <4>2. h = i  BY <2>1, <3>2, <4>1 DEF QueuedOnce, Once
      <4> QED BY <4>1, <4>2, SMT
    <3>4. <<"loop", k, i>> \in B  BY <2>2, <3>2
    <3> DEFINE a == <<"loop", k, i>>
    <3> HIDE DEF a
    <3>5. a \in B /\ \A c \in B : c = a  BY <3>3, <3>4 DEF a
    <3>6. \E c \in B : B = {c}  BY <3>5, SMT
    <3> QED BY <2>4, <3>6
  <2> QED BY <2>3, <2>4, SMT
<1>6. /\ HasIn(proposals, MessageOf(o)) => \E a \in P : P = {a}
      /\ ~HasIn(proposals, MessageOf(o)) => P = {}
  <2>1. OnceIn(proposals, MessageOf(o))  BY <1>1 DEF Turn
  <2>2. \A x \in proposals : IsMessageOf(x, o) <=> x \in MessageOf(o)
    BY <1>2 DEF IsMessageOf, MessageOf
  <2>3. \A a : a \in P <=> \E x \in proposals : x \in MessageOf(o) /\ a = <<"proposed", x>>
    BY <2>2, SMT DEF Proposed
  <2> HIDE DEF P
  <2>4. CASE ~HasIn(proposals, MessageOf(o))  BY <2>3, <2>4, SMT DEF HasIn
  <2>5. CASE HasIn(proposals, MessageOf(o))
    <3>1. PICK x \in proposals : x \in MessageOf(o)  BY <2>5 DEF HasIn
    <3>2. \A a \in P : a = <<"proposed", x>>  BY <2>1, <2>3, <3>1 DEF OnceIn
    <3>3. <<"proposed", x>> \in P  BY <2>3, <3>1
    <3> QED BY <2>5, <3>2, <3>3, Single
  <2> QED BY <2>4, <2>5, SMT
<1>7. /\ Has(callbacks, MessageOf(o)) => \E a \in D : D = {a}
      /\ ~Has(callbacks, MessageOf(o)) => D = {}
  <2>1. Once(callbacks, MessageOf(o))  BY <1>1 DEF Turn
  <2>2. DOMAIN callbacks = 1 .. Len(callbacks) /\ \A j \in 1 .. Len(callbacks) : callbacks[j] \in Items
    BY <1>2, SMT
  <2>3. \A j \in 1 .. Len(callbacks) : IsMessageOf(callbacks[j], o) <=> callbacks[j] \in MessageOf(o)
    BY <2>2 DEF IsMessageOf, MessageOf
  <2>4. \A a : a \in D <=> \E i \in DOMAIN callbacks :
                             IsMessageOf(callbacks[i], o) /\ a = <<"decided", i>>
    BY SMT DEF ToCallBack
  <2> HIDE DEF D
  <2>5. \A a : a \in D <=> \E i \in 1 .. Len(callbacks) :
                             callbacks[i] \in MessageOf(o) /\ a = <<"decided", i>>
    BY <2>2, <2>3, <2>4
  <2>6. CASE ~Has(callbacks, MessageOf(o))
    <3>1. \A a : a \notin D  BY <2>5, <2>6 DEF Has
    <3> QED BY <2>6, <3>1, SMT
  <2>7. CASE Has(callbacks, MessageOf(o))
    <3>1. PICK i \in 1 .. Len(callbacks) : callbacks[i] \in MessageOf(o)  BY <2>7 DEF Has
    <3>2. \A a \in D : a = <<"decided", i>>  BY <2>1, <2>5, <3>1 DEF Once
    <3>3. <<"decided", i>> \in D  BY <2>5, <3>1
    <3> DEFINE a == <<"decided", i>>
    <3> HIDE DEF a
    <3>4. a \in D /\ \A c \in D : c = a  BY <3>2, <3>3 DEF a
    <3>5. \E c \in D : D = {c}  BY <3>4, SMT
    <3> QED BY <2>7, <3>5
  <2> QED BY <2>6, <2>7, SMT
<1> HIDE DEF A, B, P, D
<1>8. CASE session[o].last_finished
  <2>1. A = {} /\ B = {} /\ P = {} /\ D = {} /\ session[o].pending_messages = <<>>
    BY <1>1, <1>4, <1>5, <1>6, <1>7, <1>8 DEF Turn
  <2> QED BY <1>3, <1>8, <2>1, SMT
<1>9. CASE ~session[o].last_finished
  <2>1. \/ (\E a \in A : A = {a}) /\ B = {} /\ P = {} /\ D = {}
        \/ A = {} /\ (\E a \in B : B = {a}) /\ P = {} /\ D = {}
        \/ A = {} /\ B = {} /\ (\E a \in P : P = {a}) /\ D = {}
        \/ A = {} /\ B = {} /\ P = {} /\ (\E a \in D : D = {a})
    BY <1>1, <1>4, <1>5, <1>6, <1>7, <1>9 DEF Turn
  <2>2. \E a \in Handling(o) : Handling(o) = {a}  BY <1>3, <2>1, SMT
  <2> QED BY <1>9, <2>2
<1> QED BY <1>8, <1>9, SMT

-----------------------------------------------------------------------------
(* A session that CleanSessions has visited: the message that names the    *)
(* master is in a thread, waits in the session or in a loop, until Done    *)
(* closes the session.                                                     *)

Names(x, o) == x.object = o /\ x.m.type = "MT_MASTER"

NamesMaster(w, f, s, o) ==
  \/ s.closed
  \/ \E t \in Thread : Names(w[t], o)
  \/ \E i \in 1 .. Len(s.pending_messages) : s.pending_messages[i].type = "MT_MASTER"
  \/ \E k \in Conn : \E i \in 1 .. Len(f[k]) : Names(f[k][i], o)

ToldInv == \A o \in cleaning.told : NamesMaster(work, functors, session[o], o)

\* No session that was visited is in the map once the lock is released, so
\* no connect opens it again.
MapInv == ~cleaning.held => \A sid \in DOMAIN sessions : sessions[sid] \notin cleaning.told

\* Every step keeps the message that closes a visited session on its way, and
\* the visited sessions out of the map.
\* Every step keeps the message that closes a visited session on its way, and
\* the visited sessions out of the map.
LEMMA NextNames ==
  TInv /\ HInv /\ FreshInv /\ CallingInv /\ ToldInv /\ MapInv /\ [Next]_vars
  => ToldInv' /\ MapInv'

\* A thread's task becomes x, which names the master if the task did.
<1>TaskNames.
    ASSUME NEW w \in [Thread -> Tasks], NEW t \in Thread, NEW x, NEW o, NEW f, NEW s,
           Names(w[t], o) => Names(x, o), NamesMaster(w, f, s, o)
    PROVE  NamesMaster([w EXCEPT ![t] = x], f, s, o)
  <2> USE <1>TaskNames
  <2> DEFINE v == [w EXCEPT ![t] = x]
  <2>1. v[t] = x /\ \A u \in Thread : u # t => v[u] = w[u]  OBVIOUS
  <2> HIDE DEF v
  <2>2. (\E u \in Thread : Names(w[u], o)) => \E u \in Thread : Names(v[u], o)  BY <2>1
  <2>3. NamesMaster(v, f, s, o)  BY <2>2 DEF NamesMaster
  <2> QED BY <2>3 DEF v

\* What RunFunctor, Enqueue and Done do to the message that names the master.
<1>TailNames.
    ASSUME NEW q \in Seq(Items), q # <<>>, NEW o, NEW i \in 1 .. Len(q), Names(q[i], o)
    PROVE  Names(Head(q), o) \/ \E j \in 1 .. Len(Tail(q)) : Names(Tail(q)[j], o)
  <2> USE <1>TailNames
  <2>1. /\ Head(q) = q[1]
        /\ \A j \in 1 .. Len(q) : j = 1 \/ (j - 1 \in 1 .. Len(Tail(q)) /\ Tail(q)[j - 1] = q[j])
    BY SMT
  <2>2. CASE i = 1  BY <2>1, <2>2
  <2>3. CASE i # 1
    <3>1. i - 1 \in 1 .. Len(Tail(q)) /\ Tail(q)[i - 1] = q[i]  BY <2>1, <2>3
    <3> QED BY <3>1
  <2> QED BY <2>2, <2>3, SMT

<1>RunFunctorNames.
    ASSUME TInv, ToldInv, NEW k \in Conn, RunFunctor(k)
    PROVE  ToldInv'
  <2> USE <1>RunFunctorNames
  <2> DEFINE q == functors[k]
             f == Head(q)
             x == Work("handle", f.m, f.object, 0)
  <2>1. work[k] = Idle /\ q # <<>> /\ work' = [work EXCEPT ![k] = x]
        /\ functors' = [functors EXCEPT ![k] = Tail(q)]
    BY DEF RunFunctor
  <2>2. work \in [Thread -> Tasks] /\ k \in Thread /\ functors \in [Conn -> Seq(Items)]
    BY ThreadFacts DEF TInv, TypeOK
  <2>3. q \in Seq(Items) /\ x.object = f.object /\ x.m = f.m  BY <2>2 DEF Work
  <2>4. \A o : ~Names(work[k], o)
    <3>1. work[k].m.type # "MT_MASTER"  BY <2>1, IdleTask, SMT
    <3> QED BY <3>1 DEF Names
  <2> HIDE DEF x
  <2>5. ASSUME NEW o, NamesMaster(work, functors, session[o], o)
        PROVE  NamesMaster(work', functors', session[o], o)
    <3>1. NamesMaster(work', functors, session[o], o)  BY <2>1, <2>2, <2>4, <2>5, <1>TaskNames
    <3>2. work'[k] = x  BY <2>1, <2>2
    <3>3. Names(f, o) => Names(work'[k], o)  BY <2>3, <3>2 DEF Names
    <3>4. functors'[k] = Tail(q) /\ \A j \in Conn : j # k => functors'[j] = functors[j]
      BY <2>1, <2>2
    <3>5. ASSUME NEW j \in Conn, NEW i \in 1 .. Len(functors[j]), Names(functors[j][i], o)
          PROVE  NamesMaster(work', functors', session[o], o)
      <4>1. CASE j # k
        <5>1. functors'[j] = functors[j]  BY <3>4, <4>1
        <5> QED BY <3>5, <5>1 DEF NamesMaster
      <4>2. CASE j = k
        <5>1. Names(f, o) \/ \E h \in 1 .. Len(Tail(q)) : Names(Tail(q)[h], o)
          BY <2>1, <2>3, <3>5, <4>2, <1>TailNames
        <5>2. CASE Names(f, o)  BY <2>2, <3>3, <5>2 DEF NamesMaster
        <5>3. CASE \E h \in 1 .. Len(Tail(q)) : Names(Tail(q)[h], o)
          <6>1. \E h \in 1 .. Len(functors'[k]) : Names(functors'[k][h], o)  BY <3>4, <5>3
          <6> QED BY <6>1 DEF NamesMaster
        <5> QED BY <5>1, <5>2, <5>3, SMT
      <4> QED BY <4>1, <4>2, SMT
    <3> QED BY <3>1, <3>5 DEF NamesMaster
  <2> QED BY <2>5, LoopFrame DEF ToldInv

<1>EnqueueNames.
    ASSUME TInv, ToldInv, NEW t \in Thread, Enqueue(t)
    PROVE  ToldInv'
  <2> USE <1>EnqueueNames
  <2> DEFINE o == work[t].object
             m == work[t].m
             s == session[o]
             v == S!Enqueue(s, m)
             x == IF s.last_finished THEN [work[t] EXCEPT !.stage = "handle"] ELSE Idle
  <2>1. work[t].stage = "checked" /\ session' = [session EXCEPT ![o] = v]
        /\ work' = [work EXCEPT ![t] = x]
    BY DEF Enqueue
  <2>2. work \in [Thread -> Tasks] /\ session \in [Conn -> Objects]
        /\ cleaning.told \subseteq Conn
    BY DEF TInv, TypeOK
  <2>3. work[t] \in Tasks /\ o \in Conn /\ s \in Objects /\ m \in Messages  BY <2>1, Parts
  <2>4. s.last_finished => \A u : Names(work[t], u) => Names(x, u)
    BY <2>3 DEF Tasks, Names
  <2>5. v.closed = s.closed /\ (s.last_finished => v.pending_messages = s.pending_messages)
    BY <2>3 DEF S!Enqueue, Objects
  <2>6. ASSUME ~s.last_finished
        PROVE  /\ m.type = "MT_MASTER" => v.pending_messages = <<m>>
               /\ m.type # "MT_MASTER" => v.pending_messages = Append(s.pending_messages, m)
    BY <2>3, <2>6 DEF S!Enqueue, Objects
  <2>7. s.pending_messages \in Seq(Messages)  BY <2>3 DEF Objects
  <2> HIDE DEF v, x
  <2>8. \A u \in Conn : session'[u] = IF u = o THEN v ELSE session[u]
    <3> HIDE DEF o
    <3> QED BY <2>1, <2>2
  <2>9. ASSUME NEW u \in cleaning.told  PROVE NamesMaster(work', functors, session'[u], u)
    <3>1. u \in Conn /\ NamesMaster(work, functors, session[u], u)  BY <2>2 DEF ToldInv
    <3>2. CASE u # o
      <4>1. session'[u] = session[u] /\ ~Names(work[t], u)  BY <2>8, <3>1, <3>2 DEF Names
      <4> QED BY <2>1, <2>2, <3>1, <4>1, <1>TaskNames
    <3>3. CASE u = o /\ s.last_finished
      <4>1. NamesMaster(work', functors, session[u], u)
        BY <2>1, <2>2, <2>4, <3>1, <3>3, <1>TaskNames
      <4>2. /\ session'[u].closed = session[u].closed
            /\ session'[u].pending_messages = session[u].pending_messages
        BY <2>5, <2>8, <3>1, <3>3
      <4> QED BY <4>1, <4>2 DEF NamesMaster
    <3>4. CASE u = o /\ ~s.last_finished
      <4>1. session'[u] = v  BY <2>8, <3>1, <3>4
      <4>2. CASE m.type = "MT_MASTER"
        <5>1. v.pending_messages = <<m>>  BY <2>6, <3>4, <4>2
        <5>2. 1 \in 1 .. Len(<<m>>) /\ <<m>>[1] = m  BY SMT
        <5>3. \E i \in 1 .. Len(v.pending_messages) : v.pending_messages[i].type = "MT_MASTER"
          BY <4>2, <5>1, <5>2
        <5> QED BY <4>1, <5>3 DEF NamesMaster
      <4>3. CASE m.type # "MT_MASTER"
        <5>1. ~Names(work[t], u)  BY <4>3 DEF Names
        <5>2. NamesMaster(work', functors, session[u], u)
          BY <2>1, <2>2, <3>1, <5>1, <1>TaskNames
        <5> DEFINE q == s.pending_messages
        <5>3. v.pending_messages = Append(q, m)  BY <2>6, <3>4, <4>3
        <5>4. \A i \in 1 .. Len(q) : i \in 1 .. Len(Append(q, m)) /\ Append(q, m)[i] = q[i]
          <6> HIDE DEF q, m
          <6>1. q \in Seq(Messages) /\ m \in Messages  BY <2>3, <2>7, SMT DEF q, m
          <6> QED BY <6>1, SMT
        <5>5. (\E i \in 1 .. Len(q) : q[i].type = "MT_MASTER") =>
                \E i \in 1 .. Len(v.pending_messages) : v.pending_messages[i].type = "MT_MASTER"
          BY <5>3, <5>4
        <5> QED BY <2>5, <3>4, <4>1, <5>2, <5>5 DEF NamesMaster
      <4> QED BY <4>2, <4>3, SMTT(30)
    <3> QED BY <3>2, <3>3, <3>4
  <2> QED BY <2>9, SessionFrame DEF ToldInv

<1>DoneFinishNames.
    ASSUME TInv, ToldInv, NEW t \in Thread, DoneFinish(t)
    PROVE  ToldInv'
  <2> USE <1>DoneFinishNames
  <2> DEFINE o == work[t].object
             m == work[t].m
             p == work[t].p
             s == session[o]
             v == S!Finish(s, m, p)
             next == S!HasNext(s, m, p)
             q == s.pending_messages
             item == [m |-> Head(q), object |-> o]
  <2>1. work[t].stage = "sent"  BY DEF DoneFinish
  <2>2. m \in Messages /\ o \in Conn /\ s \in Objects /\ p \in 0 .. MaxConn
    BY <2>1, Parts DEF Tasks
  <2>3. /\ session' = [session EXCEPT ![o] = v]
        /\ functors' = IF next THEN [functors EXCEPT ![p] = Append(functors[p], item)] ELSE functors
        /\ work' = [work EXCEPT ![t] = Idle]
    BY DEF DoneFinish
  <2>4. /\ work \in [Thread -> Tasks] /\ session \in [Conn -> Objects]
        /\ functors \in [Conn -> Seq(Items)] /\ cleaning.told \subseteq Conn
    BY DEF TInv, TypeOK
  <2>5. /\ next => p # 0 /\ q # <<>> /\ m.type # "MT_MASTER"
        /\ next => v.closed = s.closed /\ v.pending_messages = Tail(q)
    <3>1. next => p # 0 /\ q # <<>> /\ m.type # "MT_MASTER"  BY SMT DEF S!HasNext, S!GoesOn
    <3>2. next => v.closed = s.closed /\ v.pending_messages = Tail(q)
      BY <2>2 DEF S!Finish, Objects
    <3> QED BY <3>1, <3>2, SMT
  <2>6. /\ ~next => v.closed \/ (m.type # "MT_MASTER" /\ v.closed = s.closed /\ q = <<>>)
    <3>1. ~next /\ S!GoesOn(m, p) => q = <<>>  BY DEF S!HasNext
    <3>2. S!GoesOn(m, p) => m.type # "MT_MASTER"  BY SMT DEF S!GoesOn
    <3>3. ~next => v.closed \/ (S!GoesOn(m, p) /\ v.closed = s.closed)
      BY <2>2 DEF S!Finish, Objects
    <3> QED BY <3>1, <3>2, <3>3
  <2>7. q \in Seq(Messages)  BY <2>2 DEF Objects
  <2>8. item.object = o /\ item.m = Head(q)  OBVIOUS
  <2>9. next => p \in Conn /\ item \in Items /\ functors[p] \in Seq(Items)
    <3>1. ASSUME next  PROVE Head(q) \in Messages
      <4>1. q # <<>>  BY <2>5, <3>1
      <4> HIDE DEF q
      <4> QED BY <2>7, <4>1, SMT
    <3> QED BY <2>2, <2>4, <2>5, <3>1, ThreadFacts DEF Items
  <2> HIDE DEF v, next, item
  <2>10. \A u \in Conn : session'[u] = IF u = o THEN v ELSE session[u]
    <3> HIDE DEF o
    <3> QED BY <2>3, <2>4
  <2>11. \A u, j \in Conn : \A i \in 1 .. Len(functors[j]) :
           Names(functors[j][i], u) => i \in 1 .. Len(functors'[j]) /\ Names(functors'[j][i], u)
    <3>1. CASE ~next  BY <2>3, <3>1
    <3>2. CASE next
      <4> HIDE DEF p
      <4> DEFINE h == functors[p]
      <4>1. /\ functors'[p] = Append(h, item)
            /\ \A j \in Conn : j # p => functors'[j] = functors[j]
        BY <2>3, <2>4, <2>9, <3>2
      <4>2. h \in Seq(Items) /\ item \in Items  BY <2>9, <3>2
      <4> HIDE DEF h
      <4>3. \A i \in 1 .. Len(h) : i \in 1 .. Len(Append(h, item)) /\ Append(h, item)[i] = h[i]
        BY <4>2, SMT
      <4>4. \A i \in 1 .. Len(functors[p]) : i \in 1 .. Len(functors'[p]) /\ functors'[p][i] = functors[p][i]
        BY <4>1, <4>3 DEF h
      <4> QED BY <4>1, <4>4
    <3> QED BY <3>1, <3>2, SMT
  <2>12. ASSUME NEW u \in Conn, NEW z, NamesMaster(work', functors, z, u)
         PROVE  NamesMaster(work', functors', z, u)
    BY <2>11, <2>12 DEF NamesMaster
  <2>13. ASSUME NEW u \in cleaning.told  PROVE NamesMaster(work', functors', session'[u], u)
    <3>1. u \in Conn /\ NamesMaster(work, functors, session[u], u)  BY <2>4 DEF ToldInv
    <3>2. CASE u # o
      <4>1. session'[u] = session[u] /\ ~Names(work[t], u)  BY <2>10, <3>1, <3>2 DEF Names
      <4>2. NamesMaster(work', functors, session[u], u)
        BY <2>3, <2>4, <3>1, <4>1, <1>TaskNames
      <4> QED BY <2>12, <3>1, <4>1, <4>2
    <3>3. CASE u = o /\ ~next
      <4>1. session'[u] = v  BY <2>10, <3>1, <3>3
      <4>2. CASE v.closed  BY <4>1, <4>2 DEF NamesMaster
      <4>3. CASE m.type # "MT_MASTER" /\ v.closed = s.closed /\ q = <<>>
        <5>1. ~Names(work[t], u)  BY <4>3 DEF Names
        <5>2. NamesMaster(work', functors, session[u], u)
          BY <2>3, <2>4, <3>1, <5>1, <1>TaskNames
        <5>3. ~\E i \in 1 .. Len(q) : q[i].type = "MT_MASTER"  BY <4>3, SMT
        <5>4. NamesMaster(work', functors, v, u)
          BY <3>3, <4>3, <5>2, <5>3 DEF NamesMaster
        <5> QED BY <2>12, <3>1, <4>1, <5>4
      <4> QED BY <2>6, <3>3, <4>2, <4>3
    <3>4. CASE u = o /\ next
      <4>1. session'[u] = v  BY <2>10, <3>1, <3>4
      <4>2. ~Names(work[t], u)  BY <2>5, <3>4 DEF Names
      <4>3. NamesMaster(work', functors, session[u], u)
        BY <2>3, <2>4, <3>1, <4>2, <1>TaskNames
      <4>4. ASSUME NEW i \in 1 .. Len(q), q[i].type = "MT_MASTER"
            PROVE  NamesMaster(work', functors', v, u)
        <5>1. q # <<>>  BY <2>5, <3>4
        <5>2. /\ Head(q) = q[1]
              /\ \A j \in 1 .. Len(q) : j = 1 \/ (j - 1 \in 1 .. Len(Tail(q)) /\ Tail(q)[j - 1] = q[j])
          <6> HIDE DEF q
          <6> QED BY <2>7, <5>1, SMT
        <5>3. CASE i # 1
          <6>1. i - 1 \in 1 .. Len(Tail(q)) /\ Tail(q)[i - 1].type = "MT_MASTER"
            BY <4>4, <5>2, <5>3
          <6>2. v.pending_messages = Tail(q)  BY <2>5, <3>4
          <6>3. \E j \in 1 .. Len(v.pending_messages) : v.pending_messages[j].type = "MT_MASTER"
            BY <6>1, <6>2
          <6> QED BY <6>3 DEF NamesMaster
        <5>4. CASE i = 1
          <6> HIDE DEF p
          <6>1. Names(item, u)  BY <2>8, <3>4, <4>4, <5>2, <5>4 DEF Names
          <6> DEFINE h == functors[p]
          <6>2. functors'[p] = Append(h, item)  BY <2>3, <2>4, <2>9, <3>4
          <6>3. h \in Seq(Items) /\ item \in Items /\ p \in Conn  BY <2>9, <3>4
          <6> HIDE DEF h
          <6>4. Len(h) + 1 \in 1 .. Len(Append(h, item)) /\ Append(h, item)[Len(h) + 1] = item
            BY <6>3, SMT
          <6>5. \E j \in 1 .. Len(functors'[p]) : Names(functors'[p][j], u)
            BY <6>1, <6>2, <6>4
          <6> QED BY <6>3, <6>5 DEF NamesMaster
        <5> QED BY <5>3, <5>4, SMT
      <4>5. v.closed = s.closed  BY <2>5, <3>4
      <4>6. NamesMaster(work', functors', session[u], u)  BY <2>12, <3>1, <4>3
      <4>7. NamesMaster(work', functors', v, u)
        BY <3>4, <4>4, <4>5, <4>6 DEF NamesMaster
      <4> QED BY <4>1, <4>7
    <3> QED BY <3>2, <3>3, <3>4
  <2> QED BY <2>13, SessionFrame DEF ToldInv

\* The other steps of a thread.
<1>ThreadNames.
    ASSUME TInv, ToldInv, NEW t \in Thread, NEW x, work' = [work EXCEPT ![t] = x],
           \A o \in Conn : Names(work[t], o) => Names(x, o),
           functors' = functors, session' = session, cleaning' = cleaning
    PROVE  ToldInv'
  <2> USE <1>ThreadNames
  <2>1. work \in [Thread -> Tasks] /\ cleaning.told \subseteq Conn  BY DEF TInv, TypeOK
  <2>2. ASSUME NEW u \in cleaning.told  PROVE NamesMaster(work', functors, session[u], u)
    <3>1. u \in Conn /\ NamesMaster(work, functors, session[u], u)  BY <2>1 DEF ToldInv
    <3>2. Names(work[t], u) => Names(x, u)  BY <3>1
    <3> QED BY <2>1, <3>1, <3>2, <1>TaskNames
  <2> QED BY <2>2 DEF ToldInv

<1>SessionNames.
    ASSUME TInv, ToldInv, NEW t \in Thread, Session(t)
    PROVE  ToldInv'
  <2> USE <1>SessionNames
  <2>1. CASE Enqueue(t)  BY <2>1, <1>EnqueueNames
  <2>2. CASE DoneFinish(t)  BY <2>2, <1>DoneFinishNames
  <2>3. CASE DoneSend(t)
    <3> DEFINE x == [work[t] EXCEPT !.stage = "sent", !.p = Lock(session[work[t].object].conn)]
    <3>1. work' = [work EXCEPT ![t] = x]  BY <2>3 DEF DoneSend
    <3>2. work[t] \in Tasks  BY Parts
    <3>3. x.m = work[t].m /\ x.object = work[t].object  BY <3>2 DEF Tasks
    <3> HIDE DEF x
    <3>4. \A o \in Conn : Names(work[t], o) => Names(x, o)  BY <3>3 DEF Names
    <3> QED BY <2>3, <3>1, <3>4, SessionFrame, <1>ThreadNames
  <2>4. CASE Handle(t)
    <3>1. work[t] \in Tasks /\ work[t].m \in Messages  BY Parts
    <3>2. ASSUME NEW code, work' = [work EXCEPT ![t] = [work[t] EXCEPT !.stage = "reply", !.m.code = code]]
          PROVE  ToldInv'
      <4> DEFINE x == [work[t] EXCEPT !.stage = "reply", !.m.code = code]
      <4>1. x.m.type = work[t].m.type /\ x.object = work[t].object
        BY <3>1 DEF Tasks, Messages
      <4>2. work' = [work EXCEPT ![t] = x]  BY <3>2
      <4> HIDE DEF x
      <4>3. \A o \in Conn : Names(work[t], o) => Names(x, o)  BY <4>1 DEF Names
      <4> QED BY <2>4, <4>2, <4>3, SessionFrame, <1>ThreadNames
    <3>3. CASE work' = [work EXCEPT ![t] = [work[t] EXCEPT !.stage = "reply", !.m.type = "MT_MASTER"]]
      <4> DEFINE x == [work[t] EXCEPT !.stage = "reply", !.m.type = "MT_MASTER"]
      <4>1. x.m.type = "MT_MASTER" /\ x.object = work[t].object
        BY <3>1 DEF Tasks, Messages
      <4>2. work' = [work EXCEPT ![t] = x]  BY <3>3
      <4> HIDE DEF x
      <4>3. \A o \in Conn : Names(work[t], o) => Names(x, o)  BY <4>1 DEF Names
      <4> QED BY <2>4, <4>2, <4>3, SessionFrame, <1>ThreadNames
    <3>4. CASE work' = [work EXCEPT ![t] = Idle] /\ IsProposed(work[t].m)
      <4>1. work[t].m.type # "MT_MASTER"  BY <3>4, SMT DEF IsProposed
      <4>2. \A o \in Conn : Names(work[t], o) => Names(Idle, o)  BY <4>1 DEF Names
      <4> QED BY <2>4, <3>4, <4>2, SessionFrame, <1>ThreadNames
    <3> QED BY <2>4, <3>2, <3>3, <3>4, HandleStep
  <2> QED BY <2>1, <2>2, <2>3, <2>4 DEF Session

\* A thread that is idle gets a task.
<1>IdleNames.
    ASSUME TInv, ToldInv, NEW t \in Thread, work[t] = Idle, NEW x, work' = [work EXCEPT ![t] = x],
           functors' = functors, session' = session, cleaning' = cleaning
    PROVE  ToldInv'
  <2> USE <1>IdleNames
  <2>1. work[t].m.type # "MT_MASTER"  BY IdleTask, SMT
  <2>2. \A o \in Conn : Names(work[t], o) => Names(x, o)  BY <2>1 DEF Names
  <2> QED BY <2>2, <1>ThreadNames

<1>CallbackNames.
    ASSUME TInv, HInv, FreshInv, CallingInv, ToldInv, MapInv, Callback
    PROVE  ToldInv' /\ MapInv'
  <2> USE <1>CallbackNames
  <2> DEFINE t == CallbackThread
  <2>1. t \in Thread /\ work \in [Thread -> Tasks] /\ session \in [Conn -> Objects]
        /\ cleaning.told \subseteq Conn
    BY ThreadFacts DEF TInv, TypeOK
  <2>2. CASE CallbackMessage
    <3>1. PICK x : work[t] = Idle /\ work' = [work EXCEPT ![t] = x]  BY <2>2 DEF CallbackMessage
    <3> HIDE DEF t
    <3> QED BY <2>1, <2>2, <3>1, CallbackFrame, <1>IdleNames DEF MapInv
  <2>3. CASE CallbackRespond
    <3>1. work[t].stage = "respond" /\ work' = [work EXCEPT ![t] = Idle]
      BY <2>3 DEF CallbackRespond
    <3>2. work[t].m.type = "MT_CONNECT"  BY <2>1, <3>1 DEF HInv, HonestTask
    <3>3. work[t].m.type # "MT_MASTER"  BY <3>2, SMT
    <3> HIDE DEF t
    <3>4. \A o \in Conn : Names(work[t], o) => Names(Idle, o)  BY <3>3 DEF Names
    <3> QED BY <2>1, <2>3, <3>1, <3>4, CallbackFrame, <1>ThreadNames DEF MapInv
  <2>4. CASE CallbackConnect
    <3> DEFINE k == Head(callbacks).object
               sid == Head(callbacks).m.session_id
    <3>1. work[t] = Idle /\ k \in Conn  BY <2>4, ConnectStep
    <3>2. PICK x : work' = [work EXCEPT ![t] = x]  BY <2>4, ConnectStep
    <3>3. \/ session' = session /\ sessions' = sessions
          \/ \E o \in Conn, s \in Objects : Binds(k, sid, o, s)
      BY <2>4, ConnectStep
    <3>4. cleaning' = cleaning /\ functors' = functors  BY <2>4, CallbackFrame
    <3>5. conn[k].session = 0
      <4>1. callbacks \in Seq(Items) /\ callbacks # <<>> /\ Head(callbacks) \in ConnectOf(k)
        <5>1. callbacks # <<>> /\ Head(callbacks).m.type = "MT_CONNECT"  BY <2>4, ConnectStep
        <5>2. Head(callbacks) \in Items  BY <5>1, Parts
        <5> QED BY <5>1, <5>2 DEF ConnectOf, TInv, TypeOK
      <4>2. Calling(k)  BY <3>1 DEF CallingInv
      <4> HIDE DEF k
      <4>3. Has(callbacks, ConnectOf(k))  BY <4>1, <4>2, TailOnce DEF Calling
      <4> QED BY <4>2, <4>3 DEF Calling
    <3>6. k \notin cleaning.told  BY <3>1, <3>5 DEF FreshInv, Fresh
    <3> HIDE DEF k, sid, t
    <3>7. CASE session' = session /\ sessions' = sessions
      BY <2>1, <3>1, <3>2, <3>4, <3>7, <1>IdleNames DEF MapInv
    <3>8. ASSUME NEW o \in Conn, NEW s \in Objects, Binds(k, sid, o, s)
          PROVE  ToldInv' /\ MapInv'
      <4>1. /\ session' = [session EXCEPT ![o] = s] /\ sessions' = Put(sessions, sid, o)
            /\ ~cleaning.held /\ ((sid \in DOMAIN sessions /\ o = sessions[sid]) \/ o = k)
        BY <3>8 DEF Binds
      <4>2. o \notin cleaning.told  BY <3>6, <4>1 DEF MapInv
      <4>3. MapInv'
        <5>1. \A i \in DOMAIN sessions' : sessions'[i] = o \/ (i \in DOMAIN sessions /\ sessions'[i] = sessions[i])
          BY <4>1, SMT DEF Put
        <5> QED BY <3>4, <4>1, <4>2, <5>1 DEF MapInv
      <4>4. ASSUME NEW u \in cleaning.told  PROVE NamesMaster(work', functors', session'[u], u)
        <5>1. u \in Conn /\ NamesMaster(work, functors, session[u], u)  BY <2>1 DEF ToldInv
        <5>2. session'[u] = session[u]  BY <2>1, <4>1, <4>2, <5>1
        <5>3. work[t].m.type # "MT_MASTER"  BY <3>1, IdleTask, SMT
        <5>4. ~Names(work[t], u)  BY <5>3 DEF Names
        <5> QED BY <2>1, <3>2, <3>4, <5>1, <5>2, <5>4, <1>TaskNames, ZenonT(30)
      <4> QED BY <3>4, <4>3, <4>4 DEF ToldInv
    <3> QED BY <3>3, <3>7, <3>8
  <2> QED BY <2>2, <2>3, <2>4 DEF Callback

<1>CleanNames.
    ASSUME TInv, ToldInv, MapInv, Clean
    PROVE  ToldInv' /\ MapInv'
  <2> USE <1>CleanNames
  <2>1. /\ cleaning \in [due : BOOLEAN, held : BOOLEAN, todo : SUBSET Conn, told : SUBSET Conn]
        /\ work \in [Thread -> Tasks] /\ RunLoopThread \in Thread
    BY ThreadFacts DEF TInv, TypeOK
  <2>2. CASE CleanSessions
    <3>1. cleaning'.told = {} /\ cleaning'.held  BY <2>2 DEF CleanSessions
    <3> QED BY <3>1 DEF ToldInv, MapInv
  <2>3. CASE CleanEnd
    <3>1. sessions' = EmptyMap /\ cleaning'.told = cleaning.told  BY <2>1, <2>3 DEF CleanEnd
    <3>2. DOMAIN sessions' = {}  BY <3>1, SMT DEF EmptyMap
    <3> QED BY <2>3, <3>1, <3>2, MasterFrame DEF ToldInv, MapInv
  <2>4. ASSUME NEW o \in Conn, CleanNext(o)  PROVE ToldInv' /\ MapInv'
    <3> DEFINE t == RunLoopThread
               x == Work("checked", C!Message("MT_MASTER", 0, 0), o, 0)
    <3>1. /\ work[t] = Idle /\ cleaning.held
          /\ cleaning' = [cleaning EXCEPT !.todo = @ \ {o}, !.told = @ \cup {o}]
          /\ \/ session[o].closed /\ work' = work
             \/ work' = [work EXCEPT ![t] = x]
      BY <2>4 DEF CleanNext
    <3>2. cleaning'.told = cleaning.told \cup {o} /\ cleaning'.held = cleaning.held
      BY <2>1, <3>1
    <3>3. Names(x, o) /\ t \in Thread  BY <2>1 DEF Work, C!Message, Names
    <3>4. work[t].m.type # "MT_MASTER"  BY <3>1, IdleTask, SMT
    <3> HIDE DEF x, t
    <3>5. ASSUME NEW u \in cleaning.told  PROVE NamesMaster(work', functors, session[u], u)
      <4>1. NamesMaster(work, functors, session[u], u) /\ ~Names(work[t], u)
        BY <3>4 DEF ToldInv, Names
      <4>2. NamesMaster([work EXCEPT ![t] = x], functors, session[u], u)
        BY <2>1, <3>3, <4>1, <1>TaskNames
      <4> QED BY <3>1, <4>1, <4>2
    <3>6. NamesMaster(work', functors, session[o], o)
      <4>1. CASE session[o].closed  BY <4>1 DEF NamesMaster
      <4>2. CASE work' = [work EXCEPT ![t] = x]
        <5>1. work'[t] = x  BY <2>1, <3>3, <4>2
        <5> QED BY <3>3, <5>1 DEF NamesMaster
      <4> QED BY <3>1, <4>1, <4>2
    <3>7. MapInv'  BY <3>1, <3>2 DEF MapInv
    <3> QED BY <2>4, <3>2, <3>5, <3>6, <3>7, MasterFrame DEF ToldInv
  <2> QED BY <2>2, <2>3, <2>4 DEF Clean

<1> SUFFICES ASSUME TInv, HInv, FreshInv, CallingInv, ToldInv, MapInv, [Next]_vars
    PROVE  ToldInv' /\ MapInv'
  OBVIOUS
<1>1. CASE /\ session' = session /\ sessions' = sessions /\ work' = work /\ functors' = functors
           /\ cleaning' = cleaning \/ cleaning' = [cleaning EXCEPT !.due = TRUE]
  <2>1. cleaning'.told = cleaning.told /\ cleaning'.held = cleaning.held
    BY <1>1 DEF TInv, TypeOK
  <2> QED BY <1>1, <2>1 DEF ToldInv, MapInv
<1>2. CASE UNCHANGED vars
  <2>1. /\ session' = session /\ sessions' = sessions /\ cleaning' = cleaning /\ work' = work
        /\ functors' = functors
    BY <1>2, SMT DEF vars, clientVars, serverVars, paxosVars, history
  <2> QED BY <1>1, <2>1
<1>3. CASE Network \/ User \/ ClientLoop \/ LoseMaster
  <2>1. /\ session' = session /\ sessions' = sessions /\ work' = work /\ functors' = functors
        /\ cleaning' = cleaning \/ cleaning' = [cleaning EXCEPT !.due = TRUE]
    BY <1>3, NetworkFrame, UserFrame, ClientLoopFrame, MasterFrame
       DEF Network, User, ClientLoop, LoseMaster
  <2> QED BY <1>1, <2>1
<1>4. CASE Paxos
  BY <1>1, <1>4, PaxosFrame DEF Paxos
<1>5. CASE \E k \in Conn : Loop(k)
  <2> SUFFICES ASSUME NEW k \in Conn, Loop(k)  PROVE ToldInv' /\ MapInv'
    BY <1>5
  <2>1. CASE ReceiveConnect(k)  BY <1>1, <2>1, LoopFrame
  <2>2. CASE RunFunctor(k)
    BY <2>2, <1>RunFunctorNames, LoopFrame DEF MapInv
  <2>3. CASE Receive(k)
    <3>1. work[k] = Idle /\ (work' = work \/ \E x : work' = [work EXCEPT ![k] = x])
      BY <2>3 DEF Receive, Readable
    <3>2. k \in Thread  BY ThreadFacts
    <3>3. MapInv'  BY <2>3, LoopFrame DEF MapInv
    <3>4. CASE work' = work  BY <1>1, <2>3, <3>4, LoopFrame
    <3>5. ASSUME NEW x, work' = [work EXCEPT ![k] = x]  PROVE ToldInv'
      BY <2>3, <3>1, <3>2, <3>5, LoopFrame, <1>IdleNames, ZenonT(30)
    <3> QED BY <3>1, <3>3, <3>4, <3>5
  <2> QED BY <2>1, <2>2, <2>3 DEF Loop
<1>6. CASE \E t \in Thread : Session(t)
  <2> SUFFICES ASSUME NEW t \in Thread, Session(t)  PROVE ToldInv' /\ MapInv'
    BY <1>6
  <2>1. sessions' = sessions /\ cleaning' = cleaning
    BY SessionFrame DEF Session
  <2> QED BY <2>1, <1>SessionNames DEF MapInv
<1>7. CASE Callback \/ Clean  BY <1>7, <1>CallbackNames, <1>CleanNames
<1> QED BY <1>2, <1>3, <1>4, <1>5, <1>6, <1>7 DEF Next

-----------------------------------------------------------------------------
(* The theorems.                                                           *)

W == INSTANCE WellFoundedInduction

\* A set of natural numbers that is not empty has a least one.
LEMMA LeastNumber ==
  ASSUME NEW X \in SUBSET Nat, X # {}
  PROVE  \E n \in X : \A m \in X : n <= m
<1> DEFINE Less == W!OpToRel(<, Nat)
<1>1. \A m, n \in Nat : m < n => <<m, n>> \in Less  BY DEF W!OpToRel
<1>2. \A m, n \in Nat : ~(m < n) => n <= m  BY SMT
<1>3. W!IsWellFoundedOn(Less, Nat)  BY W!NatLessThanWellFounded
<1> HIDE DEF Less
<1>4. \E n \in X : \A m \in X : ~(<<m, n>> \in Less)  BY <1>3, W!WFMin
<1> QED BY <1>1, <1>2, <1>4

\* What the loops that pop the front of a queue of ids take.
LEMMA BelowOK == BelowFound
<1> SUFFICES ASSUME NEW q \in Seq(Nat), NEW id \in Nat
             PROVE  /\ C!Below(q, id) \in 0 .. Len(q)
                    /\ \A i \in 1 .. C!Below(q, id) : q[i] < id
                    /\ C!Below(q, id) < Len(q) => q[C!Below(q, id) + 1] >= id
  BY DEF BelowFound
<1> DEFINE X == {n \in 0 .. Len(q) : n = Len(q) \/ q[n + 1] >= id}
<1>1. PICK n \in X : \A m \in X : n <= m
  <2>1. Len(q) \in X /\ X \in SUBSET Nat  BY SMT
  <2> HIDE DEF X
  <2> QED BY <2>1, LeastNumber
<1>2. \A i \in 1 .. n : q[i] < id
  <2>1. SUFFICES ASSUME NEW i \in 1 .. n PROVE q[i] < id  OBVIOUS
  <2>2. i - 1 \notin X
    <3>1. n \in Nat /\ (\A m \in X : n <= m) /\ ~(n <= i - 1)  BY <1>1, SMT
    <3> HIDE DEF X
    <3> QED BY <3>1, SMT
  <2>3. i - 1 \in 0 .. Len(q) /\ i - 1 # Len(q) /\ (i - 1) + 1 = i /\ q[i] \in Nat  BY <1>1,
                                                                                       SMT
  <2> QED BY <2>2, <2>3, SMTT(30)
<1>3. \E x \in 0 .. Len(q) : /\ \A i \in 1 .. x : q[i] < id
                             /\ x < Len(q) => q[x + 1] >= id  BY <1>1, <1>2, SMTT(30)
<1> QED BY <1>3 DEF C!Below

\* The values the variables of ClientServer can have: nothing that the
\* client, the loops, the callback thread and CleanSessions do, in any order,
\* leads out of them (TypeOK).
THEOREM SessionTyped == Spec => []TypeOK
<1>0. TInv /\ [Next]_vars => TInv'  BY BelowOK, NextTyped
<1>1. Spec => []TInv  BY <1>0, InitTyped, PTL DEF Spec
<1>2. TInv => TypeOK  BY SMT DEF TInv
<1> QED BY <1>1, <1>2, PTL

\* SaberClient makes the callbacks of the requests of a type in the order
\* the requests were issued, and never twice: whatever the connections lose,
\* the client sends again, and the server answers again (CallsInOrder).
THEOREM CallbacksInOrder == Spec => []CallsInOrder
<1> DEFINE I == TInv /\ OrderedClient(client)
<1>1. Init => I
  <2> SUFFICES ASSUME Init PROVE I  OBVIOUS
  <2>1. client.calls = <<>> /\ client.message_id = 0
        /\ client.queue = [t \in C!RequestType |-> <<>>]
    BY DEF Init, C!NewClient
  <2>2. CallsOK(<<>>, 0)  BY SMT DEF CallsOK
  <2>3. \A type : QueueOK(<<>>, <<>>, 0, type)  BY SMT DEF QueueOK
  <2> QED BY <2>1, <2>2, <2>3, InitTyped DEF OrderedClient
<1>2. I /\ [Next]_vars => I'
  <2>1. OrderedClient(client)' <=> OrderedClient(client')
    BY SMT DEF OrderedClient, QueueOK, CallsOK
  <2> QED BY <2>1, BelowOK, NextTyped, OrderedNext, SMTT(30)
<1>3. I => CallsInOrder
  <2> SUFFICES ASSUME I PROVE CallsInOrder  OBVIOUS
  <2>1. client.calls \in Seq(Calls)  BY DEF TInv, TypeOK, Clients, Calls
  <2>2. DOMAIN client.calls = 1 .. Len(client.calls)  BY <2>1, SMT
  <2> QED BY <2>2 DEF CallsInOrder, OrderedClient, CallsOK
<1> QED BY <1>1, <1>2, <1>3, PTL DEF Spec

\* No reply with RC_OK to a create is ever under way before its execution.
\* No reply with RC_OK to a create is ever under way before its execution.
LEMMA HonestAlways == Spec => [](TInv /\ HInv)
<1> DEFINE I == TInv /\ HInv
<1>1. Init => I
  <2> SUFFICES ASSUME Init PROVE HInv  BY InitTyped, SMT
  <2>1. \A X : HonestSeq(<<>>, X) /\ HonestItems(<<>>, X)  BY SMT DEF HonestSeq, HonestItems
  <2>2. /\ client.calls = <<>> /\ callbacks = <<>> /\ \A k \in Conn : conn[k].s2c = <<>>
    BY DEF Init, C!NewClient, NewConn
  <2>3. \A t \in Thread : work[t].stage = "idle"  BY IdleTask DEF Init
  <2>4. \A t \in Thread : HonestTask(work[t], executed)  BY <2>3, SMT DEF HonestTask
  <2> QED BY <2>1, <2>2, <2>4 DEF HInv, HonestConns
<1>2. I /\ [Next]_vars => I'  BY BelowOK, NextTyped, HonestNext
<1> QED BY <1>1, <1>2, PTL DEF Spec

\* A write that SaberClient calls back with RC_OK has been executed: on the
\* way of the reply, from the state machine through the callback thread and
\* Done or from HandleMessage, nothing makes up an RC_OK (OKMeansExecuted).
THEOREM OKIsEarned == Spec => []OKMeansExecuted
<1>1. TInv /\ HInv => OKMeansExecuted
  <2> SUFFICES ASSUME TInv, HInv PROVE OKMeansExecuted  OBVIOUS
  <2>1. client.calls \in Seq(Calls)  BY DEF TInv, TypeOK, Clients, Calls
  <2>2. DOMAIN client.calls = 1 .. Len(client.calls)  BY <2>1, SMT
  <2> QED BY <2>2 DEF OKMeansExecuted, HInv, HonestSeq, Honest
<1> QED BY <1>1, HonestAlways, PTL

\* The turn of each session is kept in every state.
\* The turn of each session is kept in every state.
LEMMA TurnAlways == Spec => [](TInv /\ FreshInv /\ CallingInv /\ TurnInv)
<1>1. Init => TInv /\ FreshInv /\ CallingInv /\ TurnInv  BY InitTyped, InitTurn, SMT
<1>2. TInv /\ FreshInv /\ CallingInv /\ TurnInv /\ [Next]_vars
      => TInv' /\ FreshInv' /\ CallingInv' /\ TurnInv'
  BY BelowOK, NextTyped, NextTurn
<1> QED BY <1>1, <1>2, PTL DEF Spec

\* OneAtATime for any number of connections, requests and faults: the loop
\* threads, the callback thread and the RunLoop thread pass a session's turn
\* on and never share or lose it.
THEOREM OneMessageInHand == Spec => []OneAtATime
BY TurnPlaces, TurnAlways, PTL

\* MasterTold for any number of connections, requests and faults: the
\* MT_MASTER that CleanSessions puts into a session is never dropped, by
\* OnMessage, by Done or by a reconnect, before it closes the session.
THEOREM MasterIsTold == Spec => []MasterTold
<1> DEFINE I == TInv /\ HInv /\ FreshInv /\ CallingInv
           J == ToldInv /\ MapInv
<1>1. Spec => []I  BY HonestAlways, TurnAlways, PTL
<1>2. Init => J
  <2> SUFFICES ASSUME Init PROVE J  OBVIOUS
  <2>1. cleaning.told = {}  BY DEF Init
  <2> QED BY <2>1 DEF ToldInv, MapInv
<1>3. I /\ J /\ [Next]_vars => J'  BY NextNames
<1>4. I /\ J => MasterTold
  <2> SUFFICES ASSUME I, J, NEW o \in cleaning.told
               PROVE  \/ session[o].closed
                      \/ \E t \in Thread : work[t].object = o /\ work[t].m.type = "MT_MASTER"
                      \/ \E i \in DOMAIN session[o].pending_messages :
                           session[o].pending_messages[i].type = "MT_MASTER"
                      \/ \E k \in Conn : \E i \in DOMAIN functors[k] :
                           functors[k][i].object = o /\ functors[k][i].m.type = "MT_MASTER"
    BY DEF MasterTold
  <2>1. o \in Conn /\ functors \in [Conn -> Seq(Items)] /\ session \in [Conn -> Objects]
    BY DEF TInv, TypeOK
  <2>2. \A k \in Conn : DOMAIN functors[k] = 1 .. Len(functors[k])
    <3>1. \A q \in Seq(Items) : DOMAIN q = 1 .. Len(q)  BY SMT
    <3> QED BY <2>1, <3>1
  <2>3. DOMAIN session[o].pending_messages = 1 .. Len(session[o].pending_messages)
    <3>1. \A q \in Seq(Messages) : DOMAIN q = 1 .. Len(q)  BY SMT
    <3>2. session[o].pending_messages \in Seq(Messages)  BY <2>1 DEF Objects
    <3> QED BY <3>1, <3>2
  <2>4. NamesMaster(work, functors, session[o], o)  BY DEF ToldInv
  <2> QED BY <2>2, <2>3, <2>4 DEF NamesMaster, Names
<1> HIDE DEF I, J
<1> QED BY <1>1, <1>2, <1>3, <1>4, PTL DEF Spec

=============================================================================

