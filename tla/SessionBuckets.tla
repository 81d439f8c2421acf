--------------------------- MODULE SessionBuckets ---------------------------
(***************************************************************************)
(* How one event loop of a server finds the connections that have gone     *)
(* silent (saber/server/saber_server.cc): a circle of idle_ticks_ buckets  *)
(* of shared pointers to Entry, of which OnTimer clears one every          *)
(* tick_time.  An Entry dies with the last pointer to it; besides the      *)
(* buckets only the callback of a proposed connect holds one.  What ~Entry *)
(* does with the session is left out; here it shuts the connection down.   *)
(*                                                                         *)
(* Time advances in steps of Grain milliseconds.  A client that pings      *)
(* sends the next ping PingInterval after the last one, and between two    *)
(* pings the network adds at most MaxDelay; it may stop at any time.       *)
(***************************************************************************)
EXTENDS Integers

CONSTANTS
  Conn,            \* the connections of the loop
  SessionTimeout,  \* ServerOptions::session_timeout
  TickTime,        \* ServerOptions::tick_time
  MaxDelay,        \* bound on what the network adds between two pings
  Grain            \* the unit of time

ASSUME TimeAssumption ==
  /\ Grain \in Nat \ {0} /\ TickTime \in Nat \ {0}
  /\ SessionTimeout \in Nat /\ MaxDelay \in Nat
  /\ SessionTimeout >= TickTime

\* The division drops what is left of an incomplete tick.
idle_ticks == SessionTimeout \div TickTime
Bucket == 0 .. idle_ticks - 1

\* What the client makes of the timeout that the server tells it.
PingInterval ==
  IF SessionTimeout < 12000 THEN (SessionTimeout * 4) \div 5
  ELSE SessionTimeout - 3000

VARIABLES
  buckets,  \* buckets[i]: the entries with a pointer in bucket i
  current,  \* the index of the last bucket
  index,    \* index[c]: Entry::index
  entry,    \* entry[c]: "none", "alive" or "dead"
  open,     \* the connections that are open
  held,     \* the entries that the callback of a proposed connect holds
  pinging,  \* the connections whose client has begun to ping
  untilTick, \* the time until the timer runs OnTimer
  idle,     \* idle[c]: the time since the last message that c's entry saw
  expired,  \* expired[c]: history; what idle[c] was when c's entry died
  detained  \* history: the entries that only a callback has kept alive

bucketVars == <<buckets, current, index, entry, open, held, pinging, untilTick,
                idle, expired, detained>>

\* No idle time is told from a longer one than this.
MaxIdle == SessionTimeout + Grain
Never == -1
-----------------------------------------------------------------------------
InBuckets(b, c) == \E i \in Bucket : c \in b[i]

\* Faulty: an entry that is in some bucket is not added to the last one.
UpdateBucketsOnce(c) ==
  /\ index' = [index EXCEPT ![c] = current]
  /\ buckets' = IF ~InBuckets(buckets, c)
                THEN [buckets EXCEPT ![current] = @ \cup {c}] ELSE buckets

\* Faulty: the index of the next bucket is remembered.
UpdateBucketsNextIndex(c) ==
  /\ index' = [index EXCEPT ![c] = current + 1]
  /\ buckets' = IF index[c] # current
                THEN [buckets EXCEPT ![current] = @ \cup {c}] ELSE buckets

UpdateBuckets(c) ==
  /\ index' = [index EXCEPT ![c] = current]
  /\ buckets' = IF index[c] # current
                THEN [buckets EXCEPT ![current] = @ \cup {c}] ELSE buckets

\* The entries in S die: ~Entry.
Die(S) ==
  /\ entry' = [c \in Conn |-> IF c \in S THEN "dead" ELSE entry[c]]
  /\ open' = open \ S
  /\ expired' = [c \in Conn |-> IF c \in S THEN idle[c] ELSE expired[c]]

OnConnection(c) ==
  /\ entry[c] = "none"
  /\ UpdateBuckets(c)
  /\ entry' = [entry EXCEPT ![c] = "alive"]
  /\ open' = open \cup {c}
  /\ idle' = [idle EXCEPT ![c] = 0]
  /\ UNCHANGED <<current, held, pinging, untilTick, expired, detained>>

\* HandleMessage returns true.  A connect is proposed, and its callback then
\* holds the entry.
OnMessage(c, type) ==
  /\ c \in open /\ entry[c] = "alive"
  /\ type = "MT_CONNECT" => c \notin held
  /\ UpdateBuckets(c)
  /\ held' = IF type = "MT_CONNECT" THEN held \cup {c} ELSE held
  /\ pinging' = IF type = "MT_PING" THEN pinging \cup {c} ELSE pinging
  /\ idle' = [idle EXCEPT ![c] = 0]
  /\ UNCHANGED <<current, entry, open, untilTick, expired, detained>>

\* The client dies without closing the connection.
StopPinging(c) ==
  /\ c \in pinging
  /\ pinging' = pinging \ {c}
  /\ UNCHANGED <<buckets, current, index, entry, open, held, untilTick, idle,
                 expired, detained>>

\* HandleMessage returns false and OnMessage closes the connection, or it
\* closes for another reason; the entry stays in its buckets.
OnClose(c) ==
  /\ c \in open
  /\ open' = open \ {c}
  /\ pinging' = pinging \ {c}
  /\ UNCHANGED <<buckets, current, index, entry, held, untilTick, idle,
                 expired, detained>>

\* The callback of the connect has run and is destroyed.
CallbackDone(c) ==
  /\ c \in held
  /\ held' = held \ {c}
  /\ Die(IF InBuckets(buckets, c) THEN {} ELSE {c})
  /\ UNCHANGED <<buckets, current, index, pinging, untilTick, idle, detained>>

\* Faulty: the bucket with index 0 is not cleared.
OnTimerNoWrap ==
  /\ untilTick = 0
  /\ untilTick' = TickTime
  /\ current' = IF current + 1 = idle_ticks THEN 0 ELSE current + 1
  /\ buckets' = IF current' = 0 THEN buckets
                ELSE [buckets EXCEPT ![current'] = {}]
  /\ LET last == {c \in buckets[current'] : ~InBuckets(buckets', c)}
     IN  /\ Die(last \ held)
         /\ detained' = detained \cup (last \cap held)
  /\ UNCHANGED <<index, held, pinging, idle>>

OnTimer ==
  /\ untilTick = 0
  /\ untilTick' = TickTime
  /\ current' = IF current + 1 = idle_ticks THEN 0 ELSE current + 1
  /\ buckets' = [buckets EXCEPT ![current'] = {}]
  /\ LET last == {c \in buckets[current'] : ~InBuckets(buckets', c)}
     IN  /\ Die(last \ held)
         /\ detained' = detained \cup (last \cap held)
  /\ UNCHANGED <<index, held, pinging, idle>>

\* Time passes; a client that pings does not let it pass for too long.
TimePasses ==
  /\ untilTick >= Grain
  /\ \A c \in pinging \cap open : idle[c] + Grain <= PingInterval + MaxDelay
  /\ untilTick' = untilTick - Grain
  /\ idle' = [c \in Conn |->
       IF entry[c] = "alive" /\ idle[c] + Grain <= MaxIdle
       THEN idle[c] + Grain ELSE idle[c]]
  /\ UNCHANGED <<buckets, current, index, entry, open, held, pinging, expired,
                 detained>>

-----------------------------------------------------------------------------
BucketsInit ==
  /\ buckets = [i \in Bucket |-> {}]
  /\ current = 0
  /\ index = [c \in Conn |-> -1]
  /\ entry = [c \in Conn |-> "none"]
  /\ open = {}
  /\ held = {}
  /\ pinging = {}
  /\ untilTick = TickTime
  /\ idle = [c \in Conn |-> 0]
  /\ expired = [c \in Conn |-> Never]
  /\ detained = {}

BucketsNext ==
  \/ \E c \in Conn :
       \/ OnConnection(c)
       \/ \E type \in {"MT_CONNECT", "MT_PING", "MT_CREATE"} :
            OnMessage(c, type)
       \/ StopPinging(c)
       \/ OnClose(c)
       \/ CallbackDone(c)
  \/ OnTimer
  \/ TimePasses

BucketsSpec == BucketsInit /\ [][BucketsNext]_bucketVars
-----------------------------------------------------------------------------
(* Properties.                                                             *)

\* Every variable has the type of the field it models.
BucketsTypeOK ==
  /\ buckets \in [Bucket -> SUBSET Conn]
  /\ current \in Bucket
  /\ index \in [Conn -> Bucket \cup {-1}]
  /\ entry \in [Conn -> {"none", "alive", "dead"}]
  /\ open \subseteq Conn
  /\ held \subseteq Conn
  /\ pinging \subseteq Conn
  /\ untilTick \in 0 .. TickTime
  /\ idle \in [Conn -> Nat]
  /\ expired \in [Conn -> Nat \cup {Never}]
  /\ detained \subseteq Conn

\* An entry lives no longer than the session timeout after its last message,
\* unless the callback of its connect holds it.
SilentEntriesDie ==
  \A c \in Conn : entry[c] = "alive" /\ c \notin held =>
    \/ idle[c] < SessionTimeout
    \/ untilTick = 0 /\ idle[c] = SessionTimeout

\* An entry does not die before a whole circle less one tick has passed
\* since its last message, unless the connect it proposed took longer than
\* that: then Entry::index may already be the index of the last bucket, in
\* which UpdateBuckets takes the entry to be.
ActiveEntriesLive ==
  \A c \in Conn : expired[c] # Never =>
    \/ expired[c] >= (idle_ticks - 1) * TickTime
    \/ c \in detained

\* server_options.h:64 makes the session timeout four ticks, the server tells
\* it to the client, and SaberClient pings every PingInterval: a client that
\* goes on pinging keeps its entry, under the same condition on its connect.
PingersLive == \A c \in pinging \ detained : entry[c] = "alive"
=============================================================================
