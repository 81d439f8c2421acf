----------------------------- MODULE TimeProofs -----------------------------
(***************************************************************************)
(* Proofs about the two parts that go by the time: the bucket circle of a  *)
(* server, SessionBuckets, for any number of connections and any timeout,  *)
(* tick time and grain; and RunLoop, for any delays, intervals and bounds. *)
(***************************************************************************)
EXTENDS RunLoop, SessionBuckets, TLAPS

-----------------------------------------------------------------------------
\* How long the entries of the bucket circle live.

\* The ticks since bucket i was the last one, when it is now k.
Dist(i, k) == IF k >= i THEN k - i ELSE k - i + idle_ticks

\* The time of n ticks.
Span(n) == n * TickTime

\* An entry that is in a bucket is in the one that Entry::index names, was
\* put into the others earlier, and its idle time is that of the ticks since
\* then, give or take one.
Filed(c) ==
  /\ index[c] \in Bucket
  /\ c \in buckets[index[c]]
  /\ \A i \in Bucket : c \in buckets[i] =>
       Dist(i, current) >= Dist(index[c], current)
  /\ \/ idle[c] + untilTick >= Span(Dist(index[c], current))
     \/ idle[c] >= SessionTimeout
  /\ idle[c] + untilTick <= Span(Dist(index[c], current) + 1)

\* The inductive invariant.
Kept ==
  /\ \A c \in Conn : entry[c] = "alive" =>
       \/ Filed(c)
       \/ c \in held \cap detained /\ ~InBuckets(buckets, c)
  /\ \A c \in Conn : entry[c] # "alive" => ~InBuckets(buckets, c)
  /\ \A c \in Conn : entry[c] = "none" =>
       c \notin open \cup held \cup pinging /\ index[c] = -1
  /\ \A c \in held : entry[c] = "alive"

IInv ==
  BucketsTypeOK /\ Kept /\ ActiveEntriesLive
-----------------------------------------------------------------------------
\* There is at least one bucket, and the circle is not longer than the
\* timeout.
LEMMA Ticks ==
  /\ idle_ticks \in Nat \ {0}
  /\ Span(idle_ticks) <= SessionTimeout
BY TimeAssumption DEF idle_ticks, Span

\* Arithmetic with ticks.
LEMMA Spans ==
  /\ \A n \in Nat : Span(n) \in Nat /\ Span(n + 1) = Span(n) + TickTime
  /\ \A m, n \in Nat : m <= n => Span(m) <= Span(n)
  /\ Span(0) = 0
BY TimeAssumption DEF Span

\* The distance of a bucket, and how a tick changes it.
LEMMA Dists ==
  ASSUME NEW i \in Bucket, NEW k \in Bucket
  PROVE  LET n == IF k + 1 = idle_ticks THEN 0 ELSE k + 1
         IN  /\ Dist(i, k) \in 0 .. idle_ticks - 1
             /\ n \in Bucket
             /\ i # n => Dist(i, n) = Dist(i, k) + 1
             /\ Dist(n, k) = idle_ticks - 1
             /\ Dist(i, k) = idle_ticks - 1 => i = n
             /\ Dist(k, k) = 0
BY Ticks DEF Dist, Bucket

\* An entry that has just been put into the last bucket is filed.
LEMMA FiledNow ==
  ASSUME BucketsTypeOK, Kept, NEW c \in Conn, UpdateBuckets(c),
         entry'[c] = "alive", idle'[c] = 0,
         UNCHANGED <<current, untilTick>>,
         entry[c] = "alive" \/ index[c] = -1
  PROVE  /\ buckets' \in [Bucket -> SUBSET Conn]
         /\ index' \in [Conn -> Bucket \cup {-1}]
         /\ Filed(c)' \/ (c \in held \cap detained /\ ~InBuckets(buckets', c))
         /\ \A d \in Conn \ {c} :
              /\ index'[d] = index[d]
              /\ \A i \in Bucket : d \in buckets'[i] <=> d \in buckets[i]
<1>1. current \in Bucket /\ untilTick \in 0 .. TickTime
      /\ Dist(current, current) = 0
  BY Dists DEF BucketsTypeOK
<1>2. buckets' \in [Bucket -> SUBSET Conn] /\ index' \in [Conn -> Bucket \cup {-1}]
  BY DEF BucketsTypeOK, UpdateBuckets
<1>3. \A d \in Conn \ {c} :
              /\ index'[d] = index[d]
              /\ \A i \in Bucket : d \in buckets'[i] <=> d \in buckets[i]
  BY DEF BucketsTypeOK, UpdateBuckets
<1>4. index'[c] = current
  BY DEF BucketsTypeOK, UpdateBuckets
<1>5. CASE c \in buckets'[current]
  <2>1. Dist(index'[c], current') = 0
    BY <1>1, <1>4
  <2>2. \A i \in Bucket : Dist(i, current') >= 0
    BY <1>1, Dists
  <2>3. Span(0) = 0 /\ Span(0 + 1) = TickTime
    BY Spans, TimeAssumption
  <2>4. Filed(c)'
    BY <1>1, <1>4, <1>5, <2>1, <2>2, <2>3 DEF Filed
  <2> QED BY <1>2, <1>3, <2>4
<1>6. CASE c \notin buckets'[current]
  <2>1. index[c] = current /\ buckets' = buckets
    BY <1>1, <1>6 DEF BucketsTypeOK, UpdateBuckets
  <2>2. c \notin buckets[index[c]] /\ index[c] # -1
    BY <1>1, <1>6, <2>1 DEF Bucket
  <2>3. c \in held \cap detained /\ ~InBuckets(buckets, c)
    BY <2>2 DEF Kept, Filed, BucketsTypeOK
  <2> QED BY <1>2, <1>3, <2>1, <2>3
<1> QED BY <1>5, <1>6

\* What an entry does not notice leaves it filed.
LEMMA FiledStill ==
  ASSUME NEW d \in Conn, Filed(d), index'[d] = index[d],
         \A i \in Bucket : d \in buckets'[i] <=> d \in buckets[i],
         idle'[d] = idle[d], UNCHANGED <<current, untilTick>>
  PROVE  Filed(d)'
BY DEF Filed

\* The circle starts empty.
LEMMA InitOK ==
  ASSUME BucketsInit
  PROVE  IInv
<1>1. Bucket # {} /\ 0 \in Bucket
  BY Ticks DEF Bucket
<1>2. BucketsTypeOK
  BY <1>1, TimeAssumption DEF BucketsInit, BucketsTypeOK
<1>3. Kept
  BY DEF BucketsInit, Kept, InBuckets
<1> QED
  BY <1>2, <1>3 DEF BucketsInit, IInv, ActiveEntriesLive

\* A new connection.
LEMMA ConnectionOK ==
  ASSUME IInv, NEW c \in Conn, OnConnection(c)
  PROVE  IInv'
<1>1. /\ buckets' \in [Bucket -> SUBSET Conn]
      /\ index' \in [Conn -> Bucket \cup {-1}]
      /\ Filed(c)' \/ (c \in held \cap detained /\ ~InBuckets(buckets', c))
      /\ \A d \in Conn \ {c} :
           /\ index'[d] = index[d]
           /\ \A i \in Bucket : d \in buckets'[i] <=> d \in buckets[i]
  <2>1. entry'[c] = "alive" /\ idle'[c] = 0 /\ index[c] = -1
    BY DEF OnConnection, IInv, BucketsTypeOK, Kept
  <2> QED BY <2>1, FiledNow DEF OnConnection, IInv
<1>2. BucketsTypeOK'
  BY <1>1, ZenonT(30) DEF OnConnection, IInv, BucketsTypeOK
<1>3. ASSUME NEW d \in Conn \ {c}
      PROVE  /\ entry'[d] = entry[d] /\ idle'[d] = idle[d]
             /\ InBuckets(buckets', d) <=> InBuckets(buckets, d)
             /\ Filed(d) => Filed(d)'
  <2>1. entry'[d] = entry[d] /\ idle'[d] = idle[d]
    BY DEF OnConnection, IInv, BucketsTypeOK
  <2>2. InBuckets(buckets', d) <=> InBuckets(buckets, d)
    BY <1>1 DEF InBuckets
  <2>3. Filed(d) => Filed(d)'
    BY <1>1, <2>1, FiledStill DEF OnConnection
  <2> QED BY <2>1, <2>2, <2>3
<1>4. Kept'
  BY <1>1, <1>3 DEF OnConnection, IInv, BucketsTypeOK, Kept
<1>5. ActiveEntriesLive'
  BY <1>3 DEF OnConnection, IInv, BucketsTypeOK, Kept, ActiveEntriesLive
<1> QED BY <1>2, <1>4, <1>5 DEF IInv

\* A message that HandleMessage accepts.
LEMMA MessageOK ==
  ASSUME IInv, NEW c \in Conn, NEW type, OnMessage(c, type)
  PROVE  IInv'
<1>1. /\ buckets' \in [Bucket -> SUBSET Conn]
      /\ index' \in [Conn -> Bucket \cup {-1}]
      /\ Filed(c)' \/ (c \in held \cap detained /\ ~InBuckets(buckets', c))
      /\ \A d \in Conn \ {c} :
           /\ index'[d] = index[d]
           /\ \A i \in Bucket : d \in buckets'[i] <=> d \in buckets[i]
  <2>1. entry'[c] = "alive" /\ idle'[c] = 0 /\ entry[c] = "alive"
    BY DEF OnMessage, IInv, BucketsTypeOK, Kept
  <2> QED BY <2>1, FiledNow DEF OnMessage, IInv
<1>2. BucketsTypeOK'
  BY <1>1, ZenonT(30) DEF OnMessage, IInv, BucketsTypeOK
<1>3. ASSUME NEW d \in Conn \ {c}
      PROVE  /\ idle'[d] = idle[d]
             /\ InBuckets(buckets', d) <=> InBuckets(buckets, d)
             /\ Filed(d) => Filed(d)'
  <2>1. idle'[d] = idle[d]
    BY DEF OnMessage, IInv, BucketsTypeOK
  <2>2. InBuckets(buckets', d) <=> InBuckets(buckets, d)
    BY <1>1 DEF InBuckets
  <2>3. Filed(d) => Filed(d)'
    BY <1>1, <2>1, FiledStill DEF OnMessage
  <2> QED BY <2>1, <2>2, <2>3
<1>4. Kept'
  BY <1>1, <1>3 DEF OnMessage, IInv, BucketsTypeOK, Kept
<1>6. ActiveEntriesLive'
  BY DEF OnMessage, IInv, BucketsTypeOK, ActiveEntriesLive
<1> QED BY <1>2, <1>4, <1>6 DEF IInv

\* A client that stops pinging.
LEMMA StopPingingOK ==
  ASSUME IInv, NEW c \in Conn, StopPinging(c)
  PROVE  IInv'
<1>1. BucketsTypeOK'
  BY DEF StopPinging, IInv, BucketsTypeOK
<1>2. \A d \in Conn : Filed(d) => Filed(d)'
  BY DEF StopPinging, Filed
<1>3. Kept'
  BY <1>2 DEF StopPinging, IInv, Kept, InBuckets
<1>4. ActiveEntriesLive'
  BY DEF StopPinging, IInv, BucketsTypeOK, ActiveEntriesLive
<1> QED BY <1>1, <1>3, <1>4 DEF IInv

\* A connection that is closed.
LEMMA CloseOK ==
  ASSUME IInv, NEW c \in Conn, OnClose(c)
  PROVE  IInv'
<1>1. BucketsTypeOK'
  BY DEF OnClose, IInv, BucketsTypeOK
<1>2. \A d \in Conn : Filed(d) => Filed(d)'
  BY DEF OnClose, Filed
<1>3. Kept'
  BY <1>2 DEF OnClose, IInv, Kept, InBuckets
<1>4. ActiveEntriesLive'
  BY DEF OnClose, IInv, BucketsTypeOK, ActiveEntriesLive
<1> QED BY <1>1, <1>3, <1>4 DEF IInv

\* A callback that lets go of its entry.
LEMMA CallbackOK ==
  ASSUME IInv, NEW c \in Conn, CallbackDone(c)
  PROVE  IInv'
<1>1. BucketsTypeOK'
  BY DEF CallbackDone, Die, IInv, BucketsTypeOK
<1>2. \A d \in Conn : Filed(d) => Filed(d)'
  BY DEF CallbackDone, Filed
<1>3. entry[c] = "alive" /\ (~InBuckets(buckets, c) => c \in detained)
  BY DEF CallbackDone, IInv, Kept, InBuckets, Filed
<1>4. CASE InBuckets(buckets, c)
  <2>1. /\ UNCHANGED <<buckets, index, open, pinging, idle, expired, detained>>
        /\ held' = held \ {c} /\ entry' = entry
    BY <1>4 DEF CallbackDone, Die, IInv, BucketsTypeOK
  <2>2. Kept'
    BY <1>2, <1>4, <2>1 DEF IInv, Kept, InBuckets
  <2> QED
    BY <1>1, <2>1, <2>2 DEF IInv, BucketsTypeOK, ActiveEntriesLive
<1>5. CASE ~InBuckets(buckets, c)
  <2>1. /\ UNCHANGED <<buckets, index, pinging, idle, detained>>
        /\ held' = held \ {c} /\ open' = open \ {c}
        /\ entry'[c] = "dead" /\ c \in detained
        /\ \A d \in Conn \ {c} : entry'[d] = entry[d] /\ expired'[d] = expired[d]
    BY <1>3, <1>5 DEF CallbackDone, Die, IInv, BucketsTypeOK
  <2>2. Kept'
    BY <1>2, <1>5, <2>1 DEF IInv, BucketsTypeOK, Kept, InBuckets
  <2> QED
    BY <1>1, <2>1, <2>2 DEF IInv, BucketsTypeOK, ActiveEntriesLive
<1> QED BY <1>4, <1>5

\* A tick: the entries in the bucket that becomes the last one and in no
\* other die, unless they are held.
LEMMA TimerOK ==
  ASSUME IInv, OnTimer
  PROVE  IInv'
<1> DEFINE n == IF current + 1 = idle_ticks THEN 0 ELSE current + 1
           last == {c \in buckets[n] : ~InBuckets(buckets', c)}
<1>1. /\ current \in Bucket /\ n \in Bucket /\ current' = n
      /\ buckets \in [Bucket -> SUBSET Conn]
      /\ buckets' = [buckets EXCEPT ![n] = {}]
      /\ untilTick = 0 /\ untilTick' = TickTime
  BY Dists DEF OnTimer, IInv, BucketsTypeOK
<1>2. /\ entry' = [c \in Conn |-> IF c \in last \ held THEN "dead" ELSE entry[c]]
      /\ open' = open \ (last \ held)
      /\ expired' = [c \in Conn |-> IF c \in last \ held THEN idle[c] ELSE expired[c]]
      /\ detained' = detained \cup (last \cap held)
      /\ UNCHANGED <<index, held, pinging, idle>>
  BY <1>1 DEF OnTimer, Die
<1>3. /\ \A i \in Bucket \ {n} : buckets'[i] = buckets[i]
      /\ buckets'[n] = {}
      /\ last \subseteq Conn
  BY <1>1
<1> HIDE DEF n, last
<1>4. BucketsTypeOK'
  BY <1>1, <1>2, <1>3, TimeAssumption DEF IInv, BucketsTypeOK
<1>5. ASSUME NEW c \in Conn, Filed(c), index[c] = n
      PROVE  /\ c \in last /\ ~InBuckets(buckets', c)
             /\ idle[c] >= Span(idle_ticks - 1)
  <2>1. Dist(n, current) = idle_ticks - 1
    BY <1>1, Dists DEF n
  <2>2. \A i \in Bucket : c \in buckets[i] => i = n
    <3>1. ASSUME NEW i \in Bucket, c \in buckets[i]
          PROVE  i = n
      <4>1. Dist(i, current) >= idle_ticks - 1
        BY <1>5, <2>1, <3>1 DEF Filed
      <4>2. Dist(i, current) = idle_ticks - 1
        BY <1>1, <4>1, Dists, Ticks
      <4> QED BY <1>1, <4>2, Dists DEF n
    <3> QED BY <3>1
  <2>3. ~InBuckets(buckets', c)
    BY <1>3, <2>2 DEF InBuckets
  <2>4. c \in last
    BY <1>5, <2>3 DEF Filed, last
  <2>5. idle[c] >= Span(idle_ticks - 1)
    <3>1. idle[c] \in Nat
      BY DEF IInv, BucketsTypeOK
    <3>2. idle[c] + 0 >= Span(idle_ticks - 1) \/ idle[c] >= SessionTimeout
      BY <1>1, <1>5, <2>1 DEF Filed
    <3>3. Span(idle_ticks - 1) <= SessionTimeout /\ Span(idle_ticks - 1) \in Nat
      <4>1. idle_ticks - 1 \in Nat /\ idle_ticks \in Nat /\ idle_ticks - 1 <= idle_ticks
        BY Ticks
      <4>2. Span(idle_ticks - 1) <= Span(idle_ticks) /\ Span(idle_ticks - 1) \in Nat
            /\ Span(idle_ticks) \in Nat
        BY <4>1, Spans, SMTT(30)
      <4> QED BY <4>2, Ticks, TimeAssumption
    <3> QED BY <3>1, <3>2, <3>3, TimeAssumption
  <2> QED BY <2>3, <2>4, <2>5
<1>6. ASSUME NEW c \in Conn, Filed(c), index[c] # n
      PROVE  c \notin last /\ Filed(c)'
  <2>1. c \in buckets'[index[c]]
    BY <1>3, <1>6 DEF Filed
  <2>2. c \notin last
    BY <1>6, <2>1 DEF last, InBuckets, Filed
  <2>3. /\ Dist(index[c], n) = Dist(index[c], current) + 1
        /\ Dist(index[c], current) \in Nat
    BY <1>1, <1>6, Dists DEF n, Filed
  <2>4. ASSUME NEW i \in Bucket, c \in buckets'[i]
        PROVE  Dist(i, n) >= Dist(index[c], n)
    <3>1. i # n /\ c \in buckets[i]
      BY <1>3, <2>4
    <3>2. Dist(i, n) = Dist(i, current) + 1 /\ Dist(i, current) \in Nat
      BY <1>1, <3>1, Dists DEF n
    <3>3. Dist(i, current) >= Dist(index[c], current)
      BY <1>6, <3>1 DEF Filed
    <3> QED BY <2>3, <3>2, <3>3
  <2>5. /\ \/ idle[c] + TickTime >= Span(Dist(index[c], n))
           \/ idle[c] >= SessionTimeout
        /\ idle[c] + TickTime <= Span(Dist(index[c], n) + 1)
    <3> DEFINE d == Dist(index[c], current)
    <3>1. d \in Nat /\ d + 1 \in Nat /\ Dist(index[c], n) = d + 1
      BY <2>3
    <3>2. idle[c] \in Nat /\ TickTime \in Nat
      BY TimeAssumption DEF IInv, BucketsTypeOK
    <3>3. (idle[c] + 0 >= Span(d) \/ idle[c] >= SessionTimeout) /\ idle[c] + 0 <= Span(d + 1)
      BY <1>1, <1>6 DEF Filed
    <3> HIDE DEF d
    <3>4. /\ Span(d) \in Nat /\ Span(d + 1) = Span(d) + TickTime
          /\ Span((d + 1) + 1) = Span(d + 1) + TickTime
      BY <3>1, Spans, SMTT(30)
    <3> QED BY <3>1, <3>2, <3>3, <3>4
  <2> QED
    BY <1>1, <1>2, <1>6, <2>1, <2>2, <2>4, <2>5 DEF Filed
<1>7. ASSUME NEW c \in Conn, ~InBuckets(buckets, c)
      PROVE  ~InBuckets(buckets', c) /\ c \notin last
  BY <1>1, <1>3, <1>7 DEF InBuckets, last
<1>8. Kept'
  <2>1. ASSUME NEW c \in Conn, entry'[c] = "alive"
        PROVE  Filed(c)' \/ (c \in held' \cap detained' /\ ~InBuckets(buckets', c))
    <3>1. entry[c] = "alive" /\ c \notin last \ held
      BY <1>2, <2>1
    <3>2. CASE Filed(c)
      BY <1>2, <1>5, <1>6, <3>1, <3>2
    <3>3. CASE ~Filed(c)
      BY <1>2, <1>7, <3>1, <3>3 DEF IInv, Kept
    <3> QED BY <3>2, <3>3
  <2>2. ASSUME NEW c \in Conn, entry'[c] # "alive"
        PROVE  ~InBuckets(buckets', c)
    BY <1>2, <1>7, <2>2 DEF IInv, Kept, last
  <2>3. \A c \in Conn : entry'[c] = "none" => entry[c] = "none"
    BY <1>2
  <2>4. \A c \in held' : entry'[c] = "alive"
    BY <1>2 DEF IInv, BucketsTypeOK, Kept
  <2> QED BY <1>2, <2>1, <2>2, <2>3, <2>4 DEF IInv, Kept
<1>9. ASSUME NEW c \in last \ held
      PROVE  Filed(c) /\ idle[c] >= Span(idle_ticks - 1) /\ entry[c] = "alive"
  <2>1. c \in Conn /\ InBuckets(buckets, c)
    BY <1>1, <1>3 DEF InBuckets, last
  <2>2. entry[c] = "alive" /\ Filed(c)
    BY <2>1 DEF IInv, Kept
  <2> QED BY <1>5, <1>6, <2>1, <2>2
<1>11. ActiveEntriesLive'
  BY <1>2, <1>9 DEF IInv, BucketsTypeOK, ActiveEntriesLive, Span
<1> QED BY <1>4, <1>8, <1>11 DEF IInv

\* Time passes.
LEMMA TimePassesOK ==
  ASSUME IInv, TimePasses
  PROVE  IInv'
<1>1. BucketsTypeOK'
  BY TimeAssumption, SMTT(30) DEF TimePasses, IInv, BucketsTypeOK
<1>2. ASSUME NEW c \in Conn, entry[c] = "alive", Filed(c)
      PROVE  Filed(c)'
  <2>1. /\ untilTick' = untilTick - Grain
        /\ \/ idle'[c] = idle[c] + Grain
           \/ idle'[c] = idle[c] /\ ~(idle[c] + Grain <= MaxIdle)
    BY <1>2 DEF TimePasses
  <2>2. idle[c] \in Nat /\ untilTick \in Nat /\ Grain \in Nat /\ SessionTimeout \in Nat
    BY TimeAssumption DEF IInv, BucketsTypeOK
  <2>3. /\ Span(Dist(index[c], current)) \in Nat
        /\ Span(Dist(index[c], current) + 1) \in Nat
    <3>1. Dist(index[c], current) \in Nat
      BY <1>2, Dists, Ticks, SMTT(30) DEF Filed, IInv, BucketsTypeOK
    <3> QED BY <3>1, Spans
  <2>4. /\ \/ idle'[c] + untilTick' >= Span(Dist(index[c], current))
           \/ idle'[c] >= SessionTimeout
        /\ idle'[c] + untilTick' <= Span(Dist(index[c], current) + 1)
    BY <1>2, <2>1, <2>2, <2>3 DEF Filed, MaxIdle
  <2> QED BY <1>2, <2>4, SMTT(30) DEF Filed, TimePasses
<1>3. Kept'
  BY <1>2 DEF TimePasses, IInv, Kept, InBuckets
<1>5. ActiveEntriesLive'
  BY DEF TimePasses, IInv, ActiveEntriesLive
<1> QED BY <1>1, <1>3, <1>5 DEF IInv

\* Every step preserves the invariant.
LEMMA NextOK ==
  ASSUME IInv, [BucketsNext]_bucketVars
  PROVE  IInv'
<1>1. CASE BucketsNext
  BY <1>1, ConnectionOK, MessageOK, StopPingingOK, CloseOK, CallbackOK, TimerOK,
     TimePassesOK DEF BucketsNext
<1>2. CASE UNCHANGED bucketVars
  <2>1. \A c \in Conn : Filed(c)' <=> Filed(c)
    BY <1>2 DEF bucketVars, Filed
  <2> QED
    BY <1>2, <2>1, SMTT(30) DEF bucketVars, IInv, BucketsTypeOK, Kept, InBuckets,
                      ActiveEntriesLive
<1> QED BY <1>1, <1>2

\* The inductive invariant of the bucket circle: an entry lies in the bucket
\* its index names, as many ticks back as it has been silent.
THEOREM BucketsInductive == BucketsSpec => []IInv
BY InitOK, NextOK, PTL DEF BucketsSpec

\* Every variable of the bucket circle keeps its type; in particular current
\* and every index that is used with at() are indices of buckets.
THEOREM BucketsTyped == BucketsSpec => []BucketsTypeOK
<1>1. IInv => BucketsTypeOK
  BY DEF IInv
<1> QED BY <1>1, BucketsInductive, PTL

\* An entry dies no earlier than a circle less one tick after its last
\* message, whatever the timeout and the tick time, unless only the callback
\* of its connect kept it alive in between.
THEOREM ActiveLive == BucketsSpec => []ActiveEntriesLive
<1>1. IInv => ActiveEntriesLive
  BY DEF IInv
<1> QED BY <1>1, BucketsInductive, PTL

\* An entry that no callback holds is gone when the session timeout has
\* passed since its last message and OnTimer has run.
THEOREM SilentDie == BucketsSpec => []SilentEntriesDie
<1>1. ASSUME IInv
      PROVE  SilentEntriesDie
  <2>1. ASSUME NEW c \in Conn, entry[c] = "alive", c \notin held
        PROVE  idle[c] < SessionTimeout \/ (untilTick = 0 /\ idle[c] = SessionTimeout)
    <3>1. Filed(c)
      BY <1>1, <2>1 DEF IInv, Kept
    <3> DEFINE d == Dist(index[c], current)
    <3>2. d \in Nat /\ d + 1 \in Nat /\ d + 1 <= idle_ticks
      BY <1>1, <3>1, Dists, Ticks DEF Filed, IInv, BucketsTypeOK
    <3>3. idle[c] + untilTick <= Span(d + 1) /\ idle[c] \in Nat /\ untilTick \in Nat
      BY <1>1, <3>1, TimeAssumption DEF Filed, IInv, BucketsTypeOK
    <3> HIDE DEF d
    <3>4. Span(d + 1) <= Span(idle_ticks) /\ Span(d + 1) \in Nat /\ Span(idle_ticks) \in Nat
      BY <3>2, Spans, Ticks
    <3> QED BY <3>3, <3>4, Ticks, TimeAssumption
  <2> QED BY <2>1 DEF SilentEntriesDie
<1> QED BY <1>1, BucketsInductive, PTL

-----------------------------------------------------------------------------
\* The loop and its timers.

W == INSTANCE WellFoundedInduction

\* A set of natural numbers that is not empty has a least one.
LEMMA LeastNumber ==
  ASSUME NEW S \in SUBSET Nat, S # {}
  PROVE  \E n \in S : \A m \in S : n <= m
<1> DEFINE Less == W!OpToRel(<, Nat)
<1>1. \A m, n \in Nat : m < n => <<m, n>> \in Less  BY Zenon DEF W!OpToRel
<1>2. \A m, n \in Nat : ~(m < n) => n <= m  OBVIOUS
<1>3. W!IsWellFoundedOn(Less, Nat)  BY W!NatLessThanWellFounded, Zenon
<1> HIDE DEF Less
<1>4. \E n \in S : \A m \in S : ~(<<m, n>> \in Less)  BY <1>3, W!WFMin, Zenon
<1> QED BY <1>1, <1>2, <1>4, Zenon

\* The head of std::set<TimerId>: one of its pairs, and before all the others.
LEMMA FirstLemma ==
  ASSUME NEW S \in SUBSET (Nat \X Nat), S # {}
  PROVE  First(S) \in S /\ \A u \in S \ {First(S)} : Before(First(S), u)
<1> DEFINE T == {t[1] : t \in S}
<1>1. PICK n \in T : \A m \in T : n <= m
  <2>1. T \in SUBSET Nat /\ T # {}  BY Zenon
  <2> HIDE DEF T
  <2> QED BY <2>1, LeastNumber, Zenon
<1> DEFINE P == {t[2] : t \in {s \in S : s[1] = n}}
<1>2. PICK p \in P : \A m \in P : p <= m
  <2>1. P \in SUBSET Nat /\ P # {}  BY Zenon
  <2> HIDE DEF P
  <2> QED BY <2>1, LeastNumber, Zenon
<1>3. PICK t \in S : t[1] = n /\ t[2] = p  BY Zenon
<1>4. ASSUME NEW u \in S \ {t} PROVE Before(t, u)
  <2>1. n <= u[1] /\ n \in Nat /\ p \in Nat /\ u \in Nat \X Nat /\ t \in Nat \X Nat
    BY <1>1, Zenon
  <2>2. u[1] = n => p <= u[2]  BY <1>2, Zenon
  <2>3. u[1] = n => u[2] # p
    BY <2>1, <1>3
  <2> QED BY <1>3, <2>1, <2>2, <2>3 DEF Before
<1> QED BY <1>4, Zenon DEF First
-----------------------------------------------------------------------------
Timer == [ms_value : Nat, ms_interval : Nat]

\* The pairs whose time is not before the end of what is left of their delay,
\* by the clock and by what the clock was when timers last ran.
Late == {t \in Nat \X DOMAIN ids :
           \/ t[2] \in behind \/ left[t[2]] = 0
           \/ /\ now + left[t[2]] <= t[1] /\ last_time_out_ + left[t[2]] <= t[1]}

\* The functions that have not run.
Waiting == funcs \o funcs_

\* The timers ts and os, of which those that do not repeat are late, and the
\* functions w that will insert more of them; pointers are members of d.
Good(ts, os, d, late, w) ==
  /\ ts = {<<os[p].ms_value, p>> : p \in DOMAIN os} /\ IsMap(os, d, Timer)
  /\ \A p \in DOMAIN os : os[p].ms_interval = 0 => <<os[p].ms_value, p>> \in late
  /\ \A i \in 1 .. Len(w) : w[i].kind = "insert" =>
       /\ w[i].id[2] \in d /\ w[i].id[2] \notin DOMAIN os
       /\ w[i].interval = 0 => w[i].id \in late
       /\ \A j \in 1 .. Len(w) :
            w[j].kind = "insert" /\ w[j].id[2] = w[i].id[2] => j = i

\* The inductive invariant.
Inv ==
  /\ TypeOK /\ NeverEarly /\ Good(timers_, timer, DOMAIN ids, Late, Waiting)
  /\ \A p \in DOMAIN ids : ids[p][2] = p
  /\ pc \notin {"procs", "fire", "funcs"} => funcs = <<>>
  /\ pc = "fire" => ms_now = last_time_out_

\* A sequence is a function on 1 .. Len.
LEMMA SequenceParts ==
  ASSUME NEW S, NEW s \in Seq(S)
  PROVE  /\ Len(s) \in Nat /\ DOMAIN s = 1 .. Len(s)
         /\ \A i \in DOMAIN s : s[i] \in S
OBVIOUS

\* The first of a sequence, and the others.
LEMMA FirstAndRest ==
  ASSUME NEW S, NEW s \in Seq(S), s # <<>>
  PROVE  Head(s) \in S /\ Tail(s) \in Seq(S)
OBVIOUS

\* By how much a clock at m has gone back from n.
LEMMA BackBy ==
  ASSUME NEW m \in Nat, NEW n \in Nat
  PROVE  LET d == IF m < n THEN n - m ELSE 0
         IN  /\ d \in Nat /\ m >= n - d /\ n - d <= m
             /\ d > 0 => m = n - d
OBVIOUS

\* The lengths of the sequences and what is in them.
LEMMA Sizes ==
  ASSUME TypeOK
  PROVE  /\ Len(ids) \in Nat /\ DOMAIN ids = 1 .. Len(ids) /\ DOMAIN left = 1 .. Len(ids)
         /\ now \in Nat /\ last_time_out_ \in Nat /\ behind \subseteq DOMAIN ids
         /\ \A p \in DOMAIN ids : left[p] \in Nat /\ ids[p] \in Nat \X Nat
         /\ Len(done) \in Nat /\ Len(funcs) \in Nat /\ Len(funcs_) \in Nat
<1>1. /\ ids \in Seq(Nat \X Nat) /\ left \in Seq(Nat) /\ Len(left) = Len(ids)
      /\ now \in Nat /\ last_time_out_ \in Nat /\ behind \subseteq DOMAIN ids
      /\ done \in Seq(Nat) /\ funcs \in Seq(Func) /\ funcs_ \in Seq(Func)
  BY Zenon DEF TypeOK
<1>2. /\ Len(ids) \in Nat /\ DOMAIN ids = 1 .. Len(ids) /\ DOMAIN left = 1 .. Len(ids)
      /\ \A p \in DOMAIN ids : ids[p] \in Nat \X Nat
      /\ \A p \in DOMAIN left : left[p] \in Nat
  BY <1>1, SequenceParts, Zenon
<1>3. \A S : \A q \in Seq(S) : Len(q) \in Nat  BY SequenceParts, Zenon
<1> QED BY <1>1, <1>2, <1>3, Zenon

\* More pointers and more pairs that are late.
LEMMA GoodGrows ==
  ASSUME NEW ts, NEW os, NEW d, NEW late, NEW w, Good(ts, os, d, late, w),
         NEW e, d \subseteq e, NEW more, late \subseteq more
  PROVE  Good(ts, os, e, more, w)
BY Zenon DEF Good, IsMap

\* A timer is inserted that is not there and that no function will insert.
LEMMA GoodInsert ==
  ASSUME NEW ts, NEW os, NEW d, NEW late, NEW w, Good(ts, os, d, late, w),
         NEW t \in Nat \X Nat, t[2] \in d, t[2] \notin DOMAIN os,
         NEW interval \in Nat, interval = 0 => t \in late,
         \A i \in 1 .. Len(w) : w[i].kind = "insert" => w[i].id[2] # t[2]
  PROVE  Good(Insert(ts, t), InsertObject(os, t, interval), d, late, w)
<1> DEFINE o == [ms_value |-> t[1], ms_interval |-> interval]
           s == Put(os, t[2], o)
<1>1. o \in Timer /\ o.ms_value = t[1] /\ o.ms_interval = interval
  BY Zenon DEF Timer
<1>2. /\ IsMap(s, d, Timer) /\ DOMAIN s = DOMAIN os \cup {t[2]} /\ s[t[2]] = o
      /\ \A x \in DOMAIN os : s[x] = os[x]
  <2>1. IsMap(os, d, Timer)  BY Zenon DEF Good
  <2> HIDE DEF o
  <2> QED BY <2>1, <1>1, Zenon DEF IsMap, Put
<1>3. <<t[1], t[2]>> = t  BY SMTT(30)
<1> HIDE DEF o, s
<1>4. Insert(ts, t) = {<<s[p].ms_value, p>> : p \in DOMAIN s}
  BY <1>1, <1>2, <1>3, SMTT(30) DEF Insert, Good
<1>5. \A p \in DOMAIN s : s[p].ms_interval = 0 => <<s[p].ms_value, p>> \in late
  BY <1>1, <1>2, <1>3 DEF Good
<1>6. Good(Insert(ts, t), s, d, late, w)
  BY <1>2, <1>4, <1>5, Zenon DEF Good
<1> QED BY <1>6, Zenon DEF s, o, InsertObject

\* A timer is removed, or was already.
LEMMA GoodRemove ==
  ASSUME NEW ts, NEW os, NEW d, NEW late, NEW w, Good(ts, os, d, late, w), NEW id
  PROVE  Good(RemovePair(ts, os, id), Erase(os, id[2]), d, late, w)
<1> DEFINE s == Erase(os, id[2])
<1>1. /\ IsMap(s, d, Timer) /\ DOMAIN s = DOMAIN os \ {id[2]}
      /\ \A x \in DOMAIN s : s[x] = os[x]
  <2>1. IsMap(os, d, Timer)  BY ZenonT(30) DEF Good
  <2> QED BY <2>1, Zenon DEF IsMap, Erase
<1> HIDE DEF s
<1>2. RemovePair(ts, os, id) = {<<s[p].ms_value, p>> : p \in DOMAIN s}
  BY <1>1 DEF RemovePair, Good
<1>3. Good(RemovePair(ts, os, id), s, d, late, w)
  BY <1>1, <1>2, Zenon DEF Good
<1> QED BY <1>3, Zenon DEF s

\* A function is queued; if it inserts a timer, then one that is not there and
\* that no other function will insert.
LEMMA GoodQueue ==
  ASSUME NEW ts, NEW os, NEW d, NEW late, NEW w \in Seq(Func),
         Good(ts, os, d, late, w), NEW x \in Func,
         x.kind = "insert" =>
           /\ x.id[2] \in d /\ x.id[2] \notin DOMAIN os
           /\ x.interval = 0 => x.id \in late
           /\ \A i \in 1 .. Len(w) : w[i].kind = "insert" => w[i].id[2] # x.id[2]
  PROVE  Good(ts, os, d, late, Append(w, x))
<1> DEFINE v == Append(w, x)
<1>1. /\ Len(v) = Len(w) + 1 /\ v[Len(w) + 1] = x /\ Len(w) \in Nat
      /\ \A i \in 1 .. Len(w) : v[i] = w[i]
  OBVIOUS
<1>2. \A i \in 1 .. Len(v) : i \in 1 .. Len(w) \/ i = Len(w) + 1  BY <1>1, SMTT(30)
<1> HIDE DEF v
<1>3. Good(ts, os, d, late, v)  BY <1>1, <1>2, ZenonT(30) DEF Good
<1> QED BY <1>3, Zenon DEF v

\* The first function is taken; if it inserts a timer, then one that is not
\* there and that no other function will insert.
LEMMA GoodTail ==
  ASSUME NEW ts, NEW os, NEW d, NEW late, NEW w \in Seq(Func), w # <<>>,
         Good(ts, os, d, late, w)
  PROVE  /\ Good(ts, os, d, late, Tail(w))
         /\ Head(w).kind = "insert" =>
              /\ Head(w).id[2] \in d /\ Head(w).id[2] \notin DOMAIN os
              /\ Head(w).interval = 0 => Head(w).id \in late
              /\ \A i \in 1 .. Len(Tail(w)) :
                   Tail(w)[i].kind = "insert" => Tail(w)[i].id[2] # Head(w).id[2]
<1> DEFINE v == Tail(w)
<1>1. /\ Len(w) \in Nat \ {0} /\ Len(v) = Len(w) - 1 /\ Head(w) = w[1]
      /\ \A i \in 1 .. Len(v) : v[i] = w[i + 1]
  OBVIOUS
<1>2. \A i \in 1 .. Len(v) : i + 1 \in 1 .. Len(w) /\ i + 1 # 1  BY <1>1
<1>3. 1 \in 1 .. Len(w)  BY <1>1
<1>4. \A i, j \in 1 .. Len(v) : i + 1 = j + 1 => i = j  OBVIOUS
<1> HIDE DEF v
<1>5. Good(ts, os, d, late, v)
  <2>1. ASSUME NEW i \in 1 .. Len(v), v[i].kind = "insert"
        PROVE  /\ v[i].id[2] \in d /\ v[i].id[2] \notin DOMAIN os
               /\ v[i].interval = 0 => v[i].id \in late
               /\ \A j \in 1 .. Len(v) :
                    v[j].kind = "insert" /\ v[j].id[2] = v[i].id[2] => j = i
    <3>1. /\ v[i] = w[i + 1] /\ i + 1 \in 1 .. Len(w)
          /\ \A j \in 1 .. Len(v) : v[j] = w[j + 1] /\ j + 1 \in 1 .. Len(w)
      BY <1>1, <1>2, Zenon
    <3>2. /\ w[i + 1].id[2] \in d /\ w[i + 1].id[2] \notin DOMAIN os
          /\ w[i + 1].interval = 0 => w[i + 1].id \in late
          /\ \A j \in 1 .. Len(w) :
               w[j].kind = "insert" /\ w[j].id[2] = w[i + 1].id[2] => j = i + 1
      BY <2>1, <3>1, Zenon DEF Good
    <3> QED BY <1>4, <3>1, <3>2, Zenon
  <2> QED BY <2>1, Zenon DEF Good
<1>6. Head(w).kind = "insert" =>
        /\ Head(w).id[2] \in d /\ Head(w).id[2] \notin DOMAIN os
        /\ Head(w).interval = 0 => Head(w).id \in late
        /\ \A i \in 1 .. Len(v) : v[i].kind = "insert" => v[i].id[2] # Head(w).id[2]
  BY <1>1, <1>2, <1>3, ZenonT(30) DEF Good
<1> QED BY <1>5, <1>6, Zenon DEF v

\* A call of RunAt, RunAfter or RunEvery makes a Timer that is new and late.
LEMMA NewTimerLemma ==
  ASSUME TypeOK, \A p \in DOMAIN ids : ids[p][2] = p, NEW delay \in Nat,
         NewTimer(delay), UNCHANGED <<now, last_time_out_>>
  PROVE  /\ ids' \in Seq(Nat \X Nat) /\ left' \in Seq(Nat) /\ Len(left') = Len(ids')
         /\ behind \subseteq behind' /\ behind' \subseteq DOMAIN ids'
         /\ DOMAIN ids \subseteq DOMAIN ids' /\ Late \subseteq Late'
         /\ \A p \in DOMAIN ids' : ids'[p][2] = p
         /\ ids'[Len(ids')] = <<now + delay, Len(ids) + 1>>
         /\ <<now + delay, Len(ids) + 1>> \in Late'
         /\ Len(ids) + 1 \in DOMAIN ids' /\ Len(ids) + 1 \notin DOMAIN ids
<1> DEFINE n == Len(ids) + 1
<1>1. /\ Len(ids) \in Nat /\ DOMAIN ids = 1 .. Len(ids) /\ DOMAIN left = 1 .. Len(ids)
      /\ now \in Nat /\ last_time_out_ \in Nat /\ behind \subseteq DOMAIN ids
      /\ \A p \in DOMAIN ids : left[p] \in Nat /\ ids[p] \in Nat \X Nat
  BY Sizes, ZenonT(30)
<1>2. /\ ids' \in Seq(Nat \X Nat) /\ left' \in Seq(Nat) /\ Len(ids') = n /\ Len(left') = n
      /\ DOMAIN ids' = 1 .. n /\ ids'[n] = <<now + delay, n>> /\ left'[n] = delay
      /\ \A p \in 1 .. Len(ids) : ids'[p] = ids[p] /\ left'[p] = left[p]
  BY SMTT(30) DEF TypeOK, NewTimer
<1>3. behind' = behind \cup (IF now < last_time_out_ THEN {n} ELSE {})
  BY Zenon DEF NewTimer
<1>4. n \in 1 .. n /\ n \notin 1 .. Len(ids) /\ 1 .. n = 1 .. Len(ids) \cup {n}
  BY <1>1
<1>5. \A p \in DOMAIN ids' : ids'[p][2] = p
  <2>1. ids'[n][2] = n  BY <1>2
  <2>2. DOMAIN ids' = DOMAIN ids \cup {n}  BY <1>1, <1>2, <1>4, Zenon
  <2> HIDE DEF n
  <2> QED BY <1>1, <1>2, <2>1, <2>2, ZenonT(30)
<1>6. ASSUME NEW t \in Late PROVE t \in Late'
  BY <1>1, <1>2, <1>3, <1>4, ZenonT(30) DEF Late
<1>7. <<now + delay, n>> \in Late'
  <2>0. now + delay \in Nat  BY <1>1
  <2>1. <<now + delay, n>> \in Nat \X DOMAIN ids'  BY <1>1, <1>2, <1>4, <2>0, ZenonT(30)
  <2>2. n \in behind' \/ last_time_out_ <= now  BY <1>1, <1>3
  <2> QED BY <1>1, <1>2, <2>1, <2>2, SMTT(30) DEF Late
<1> QED BY <1>1, <1>2, <1>3, <1>4, <1>5, <1>6, <1>7, ZenonT(30)

\* The variables of the TimerIds, and what a callback may do with them.
SetOK ==
  /\ ids \in Seq(Nat \X Nat) /\ left \in Seq(Nat) /\ Len(left) = Len(ids)
  /\ behind \subseteq DOMAIN ids /\ \A p \in DOMAIN ids : ids[p][2] = p

\* What a callback or a function does on the thread of the loop keeps the
\* timers good.
LEMMA CallbackLemma ==
  ASSUME NEW STATE ts, NEW STATE os, NEW STATE w,
         TypeOK, \A p \in DOMAIN ids : ids[p][2] = p,
         Good(ts, os, DOMAIN ids, Late, w), Callback(ts, os),
         UNCHANGED <<now, last_time_out_>>
  PROVE  /\ Good(timers_', timer', DOMAIN ids', Late', w) /\ SetOK'
         /\ behind \subseteq behind' /\ DOMAIN ids \subseteq DOMAIN ids'
<1>1. SetOK  BY Zenon DEF TypeOK, SetOK
<1>2. CASE timers_' = ts /\ timer' = os /\ UNCHANGED set
  <2>1. SetOK' /\ ids' = ids /\ behind' = behind /\ Late' = Late
    BY <1>1, <1>2, Zenon DEF SetOK, Late, set
  <2> QED BY <1>2, <2>1, Zenon
<1>3. ASSUME NEW delay \in Delays, NewTimer(delay),
             timers_' = Insert(ts, ids'[Len(ids')]),
             timer' = InsertObject(os, ids'[Len(ids')], 0)
      PROVE  /\ Good(timers_', timer', DOMAIN ids', Late', w) /\ SetOK'
             /\ behind \subseteq behind' /\ DOMAIN ids \subseteq DOMAIN ids'
  <2> DEFINE t == <<now + delay, Len(ids) + 1>>
             d == DOMAIN ids'
             late == Late'
  <2>1. delay \in Nat /\ now \in Nat /\ Len(ids) \in Nat
    BY BoundAssumption DEF TypeOK
  <2>2. /\ SetOK' /\ behind \subseteq behind' /\ DOMAIN ids \subseteq d
        /\ Late \subseteq late /\ ids'[Len(ids')] = t
        /\ t \in late /\ t[2] \in d /\ t[2] \notin DOMAIN ids /\ t \in Nat \X Nat
    <3>1. /\ ids' \in Seq(Nat \X Nat) /\ left' \in Seq(Nat) /\ Len(left') = Len(ids')
          /\ behind \subseteq behind' /\ behind' \subseteq DOMAIN ids'
          /\ DOMAIN ids \subseteq d /\ Late \subseteq late
          /\ \A p \in DOMAIN ids' : ids'[p][2] = p
          /\ ids'[Len(ids')] = t /\ t \in late
          /\ Len(ids) + 1 \in d /\ Len(ids) + 1 \notin DOMAIN ids
      BY <1>3, <2>1, NewTimerLemma, ZenonT(30)
    <3>2. t \in Nat \X Nat /\ t[2] = Len(ids) + 1  BY <2>1
    <3> QED BY <3>1, <3>2, Zenon DEF SetOK
  <2> HIDE DEF t, d, late
  <2>3. Good(ts, os, d, late, w)
    BY <2>2, GoodGrows, Zenon
  <2>4. /\ t[2] \notin DOMAIN os
        /\ \A i \in 1 .. Len(w) : w[i].kind = "insert" => w[i].id[2] # t[2]
    BY <2>2, Zenon DEF Good, IsMap
  <2>5. Good(Insert(ts, t), InsertObject(os, t, 0), d, late, w)
    BY <2>2, <2>3, <2>4, GoodInsert, Zenon
  <2> QED BY <1>3, <2>2, <2>5, ZenonT(30) DEF d, late
<1>4. ASSUME NEW p \in DOMAIN ids, timers_' = RemovePair(ts, os, ids[p]),
             timer' = Erase(os, p), UNCHANGED set
      PROVE  /\ Good(timers_', timer', DOMAIN ids', Late', w) /\ SetOK'
             /\ behind \subseteq behind' /\ DOMAIN ids \subseteq DOMAIN ids'
  <2>1. SetOK' /\ ids' = ids /\ behind' = behind /\ Late' = Late
    BY <1>1, <1>4, Zenon DEF SetOK, Late, set
  <2>2. Good(RemovePair(ts, os, ids[p]), Erase(os, ids[p][2]), DOMAIN ids, Late, w)
    BY GoodRemove, Zenon
  <2> QED BY <1>4, <2>1, <2>2, Zenon
<1> QED BY <1>2, <1>3, <1>4, Zenon DEF Callback
-----------------------------------------------------------------------------
\* What queueing and taking functions makes of the two queues.
LEMMA QueuesLemma ==
  ASSUME NEW S, NEW a \in Seq(S), NEW b \in Seq(S)
  PROVE  /\ a \o b \in Seq(S)
         /\ \A x \in S : a \o Append(b, x) = Append(a \o b, x)
         /\ <<>> \o b = b /\ b \o <<>> = b
<1>1. ASSUME NEW x \in S PROVE a \o Append(b, x) = Append(a \o b, x)
  OBVIOUS
<1>2. <<>> \o b = b /\ b \o <<>> = b
  OBVIOUS
<1> QED BY <1>1, <1>2

\* The first function of the two queues.
LEMMA QueuesHead ==
  ASSUME NEW S, NEW a \in Seq(S), NEW b \in Seq(S), a # <<>>
  PROVE  /\ a \o b # <<>> /\ Head(a \o b) = Head(a)
         /\ Tail(a \o b) = Tail(a) \o b
<1>1. a \o b # <<>> /\ Head(a \o b) = Head(a)  OBVIOUS
<1>2. Tail(a \o b) = Tail(a) \o b  OBVIOUS
<1> QED BY <1>1, <1>2, Zenon

\* The invariant holds at the start.
LEMMA InitInv == Init => Inv
<1> SUFFICES ASSUME Init PROVE Inv  BY Zenon
<1>1. TypeOK /\ NeverEarly
  <2>1. /\ <<>> \in Seq(Func) /\ <<>> \in Seq(Nat) /\ <<>> \in Seq(Nat \X Nat)
    OBVIOUS
  <2>2. exit_ \in BOOLEAN /\ notified \in BOOLEAN  BY Zenon DEF Init
  <2> HIDE DEF Func
  <2> QED BY <2>1, <2>2, Zenon DEF Init, TypeOK, NeverEarly
<1>2. Waiting = <<>> /\ Len(Waiting) = 0 /\ DOMAIN timer = {} /\ DOMAIN ids = {}
  BY DEF Init, Waiting, EmptyMap
<1>3. Good(timers_, timer, DOMAIN ids, Late, Waiting)
  BY <1>2 DEF Init, Good, IsMap, EmptyMap
<1> QED BY <1>1, <1>2, <1>3, Zenon DEF Init, Inv

\* A step that leaves the timers, the queues and the TimerIds alone, and what
\* the timers are late for.
LEMMA InvSame ==
  ASSUME Inv, UNCHANGED <<queues, list, ids, behind, early>>, TypeOK', Late \subseteq Late',
         pc' \notin {"procs", "fire", "funcs"} => funcs = <<>>,
         pc' = "fire" => ms_now' = last_time_out_'
  PROVE  Inv'
<1>1. /\ Waiting' = Waiting /\ timers_' = timers_ /\ timer' = timer /\ ids' = ids
      /\ funcs' = funcs /\ behind' = behind /\ early' = early
  BY Zenon DEF queues, list, Waiting
<1>2. Good(timers_, timer, DOMAIN ids, Late', Waiting)
  BY GoodGrows, Zenon DEF Inv
<1> QED BY <1>1, <1>2, Zenon DEF Inv, NeverEarly

\* The end of a wait is never in the past.
LEMMA TimeoutLemma ==
  ASSUME Inv
  PROVE  TimeoutMs(timers_, last_time_out_, now) \in Nat \cup {NoTimeout}
<1>1. now \in Nat /\ timers_ \in SUBSET (Nat \X Nat)
  <2>1. /\ timers_ = {<<timer[p].ms_value, p>> : p \in DOMAIN timer}
        /\ \A p \in DOMAIN timer : timer[p] \in Timer /\ p \in 1 .. Len(ids)
        /\ now \in Nat
    BY DEF Inv, Good, IsMap, TypeOK
  <2>2. \A p \in DOMAIN timer : timer[p].ms_value \in Nat /\ p \in Nat
    BY <2>1 DEF Timer
  <2> QED BY <2>1, <2>2
<1>2. timers_ # {} => First(timers_)[1] \in Nat
  BY <1>1, FirstLemma
<1> QED BY <1>1, <1>2 DEF TimeoutMs, NoTimeout

\* The steps that leave the timers and the queues alone.
LEMMA QuietSteps ==
  ASSUME Inv, \/ Begin \/ Test \/ FireEnd \/ FuncsEnd \/ Exit \/ Elapse
              \/ UNCHANGED vars \/ \E t \in 0 .. now - 1 : SetBack(t)
  PROVE  Inv'
<1> USE DEF queues, list, set, times, clock
<1>1. TypeOK  BY Zenon DEF Inv
<1>2. CASE Begin
  <2>1. TypeOK' /\ Late' = Late  BY <1>1, <1>2, Zenon DEF Begin, TypeOK, Late
  <2> QED BY <1>2, <2>1, InvSame, Zenon DEF Begin, Inv
<1>3. CASE Test
  <2>1. timeout' \in Nat \cup {NoTimeout}  BY <1>3, TimeoutLemma, Zenon DEF Test
  <2>2. TypeOK' /\ Late' = Late  BY <1>1, <1>3, <2>1, Zenon DEF Test, TypeOK, Late
  <2> QED BY <1>3, <2>2, InvSame, Zenon DEF Test, Inv
<1>4. CASE FireEnd
  <2>1. TypeOK' /\ Late' = Late  BY <1>1, <1>4, Zenon DEF FireEnd, TypeOK, Late
  <2> QED BY <1>4, <2>1, InvSame, Zenon DEF FireEnd, Inv
<1>5. CASE FuncsEnd
  <2>1. TypeOK' /\ Late' = Late  BY <1>1, <1>5, Zenon DEF FuncsEnd, TypeOK, Late
  <2> QED BY <1>5, <2>1, InvSame, Zenon DEF FuncsEnd, Inv
<1>6. CASE Exit
  <2>1. notified' \in BOOLEAN  BY <1>6, Zenon DEF Exit
  <2>2. TypeOK' /\ Late' = Late  BY <1>1, <1>6, <2>1, Zenon DEF Exit, TypeOK, Late
  <2> QED BY <1>6, <2>2, InvSame, Zenon DEF Exit, Inv
<1>7. CASE UNCHANGED vars
  <2>1. TypeOK' /\ Late' = Late  BY <1>1, <1>7, Zenon DEF vars, TypeOK, Late
  <2> QED BY <1>7, <2>1, InvSame, Zenon DEF vars, Inv
<1>8. ASSUME NEW t \in 0 .. now - 1, SetBack(t) PROVE Inv'
  <2>1. TypeOK'  BY <1>1, <1>8, SMTT(30) DEF SetBack, TypeOK
  <2>2. Late \subseteq Late'
    <3>1. now' \in Nat /\ now' <= now /\ now \in Nat
      BY <1>1, <1>8 DEF SetBack, TypeOK
    <3>2. \A p \in DOMAIN ids : left[p] \in Nat  BY <1>1, Sizes, Zenon
    <3> QED BY <1>8, <3>1, <3>2, SMTT(30) DEF SetBack, Late
  <2> QED BY <1>8, <2>1, <2>2, InvSame, ZenonT(30) DEF SetBack, Inv
<1>9. CASE Elapse
  <2>1. /\ now \in Nat /\ now' \in Nat /\ now' <= now + 1 /\ last_time_out_ \in Nat
        /\ left \in Seq(Nat) /\ DOMAIN left = DOMAIN ids /\ DOMAIN left = 1 .. Len(left)
    BY <1>1, <1>9, BoundAssumption DEF Elapse, TypeOK
  <2>2. /\ DOMAIN left' = DOMAIN left
        /\ \A p \in DOMAIN left :
             left'[p] = IF left[p] > 0 THEN left[p] - 1 ELSE 0
    BY <1>9, Zenon DEF Elapse
  <2>3. left' \in Seq(Nat) /\ Len(left') = Len(left)
    BY <1>9, <2>1 DEF Elapse
  <2>4. timeout' \in Nat \cup {NoTimeout}
    BY <1>1, <1>9 DEF Elapse, TypeOK, NoTimeout
  <2>5. TypeOK'
    BY <1>1, <1>9, <2>1, <2>3, <2>4, Zenon DEF Elapse, TypeOK
  <2>6. Late \subseteq Late'
    <3> SUFFICES ASSUME NEW t \in Late PROVE t \in Late'  BY Zenon
    <3>1. t \in Nat \X DOMAIN ids /\ left[t[2]] \in Nat /\ t[1] \in Nat
      BY <2>1, SMTT(30) DEF Late
    <3>2. UNCHANGED <<ids, behind, last_time_out_>>  BY <1>9, Zenon DEF Elapse
    <3>3. left'[t[2]] = IF left[t[2]] > 0 THEN left[t[2]] - 1 ELSE 0
      BY <2>1, <2>2, <3>1, Zenon
    <3>4. CASE t[2] \in behind \/ left'[t[2]] = 0
      BY <3>1, <3>2, <3>4, Zenon DEF Late
    <3>5. CASE ~(t[2] \in behind \/ left'[t[2]] = 0)
      <4>1. /\ now + left[t[2]] <= t[1] /\ last_time_out_ + left[t[2]] <= t[1]
            /\ left'[t[2]] = left[t[2]] - 1
        BY <3>1, <3>3, <3>5 DEF Late
      <4>2. now' + left'[t[2]] <= t[1] /\ last_time_out_ + left'[t[2]] <= t[1]
        <5>1. \A v, l, n, m, k \in Nat :
                n + l <= v /\ k + l <= v /\ m <= n + 1
                  => m + (l - 1) <= v /\ k + (l - 1) <= v
          OBVIOUS
        <5> QED BY <2>1, <3>1, <4>1, <5>1, Zenon
      <4> QED BY <3>1, <3>2, <4>2, Zenon DEF Late
    <3> QED BY <3>4, <3>5, Zenon
  <2> QED BY <1>9, <2>5, <2>6, InvSame, ZenonT(30) DEF Elapse, Inv
<1> QED BY <1>2, <1>3, <1>4, <1>5, <1>6, <1>7, <1>8, <1>9, ZenonT(30)

\* The functions that have not run are a sequence, which a call of QueueInLoop
\* extends, and which the loop leaves as it is when it takes them.
LEMMA WaitingSeq ==
  ASSUME TypeOK PROVE Waiting \in Seq(Func)
<1>1. funcs \in Seq(Func) /\ funcs_ \in Seq(Func)  BY Zenon DEF TypeOK
<1> HIDE DEF Func
<1> QED BY <1>1, QueuesLemma, Zenon DEF Waiting

\* A function that runs was the first of those that have not run.
LEMMA WaitingTail ==
  ASSUME TypeOK, funcs # <<>>, funcs' = Tail(funcs), funcs_' = funcs_
  PROVE  Waiting # <<>> /\ Head(Waiting) = Head(funcs) /\ Waiting' = Tail(Waiting)
<1>1. funcs \in Seq(Func) /\ funcs_ \in Seq(Func)  BY Zenon DEF TypeOK
<1> HIDE DEF Func
<1>2. /\ funcs \o funcs_ # <<>> /\ Head(funcs \o funcs_) = Head(funcs)
      /\ Tail(funcs \o funcs_) = Tail(funcs) \o funcs_
  BY <1>1, QueuesHead, Zenon
<1>3. Waiting' = Tail(funcs) \o funcs_  BY Zenon DEF Waiting
<1> QED BY <1>2, <1>3, Zenon DEF Waiting

\* A call of QueueInLoop appends a function; nothing else that the invariant
\* is about changes, apart from the TimerIds.
LEMMA QueueLemma ==
  ASSUME Inv, NEW kind \in {"func", "insert", "remove"}, NEW id \in Nat \X Nat,
         NEW interval \in Nat, QueueInLoop(kind, id, interval), SetOK',
         behind \subseteq behind', DOMAIN ids \subseteq DOMAIN ids',
         Late \subseteq Late',
         kind = "insert" => /\ id[2] \in DOMAIN ids' \ DOMAIN ids
                            /\ interval = 0 => id \in Late'
  PROVE  Inv'
<1> DEFINE x == [no |-> Queued + 1, kind |-> kind, id |-> id, interval |-> interval]
           d == DOMAIN ids'
           late == Late'
<1>1. TypeOK /\ Good(timers_, timer, DOMAIN ids, Late, Waiting)  BY Zenon DEF Inv
<1>2. Len(done) \in Nat /\ Len(funcs) \in Nat /\ Len(funcs_) \in Nat
  BY <1>1, Sizes, Zenon
<1>3. /\ x \in Func /\ x.kind = kind /\ x.id = id /\ x.interval = interval
  BY <1>2 DEF Func, Queued
<1>4. /\ funcs_' = Append(funcs_, x) /\ notified' = (notified \/ pc = "wait")
      /\ UNCHANGED <<pc, exit_, funcs, done, timeout, timers_, timer,
                     last_time_out_, ms_now, now, backs, early>>
  BY Zenon DEF QueueInLoop, list, times, clock
<1> HIDE DEF x, d, late
<1>5. TypeOK'
  <2>1. notified' \in BOOLEAN  BY <1>4, ZenonT(30)
  <2>2. funcs_' \in Seq(Func)  BY <1>1, <1>3, <1>4 DEF TypeOK
  <2> HIDE DEF Func
  <2> QED BY <1>1, <1>4, <2>1, <2>2, Zenon DEF TypeOK, SetOK, d
<1>6. Waiting' = Append(Waiting, x)
  <2>1. funcs \in Seq(Func) /\ funcs_ \in Seq(Func)  BY <1>1, Zenon DEF TypeOK
  <2> HIDE DEF Func
  <2>2. funcs \o Append(funcs_, x) = Append(funcs \o funcs_, x)
    BY <1>3, <2>1, QueuesLemma, SMTT(30)
  <2> QED BY <1>4, <2>2, Zenon DEF Waiting
<1>7. Good(timers_, timer, d, late, Append(Waiting, x))
  <2>1. Good(timers_, timer, d, late, Waiting)  BY <1>1, GoodGrows, Zenon DEF d, late
  <2>2. x.kind = "insert" =>
          /\ x.id[2] \in d /\ x.id[2] \notin DOMAIN timer
          /\ x.interval = 0 => x.id \in late
          /\ \A i \in 1 .. Len(Waiting) :
               Waiting[i].kind = "insert" => Waiting[i].id[2] # x.id[2]
    BY <1>1, <1>3, Zenon DEF Good, IsMap, d, late
  <2>3. Waiting \in Seq(Func)  BY <1>1, WaitingSeq, Zenon
  <2> HIDE DEF Func
  <2> QED BY <1>3, <2>1, <2>2, <2>3, GoodQueue, Zenon
<1> QED BY <1>4, <1>5, <1>6, <1>7, Zenon DEF Inv, SetOK, NeverEarly, d, late

\* The calls of other threads.
LEMMA CallSteps ==
  ASSUME Inv, \/ QueueFunc \/ \E p \in DOMAIN ids : Remove(ids[p])
              \/ \E delay \in Delays : RunTimer(delay, 0)
              \/ \E delay \in Intervals : RunTimer(delay, delay)
  PROVE  Inv'
<1>1. TypeOK /\ SetOK /\ (\A p \in DOMAIN ids : ids[p][2] = p)
  BY Zenon DEF Inv, TypeOK, SetOK
<1>2. ASSUME UNCHANGED <<set, times, clock>> PROVE SetOK' /\ Late' = Late /\ ids' = ids
  BY <1>1, <1>2, Zenon DEF set, times, clock, SetOK, Late
<1>3. CASE QueueFunc
  <2>1. QueueInLoop("func", <<0, 0>>, 0) /\ UNCHANGED <<set, times, clock>>
    BY <1>3, Zenon DEF QueueFunc, QueueInLoop
  <2> QED BY <1>2, <2>1, QueueLemma, Zenon DEF set
<1>4. ASSUME NEW p \in DOMAIN ids, Remove(ids[p]) PROVE Inv'
  <2>1. QueueInLoop("remove", ids[p], 0) /\ UNCHANGED <<set, times, clock>>
    BY <1>4, ZenonT(30) DEF Remove, QueueInLoop
  <2>2. ids[p] \in Nat \X Nat  BY <1>1 DEF TypeOK
  <2> QED BY <1>2, <2>1, <2>2, QueueLemma, Zenon DEF set
<1>5. ASSUME NEW delay \in Nat, NEW interval \in Nat, RunTimer(delay, interval)
      PROVE  Inv'
  <2> DEFINE t == <<now + delay, Len(ids) + 1>>
  <2>1. /\ NewTimer(delay) /\ QueueInLoop("insert", t, interval)
        /\ UNCHANGED <<now, last_time_out_>>
    BY <1>5, Zenon DEF RunTimer, QueueInLoop, times, clock
  <2>2. t \in Nat \X Nat /\ t[2] = Len(ids) + 1
    <3>1. now \in Nat /\ Len(ids) \in Nat  BY <1>1, Sizes, Zenon
    <3> QED BY <3>1
  <2>3. /\ SetOK' /\ behind \subseteq behind' /\ DOMAIN ids \subseteq DOMAIN ids'
        /\ Late \subseteq Late' /\ t \in Late' /\ t[2] \in DOMAIN ids' \ DOMAIN ids
    <3>1. /\ ids' \in Seq(Nat \X Nat) /\ left' \in Seq(Nat) /\ Len(left') = Len(ids')
          /\ behind \subseteq behind' /\ behind' \subseteq DOMAIN ids'
          /\ DOMAIN ids \subseteq DOMAIN ids' /\ Late \subseteq Late'
          /\ \A p \in DOMAIN ids' : ids'[p][2] = p
          /\ t \in Late'
          /\ Len(ids) + 1 \in DOMAIN ids' /\ Len(ids) + 1 \notin DOMAIN ids
      BY <1>1, <2>1, NewTimerLemma, Zenon
    <3> QED BY <3>1, <2>2, Zenon DEF SetOK
  <2> HIDE DEF t
  <2> QED BY <2>1, <2>2, <2>3, QueueLemma, Zenon
<1> QED BY <1>3, <1>4, <1>5, BoundAssumption, Zenon

\* The loop takes the functions, with a wait or without one.
LEMMA TakeSteps ==
  ASSUME Inv, Lock \/ Wake
  PROVE  Inv'
<1>1. TypeOK /\ funcs = <<>>  BY Zenon DEF Inv, Lock, Wake
<1>2. /\ funcs' = funcs_ /\ funcs_' = <<>> /\ notified' = FALSE
      /\ pc' \in {"wait", "procs"} /\ (pc' = "wait" => funcs_ = <<>>)
      /\ timeout' \in {timeout, 0}
      /\ UNCHANGED <<exit_, done, list, times, clock, set, early>>
  BY Zenon DEF Lock, Wake
<1>3. funcs_ \in Seq(Func) /\ funcs_' \in Seq(Func) /\ funcs \in Seq(Func)
  BY <1>1, <1>2, Zenon DEF TypeOK
<1>4. Waiting' = Waiting
  <2> HIDE DEF Func
  <2>1. funcs_ \o <<>> = <<>> \o funcs_  BY <1>3, QueuesLemma, Zenon
  <2> QED BY <1>1, <1>2, <2>1, Zenon DEF Waiting
<1>5. notified' \in BOOLEAN  BY <1>2, ZenonT(30)
<1>6. TypeOK'
  <2> HIDE DEF Func
  <2>1. 0 \in Nat  OBVIOUS
  <2>2. timeout' \in Nat \cup {NoTimeout}  BY <1>1, <1>2, <2>1, Zenon DEF TypeOK
  <2> QED BY <1>1, <1>2, <1>3, <1>5, <2>2, ZenonT(30) DEF TypeOK, list, times, clock, set
<1>7. UNCHANGED <<timers_, timer, ids, Late, behind, early>>
  BY <1>2, Zenon DEF list, times, clock, set, Late
<1> QED BY <1>2, <1>4, <1>6, <1>7, Zenon DEF Inv, NeverEarly

\* RunTimerProcs moves the timers back with the clock: they agree, and those
\* that do not repeat are still late.
LEMMA ProcsStep ==
  ASSUME Inv, Procs
  PROVE  Inv'
<1>1. TypeOK /\ Good(timers_, timer, DOMAIN ids, Late, Waiting)  BY Zenon DEF Inv
<1>2. /\ pc = "procs" /\ pc' = IF timers_ = {} THEN "funcs" ELSE "fire"
      /\ UNCHANGED <<exit_, queues, timeout, notified, clock, set, early>>
  BY Zenon DEF Procs
<1>3. CASE timers_ = {}
  <2>1. UNCHANGED <<list, times>>  BY <1>3, Zenon DEF Procs
  <2>2. TypeOK' /\ Late' = Late
    BY <1>1, <1>2, <2>1, Zenon DEF TypeOK, Late, list, times, queues, clock, set
  <2> QED BY <1>2, <1>3, <2>1, <2>2, InvSame, Zenon DEF set, Inv
<1>4. CASE timers_ # {}
  <2> DEFINE diff == IF now < last_time_out_ THEN last_time_out_ - now ELSE 0
             os == MoveObjects(timer, diff)
             late == Late'
  <2>1. /\ ms_now' = now /\ last_time_out_' = now /\ timer' = os
        /\ timers_' = MoveTimers(timers_, diff)
    BY <1>4, Zenon DEF Procs
  <2>2. TypeOK'
    BY <1>1, <1>2, <2>1, ZenonT(30) DEF TypeOK, queues, clock, set
  <2>3. /\ now \in Nat /\ last_time_out_ \in Nat /\ diff \in Nat
        /\ now >= last_time_out_ - diff /\ last_time_out_ - diff <= now
        /\ (diff > 0 => now = last_time_out_ - diff)
        /\ \A p \in DOMAIN ids : left[p] \in Nat
    <3>1. /\ now \in Nat /\ last_time_out_ \in Nat
          /\ \A p \in DOMAIN ids : left[p] \in Nat
      BY <1>1, Sizes, Zenon
    <3> QED BY <3>1, BackBy, Zenon
  <2>4. /\ IsMap(timer, DOMAIN ids, Timer)
        /\ timers_ = {<<timer[p].ms_value, p>> : p \in DOMAIN timer}
    BY <1>1, Zenon DEF Good
  <2>5. \A t \in Late : t \in late
    BY <1>2, <2>1, <2>3, Zenon DEF Late, clock, set
  <2>6. \A t \in Late : <<Moved(t[1], diff), t[2]>> \in late
    <3> SUFFICES ASSUME NEW t \in Late PROVE <<Moved(t[1], diff), t[2]>> \in late
      BY Zenon
    <3>1. t \in Nat \X DOMAIN ids /\ t[1] \in Nat /\ left[t[2]] \in Nat
      BY <2>3, Zenon DEF Late
    <3> HIDE DEF diff
    <3>2. Moved(t[1], diff) \in Nat  BY <2>3, <3>1 DEF Moved
    <3>3. \/ t[2] \in behind \/ left[t[2]] = 0
          \/ now + left[t[2]] <= Moved(t[1], diff)
      BY <2>3, <3>1 DEF Late, Moved
    <3> QED BY <1>2, <2>1, <3>1, <3>2, <3>3, Zenon DEF Late, clock, set
  <2> HIDE DEF diff, late
  <2>7. \A p \in DOMAIN timer :
          /\ os[p] \in Timer /\ os[p].ms_interval = timer[p].ms_interval
          /\ os[p].ms_value = Moved(timer[p].ms_value, diff)
    BY <2>3, <2>4 DEF MoveObjects, IsMap, Timer, Moved
  <2>8. DOMAIN os = DOMAIN timer /\ IsMap(os, DOMAIN ids, Timer)
    BY <2>4, <2>7, Zenon DEF MoveObjects, IsMap
  <2> HIDE DEF os
  <2>9. timers_' = {<<os[p].ms_value, p>> : p \in DOMAIN os}
    <3>1. \A p \in DOMAIN os : <<timer[p].ms_value, p>> \in timers_
      BY <2>4, <2>8, Zenon
    <3>2. \A t \in timers_ : \E p \in DOMAIN os :
            t[1] = timer[p].ms_value /\ t[2] = p
      BY <2>4, <2>8
    <3>3. \A p \in DOMAIN os : os[p].ms_value = Moved(timer[p].ms_value, diff)
      BY <2>7, <2>8, Zenon
    <3>4. ASSUME NEW x \in timers_'
          PROVE  x \in {<<os[p].ms_value, p>> : p \in DOMAIN os}
      <4>1. PICK t \in timers_ : x = <<Moved(t[1], diff), t[2]>>
        BY <2>1, Zenon DEF MoveTimers
      <4> QED BY <3>2, <3>3, <4>1, Zenon
    <3>5. ASSUME NEW p \in DOMAIN os PROVE <<os[p].ms_value, p>> \in timers_'
      <4> DEFINE t == <<timer[p].ms_value, p>>
      <4>1. t \in timers_ /\ <<os[p].ms_value, p>> = <<Moved(t[1], diff), t[2]>>
        BY <3>1, <3>3, Zenon
      <4> HIDE DEF t
      <4> QED BY <2>1, <4>1, Zenon DEF MoveTimers
    <3> QED BY <3>4, <3>5, Zenon
  <2>10. Good(timers_', os, DOMAIN ids, late, Waiting)
    BY <1>1, <2>5, <2>6, <2>7, <2>8, <2>9, Zenon DEF Good
  <2>11. UNCHANGED <<Waiting, ids, behind, early, funcs>>
    BY <1>2, Zenon DEF Waiting, queues, set
  <2> QED BY <1>2, <2>1, <2>2, <2>10, <2>11, Zenon DEF Inv, NeverEarly, late
<1> QED BY <1>3, <1>4, Zenon

\* A timer that is due fires, is inserted again if it repeats, and its callback
\* runs.
LEMMA FireStep ==
  ASSUME Inv, Fire
  PROVE  Inv'
<1> DEFINE t == First(timers_)
           p == t[2]
           interval == timer[p].ms_interval
           next == <<ms_now + interval, p>>
<1>1. /\ TypeOK /\ NeverEarly /\ Good(timers_, timer, DOMAIN ids, Late, Waiting)
      /\ \A q \in DOMAIN ids : ids[q][2] = q
      /\ pc = "fire" /\ ms_now = last_time_out_ /\ timers_ # {} /\ t[1] <= ms_now
      /\ early' = IF interval = 0 /\ left[p] > 0 THEN early \cup {p} ELSE early
      /\ UNCHANGED <<pc, exit_, queues, timeout, notified, times, clock>>
  BY Zenon DEF Inv, Fire, Due
<1>2. \A q \in DOMAIN timer :
        /\ timer[q] \in Timer /\ timer[q].ms_value \in Nat /\ timer[q].ms_interval \in Nat
        /\ q \in Nat /\ q \in DOMAIN ids
  <2>1. \A q \in DOMAIN timer : timer[q] \in Timer /\ q \in DOMAIN ids
    BY <1>1, ZenonT(30) DEF Good, IsMap
  <2>2. DOMAIN ids \subseteq Nat  BY <1>1 DEF TypeOK
  <2> QED BY <2>1, <2>2, Zenon DEF Timer
<1>3. timers_ = {<<timer[q].ms_value, q>> : q \in DOMAIN timer}
  BY <1>1, Zenon DEF Good
<1>4. timers_ \in SUBSET (Nat \X Nat)  BY <1>2, <1>3
<1>5. t \in timers_  BY <1>1, <1>4, FirstLemma, Zenon
<1> HIDE DEF t
<1>6. /\ p \in DOMAIN timer /\ t = <<timer[p].ms_value, p>> /\ p \in Nat
      /\ interval \in Nat /\ t[1] \in Nat /\ ms_now \in Nat /\ p \in DOMAIN ids
  <2>1. PICK q \in DOMAIN timer : t = <<timer[q].ms_value, q>>  BY <1>3, <1>5, Zenon
  <2>2. p = q  BY <2>1, Zenon
  <2> QED BY <1>1, <1>2, <2>1, <2>2, Zenon DEF TypeOK
<1>7. IF interval > 0
      THEN Callback(Insert(timers_ \ {t}, next), InsertObject(timer, next, interval))
      ELSE Callback(timers_ \ {t}, Erase(timer, p))
  BY Zenon DEF Fire, t
<1>8. Good(timers_ \ {t}, Erase(timer, p), DOMAIN ids, Late, Waiting)
  <2>1. RemovePair(timers_, timer, t) = timers_ \ {t}
    BY <1>6, Zenon DEF RemovePair
  <2>2. Good(RemovePair(timers_, timer, t), Erase(timer, t[2]), DOMAIN ids, Late, Waiting)
    BY <1>1, GoodRemove, Zenon
  <2> QED BY <2>1, <2>2, Zenon
<1>9. interval > 0 =>
        Good(Insert(timers_ \ {t}, next), InsertObject(timer, next, interval),
             DOMAIN ids, Late, Waiting)
  <2> SUFFICES ASSUME interval > 0
               PROVE  Good(Insert(timers_ \ {t}, next),
                           InsertObject(timer, next, interval),
                           DOMAIN ids, Late, Waiting)
    BY Zenon
  <2>1. /\ next \in Nat \X Nat /\ next[2] = p /\ p \in DOMAIN ids
        /\ p \notin DOMAIN Erase(timer, p)
    BY <1>6 DEF Erase
  <2>2. InsertObject(Erase(timer, p), next, interval) = InsertObject(timer, next, interval)
    BY <1>6, <2>1, Zenon DEF InsertObject, Put, Erase
  <2>3. \A i \in 1 .. Len(Waiting) :
          Waiting[i].kind = "insert" => Waiting[i].id[2] # next[2]
    BY <1>1, <1>6, <2>1, ZenonT(30) DEF Good
  <2> HIDE DEF next, interval
  <2>4. interval \in Nat /\ interval # 0  BY <1>6
  <2>5. Good(Insert(timers_ \ {t}, next), InsertObject(Erase(timer, p), next, interval),
             DOMAIN ids, Late, Waiting)
    BY <1>8, <2>1, <2>3, <2>4, GoodInsert, ZenonT(30)
  <2> QED BY <2>2, <2>5, Zenon
<1>10. interval = 0 /\ left[p] > 0 => p \in behind
  <2>1. interval = 0 => t \in Late  BY <1>1, <1>6, ZenonT(30) DEF Good
  <2>2. \A q \in DOMAIN ids : left[q] \in Nat  BY <1>1, Sizes, Zenon
  <2>3. left[p] \in Nat  BY <1>6, <2>2, Zenon
  <2> QED BY <1>1, <1>6, <2>1, <2>3 DEF Late
<1>11. UNCHANGED <<now, last_time_out_, Waiting, funcs, ms_now, pc>>
  BY <1>1, Zenon DEF times, clock, queues, Waiting
<1>12. /\ Good(timers_', timer', DOMAIN ids', Late', Waiting) /\ SetOK'
       /\ behind \subseteq behind' /\ DOMAIN ids \subseteq DOMAIN ids'
  <2>1. CASE interval > 0
    BY <1>1, <1>7, <1>9, <1>11, <2>1, CallbackLemma, Zenon
  <2>2. CASE ~(interval > 0)
    BY <1>1, <1>7, <1>8, <1>11, <2>2, CallbackLemma, Zenon
  <2> QED BY <2>1, <2>2, Zenon
<1>13. early' \subseteq behind
  BY <1>1, <1>10, Zenon DEF NeverEarly
<1>14. TypeOK'
  BY <1>1, <1>12, <1>13, Zenon DEF TypeOK, SetOK, queues, times, clock
<1> QED BY <1>1, <1>11, <1>12, <1>13, <1>14, Zenon DEF Inv, SetOK, NeverEarly

\* The next of the functions that were taken runs.
LEMMA RunFuncStep ==
  ASSUME Inv, RunFunc
  PROVE  Inv'
<1> DEFINE f == Head(funcs)
           w == Tail(Waiting)
<1>1. /\ TypeOK /\ NeverEarly /\ Good(timers_, timer, DOMAIN ids, Late, Waiting)
      /\ \A q \in DOMAIN ids : ids[q][2] = q
      /\ pc = "funcs" /\ funcs # <<>> /\ funcs' = Tail(funcs)
      /\ done' = Append(done, f.no)
      /\ UNCHANGED <<pc, exit_, funcs_, timeout, notified, times, clock, early>>
  BY Zenon DEF Inv, RunFunc
<1>2. funcs \in Seq(Func) /\ funcs_ \in Seq(Func) /\ Waiting \in Seq(Func)
  BY <1>1, WaitingSeq, Zenon DEF TypeOK
<1>3. Waiting # <<>> /\ Head(Waiting) = f /\ Waiting' = w
  BY <1>1, WaitingTail, Zenon
<1>4. f \in Func /\ f.no \in Nat /\ f.id \in Nat \X Nat /\ f.interval \in Nat
  <2>1. f \in Func
    <3> HIDE DEF Func
    <3> QED BY <1>1, <1>2, FirstAndRest, Zenon
  <2> QED BY <2>1, ZenonT(30) DEF Func
<1>5. /\ Good(timers_, timer, DOMAIN ids, Late, w)
      /\ f.kind = "insert" =>
           /\ f.id[2] \in DOMAIN ids /\ f.id[2] \notin DOMAIN timer
           /\ f.interval = 0 => f.id \in Late
           /\ \A i \in 1 .. Len(w) : w[i].kind = "insert" => w[i].id[2] # f.id[2]
  <2>1. /\ Good(timers_, timer, DOMAIN ids, Late, w)
        /\ Head(Waiting).kind = "insert" =>
             /\ Head(Waiting).id[2] \in DOMAIN ids /\ Head(Waiting).id[2] \notin DOMAIN timer
             /\ Head(Waiting).interval = 0 => Head(Waiting).id \in Late
             /\ \A i \in 1 .. Len(w) :
                  w[i].kind = "insert" => w[i].id[2] # Head(Waiting).id[2]
    <3>1. /\ Waiting \in Seq(Func) /\ Waiting # <<>>
          /\ Good(timers_, timer, DOMAIN ids, Late, Waiting)
      BY <1>1, <1>2, <1>3, Zenon
    <3> QED BY <3>1, GoodTail, ZenonT(30)
  <2> HIDE DEF f, w
  <2> QED BY <1>3, <2>1, Zenon
<1> HIDE DEF f, w
<1>6. UNCHANGED <<now, last_time_out_, ms_now, early, pc>>
  BY <1>1, Zenon DEF times, clock
<1>7. ASSUME UNCHANGED set
      PROVE  /\ Late' = Late /\ SetOK' /\ behind \subseteq behind'
             /\ ids' = ids /\ DOMAIN ids \subseteq DOMAIN ids'
  BY <1>1, <1>6, <1>7, Zenon DEF Late, set, SetOK, TypeOK
<1>8. /\ Good(timers_', timer', DOMAIN ids', Late', w) /\ SetOK'
      /\ behind \subseteq behind' /\ DOMAIN ids \subseteq DOMAIN ids'
  <2>1. CASE Callback(timers_, timer)
    BY <1>1, <1>5, <1>6, <2>1, CallbackLemma, Zenon
  <2>2. CASE /\ f.kind = "insert" /\ timers_' = Insert(timers_, f.id)
             /\ timer' = InsertObject(timer, f.id, f.interval) /\ UNCHANGED set
    <3>1. Good(Insert(timers_, f.id), InsertObject(timer, f.id, f.interval),
               DOMAIN ids, Late, w)
      BY <1>4, <1>5, <2>2, GoodInsert, Zenon
    <3> QED BY <1>7, <2>2, <3>1, Zenon
  <2>3. CASE /\ f.kind = "remove" /\ timers_' = RemovePair(timers_, timer, f.id)
             /\ timer' = Erase(timer, f.id[2]) /\ UNCHANGED set
    <3>1. Good(RemovePair(timers_, timer, f.id), Erase(timer, f.id[2]),
               DOMAIN ids, Late, w)
      BY <1>5, GoodRemove, Zenon
    <3> QED BY <1>7, <2>3, <3>1, Zenon
  <2> QED BY <2>1, <2>2, <2>3, Zenon DEF RunFunc, f
<1>9. TypeOK'
  <2>1. funcs' \in Seq(Func) /\ done' \in Seq(Nat)
    BY <1>1, <1>2, <1>4 DEF TypeOK
  <2> HIDE DEF Func
  <2> QED BY <1>1, <1>8, <2>1, ZenonT(30) DEF TypeOK, SetOK, times, clock
<1> QED BY <1>1, <1>3, <1>6, <1>8, <1>9, Zenon DEF Inv, SetOK, NeverEarly
-----------------------------------------------------------------------------
\* The invariant is inductive.
THEOREM Inductive == Spec => []Inv
<1>1. Inv /\ [Next]_vars => Inv'
  BY QuietSteps, CallSteps, TakeSteps, ProcsStep, FireStep, RunFuncStep, ZenonT(30)
    DEF Next, Step
<1> QED BY <1>1, InitInv, PTL DEF Spec

\* The variables of the loop have their types, and the time that the loop waits
\* for is never in the past.
THEOREM Typed == Spec => []TypeOK
<1>1. Inv => TypeOK  BY Zenon DEF Inv
<1> QED BY <1>1, Inductive, PTL

\* timers_ and timer_ptrs_ agree whatever is set, removed and repeated, on the
\* thread of the loop or through its queue, and whatever happens to the clock:
\* no deleted Timer is used, and a timer that is removed does not fire.
THEOREM IndexKept == Spec => []IndexAgrees
<1>1. Inv => IndexAgrees  BY ZenonT(30) DEF Inv, Good, IndexAgrees
<1> QED BY <1>1, Inductive, PTL

\* A timer that does not repeat never fires before its delay is over, if the
\* clock was not behind when it was set.
THEOREM NotEarly == Spec => []NeverEarly
<1>1. Inv => NeverEarly  BY Zenon DEF Inv
<1> QED BY <1>1, Inductive, PTL
-----------------------------------------------------------------------------
\* The numbers of functions, as the abstract queue has them.
Numbers(w) == [i \in DOMAIN w |-> w[i].no]

\* What queueing and running a function makes of the numbers.
LEMMA NumbersLemma ==
  ASSUME NEW w \in Seq(Func)
  PROVE  /\ \A x \in Func : Numbers(Append(w, x)) = Append(Numbers(w), x.no)
         /\ w # <<>> => /\ Numbers(w) # <<>> /\ Head(Numbers(w)) = Head(w).no
                        /\ Numbers(Tail(w)) = Tail(Numbers(w))
<1>1. Numbers(w) \in Seq(Nat) /\ Len(Numbers(w)) = Len(w)
  <2>1. \A i \in 1 .. Len(w) : w[i] \in Func
    <3> HIDE DEF Func
    <3> QED OBVIOUS
  <2>2. \A i \in 1 .. Len(w) : w[i].no \in Nat  BY <2>1, Zenon DEF Func
  <2>3. DOMAIN w = 1 .. Len(w) /\ Len(w) \in Nat  OBVIOUS
  <2> QED BY <2>2, <2>3 DEF Numbers
<1>2. \A i \in 1 .. Len(w) : Numbers(w)[i] = w[i].no
  BY DEF Numbers
<1>3. ASSUME NEW x \in Func
      PROVE  Numbers(Append(w, x)) = Append(Numbers(w), x.no)
  BY <1>1, <1>2 DEF Numbers
<1>4. ASSUME w # <<>> PROVE Numbers(w) # <<>> /\ Head(Numbers(w)) = Head(w).no
  BY <1>1, <1>2, <1>4
<1>5. ASSUME w # <<>> PROVE Numbers(Tail(w)) = Tail(Numbers(w))
  BY <1>1, <1>2, <1>5, SMTT(30) DEF Numbers
<1> QED BY <1>3, <1>4, <1>5, ZenonT(30)

\* The loop implements the queue: every step of it queues a function, runs the
\* first of those that have not run, ends the loop, or changes nothing that the
\* queue is about.
THEOREM Implements == Spec => Tasks!Spec
<1> DEFINE queue == Numbers(Waiting)
           ended == (pc = "ended")
<1>1. ASSUME Init PROVE Tasks!Init
  <2>1. Waiting = <<>>  BY <1>1 DEF Init, Waiting
  <2>2. queue = <<>>  BY <2>1 DEF Numbers
  <2> QED BY <1>1, <2>2, Zenon DEF Init, Tasks!Init, Numbers, Waiting
<1>2. ASSUME Inv, [Next]_vars PROVE [Tasks!Next]_(Tasks!vars)
  <2>1. TypeOK /\ Waiting \in Seq(Func) /\ funcs \in Seq(Func) /\ funcs_ \in Seq(Func)
    BY <1>2, WaitingSeq, Zenon DEF Inv, TypeOK
  <2>2. ASSUME UNCHANGED <<queue, done, ended>> PROVE [Tasks!Next]_(Tasks!vars)
    BY <2>2, Zenon DEF Tasks!vars, Numbers, Waiting
  <2>3. ASSUME NEW kind \in {"func", "insert", "remove"}, NEW id \in Nat \X Nat,
               NEW interval \in Nat, QueueInLoop(kind, id, interval)
        PROVE  Tasks!Next
    <3> DEFINE x == [no |-> Queued + 1, kind |-> kind, id |-> id,
                     interval |-> interval]
    <3>1. /\ Queued \in Nat /\ Queued < MaxFunc /\ funcs_' = Append(funcs_, x)
          /\ UNCHANGED <<pc, funcs, done>>
      BY <2>1, <2>3 DEF QueueInLoop, Queued, TypeOK
    <3>2. x \in Func /\ x.no = Queued + 1 /\ x.no \in 1 .. MaxFunc
      BY <3>1, BoundAssumption DEF Func
    <3> HIDE DEF x
    <3>3. Waiting' = Append(Waiting, x)
      <4> HIDE DEF Func
      <4>1. funcs \o Append(funcs_, x) = Append(funcs \o funcs_, x)
        BY <2>1, <3>2, QueuesLemma, SMTT(30)
      <4> QED BY <3>1, <4>1, Zenon DEF Waiting
    <3>4. queue' = Append(queue, x.no)
      <4> HIDE DEF Func
      <4> QED BY <2>1, <3>2, <3>3, NumbersLemma, Zenon
    <3>5. PICK n \in 1 .. MaxFunc : n = x.no  BY <3>2, Zenon
    <3>6. Tasks!Submit(n)
      BY <3>1, <3>4, <3>5, Zenon DEF Tasks!Submit, Numbers, Waiting
    <3> QED BY <3>6, Zenon DEF Tasks!Next
  <2>4. CASE QueueFunc \/ \E p \in DOMAIN ids : Remove(ids[p])
    <3>1. \A p \in DOMAIN ids : ids[p] \in Nat \X Nat  BY <2>1 DEF TypeOK
    <3> QED BY <2>3, <2>4, <3>1, Zenon DEF QueueFunc, Remove
  <2>5. CASE \/ \E d \in Delays : RunTimer(d, 0)
             \/ \E d \in Intervals : RunTimer(d, d)
    <3>1. \A d \in Nat : <<now + d, Len(ids) + 1>> \in Nat \X Nat
      BY <2>1 DEF TypeOK
    <3> QED BY <2>3, <2>5, <3>1, BoundAssumption, Zenon DEF RunTimer
  <2>6. CASE RunFunc
    <3>1. /\ pc = "funcs" /\ funcs # <<>> /\ funcs' = Tail(funcs)
          /\ done' = Append(done, Head(funcs).no) /\ UNCHANGED <<pc, funcs_>>
      BY <2>6, Zenon DEF RunFunc
    <3>2. Waiting # <<>> /\ Head(Waiting) = Head(funcs) /\ Waiting' = Tail(Waiting)
      BY <2>1, <3>1, WaitingTail, Zenon
    <3>3. queue # <<>> /\ Head(queue) = Head(funcs).no /\ queue' = Tail(queue)
      <4> HIDE DEF Func
      <4> QED BY <2>1, <3>2, NumbersLemma, Zenon
    <3>4. Tasks!Run
      BY <3>1, <3>3, Zenon DEF Tasks!Run, Numbers, Waiting
    <3> QED BY <3>4, Zenon DEF Tasks!Next
  <2>7. CASE Lock \/ Wake
    <3>1. funcs = <<>> /\ funcs' = funcs_ /\ funcs_' = <<>> /\ done' = done
          /\ pc # "ended" /\ pc' # "ended"
      BY <1>2, <2>7, Zenon DEF Inv, Lock, Wake
    <3>2. Waiting' = Waiting
      <4> HIDE DEF Func
      <4>1. funcs_ \o <<>> = <<>> \o funcs_  BY <2>1, QueuesLemma, Zenon
      <4> QED BY <3>1, <4>1, Zenon DEF Waiting
    <3> QED BY <2>2, <3>1, <3>2, Zenon
  <2>8. CASE Test
    <3>1. /\ pc = "test" /\ pc' \in {"ended", "lock"} /\ UNCHANGED <<funcs, funcs_, done>>
      BY <2>8, Zenon DEF Test, queues
    <3>2. queue' = queue  BY <3>1, Zenon DEF Waiting
    <3>3. CASE pc' = "ended"
      <4>1. Tasks!End  BY <3>1, <3>2, <3>3, Zenon DEF Tasks!End, Numbers, Waiting
      <4> QED BY <4>1, Zenon DEF Tasks!Next
    <3>4. CASE pc' = "lock"
      BY <2>2, <3>1, <3>2, <3>4, Zenon
    <3> QED BY <3>1, <3>3, <3>4, Zenon
  <2>9. CASE \/ Begin \/ Procs \/ Fire \/ FireEnd \/ FuncsEnd \/ Exit \/ Elapse
             \/ UNCHANGED vars \/ \E t \in 0 .. now - 1 : SetBack(t)
    <3>1. UNCHANGED <<funcs, funcs_, done>> /\ ended' = ended
      <4> USE DEF queues
      <4>1. CASE Begin  BY <4>1, Zenon DEF Begin
      <4>2. CASE Procs  BY <4>2, Zenon DEF Procs
      <4>3. CASE Fire  BY <4>3, Zenon DEF Fire
      <4>4. CASE FireEnd  BY <4>4, Zenon DEF FireEnd
      <4>5. CASE FuncsEnd  BY <4>5, Zenon DEF FuncsEnd
      <4>6. CASE Exit \/ Elapse  BY <4>6, Zenon DEF Exit, Elapse
      <4>7. CASE UNCHANGED vars  BY <4>7, Zenon DEF vars
      <4>8. CASE \E t \in 0 .. now - 1 : SetBack(t)  BY <4>8, Zenon DEF SetBack
      <4> QED BY <2>9, <4>1, <4>2, <4>3, <4>4, <4>5, <4>6, <4>7, <4>8, ZenonT(30)
    <3>2. queue' = queue /\ ended' = ended  BY <3>1, Zenon DEF Waiting
    <3> QED BY <2>2, <3>1, <3>2, Zenon
  <2> QED BY <1>2, <2>4, <2>5, <2>6, <2>7, <2>8, <2>9, Zenon DEF Next, Step
<1> QED BY <1>1, <1>2, Inductive, PTL DEF Spec, Tasks!Spec
=============================================================================
