------------------------------ MODULE RunLoop ------------------------------
(***************************************************************************)
(* A thread that runs functions and timers (saber/util/runloop.cc,         *)
(* timerlist.cc, runloop_thread.cc): other threads queue functions in      *)
(* funcs_ and the loop takes all of them at once; the timers are only      *)
(* touched on the loop's thread, so that setting or removing one from      *)
(* another thread is a queued function as well.                            *)
(*                                                                         *)
(* The system clock advances with the time, and may be set back; the wait  *)
(* for the condition variable goes by the time and not by the clock.       *)
(* The address of a Timer that was deleted is not used again here.         *)
(***************************************************************************)
EXTENDS TimerList, Sequences, FiniteSets

CONSTANTS
  Delays,     \* the delays that timers are set with
  Intervals,  \* the intervals of timers that repeat
  MaxFunc,    \* bound on the functions that are queued
  MaxTimer,   \* bound on the timers that are set
  MaxNow,     \* bound on the clock
  MaxBack     \* bound on how often the clock is set back

ASSUME BoundAssumption ==
  /\ Delays \subseteq Nat /\ Intervals \subseteq Nat \ {0}
  /\ MaxFunc \in Nat /\ MaxTimer \in Nat /\ MaxNow \in Nat /\ MaxBack \in Nat

VARIABLES
  pc,              \* where the thread of the loop is
  exit_,           \* Exit was called
  funcs_,          \* the functions queued
  funcs,           \* those that the loop has taken and not run
  timeout,         \* what TimeoutMs has returned; what is left of the wait
  notified,        \* cond_ was notified during the wait
  timers_, timer,  \* see TimerList
  last_time_out_,  \* when RunTimerProcs last ran timers
  ms_now,          \* the clock as RunTimerProcs has read it
  now,             \* the clock
  backs,           \* how often it was set back
  ids,             \* the TimerIds that have been returned
  done,            \* history: the functions that have run, by number
  left,            \* history: what is left of the delay of each TimerId
  behind,          \* history: timers set when the clock was behind
  early            \* history: timers that fired before their time

queues == <<funcs_, funcs, done>>
list == <<timers_, timer>>
times == <<last_time_out_, ms_now>>
clock == <<now, backs>>
set == <<ids, left, behind>>
vars == <<pc, exit_, queues, timeout, notified, list, times, clock, set, early>>

Init ==
  /\ pc = "begin" /\ exit_ = FALSE /\ funcs_ = <<>> /\ funcs = <<>> /\ done = <<>>
  /\ timeout = 0 /\ notified = FALSE /\ timers_ = {} /\ timer = EmptyMap
  /\ now = 1 /\ last_time_out_ = 1 /\ ms_now = 1 /\ backs = 0
  /\ ids = <<>> /\ left = <<>> /\ behind = {} /\ early = {}
-----------------------------------------------------------------------------
\* The calls of other threads.

Queued == Len(done) + Len(funcs) + Len(funcs_)

\* Under mutex_; a notification that nobody waits for is lost.
QueueInLoop(kind, id, interval) ==
  /\ Queued < MaxFunc
  /\ funcs_' = Append(funcs_, [no |-> Queued + 1, kind |-> kind, id |-> id,
                               interval |-> interval])
  /\ notified' = (notified \/ pc = "wait")
  /\ UNCHANGED <<pc, exit_, funcs, done, timeout, list, times, clock, early>>

QueueFunc == QueueInLoop("func", <<0, 0>>, 0) /\ UNCHANGED set

\* A new Timer, due after delay.
NewTimer(delay) ==
  /\ Len(ids) < MaxTimer /\ now + delay <= MaxNow
  /\ ids' = Append(ids, <<now + delay, Len(ids) + 1>>) /\ left' = Append(left, delay)
  /\ behind' = behind \cup (IF now < last_time_out_ THEN {Len(ids) + 1} ELSE {})

\* RunAt, RunAfter and RunEvery: the loop inserts the timer.
RunTimer(delay, interval) ==
  NewTimer(delay) /\ QueueInLoop("insert", <<now + delay, Len(ids) + 1>>, interval)

Remove(id) == QueueInLoop("remove", id, 0) /\ UNCHANGED set

\* Not under mutex_.
Exit ==
  /\ ~exit_ /\ exit_' = TRUE /\ notified' = (notified \/ pc = "wait")
  /\ UNCHANGED <<pc, queues, timeout, list, times, clock, set, early>>
-----------------------------------------------------------------------------
\* The thread of the loop.

Begin ==
  /\ pc = "begin" /\ pc' = "test" /\ exit_' = FALSE
  /\ UNCHANGED <<queues, timeout, notified, list, times, clock, set, early>>

Test ==
  /\ pc = "test" /\ pc' = IF exit_ THEN "ended" ELSE "lock"
  /\ timeout' = IF exit_ THEN 0 ELSE TimeoutMs(timers_, last_time_out_, now)
  /\ UNCHANGED <<exit_, queues, notified, list, times, clock, set, early>>

\* Under mutex_: the wait begins, unless there are functions to take.
Lock ==
  /\ pc = "lock" /\ notified' = FALSE
  /\ pc' = IF funcs_ = <<>> THEN "wait" ELSE "procs"
  /\ funcs' = funcs_ /\ funcs_' = <<>>
  /\ UNCHANGED <<exit_, done, timeout, list, times, clock, set, early>>

\* Faulty: the wait goes on until there are functions.
WakeForFuncs ==
  /\ pc = "wait" /\ funcs_ # <<>> /\ pc' = "procs" /\ notified' = FALSE
  /\ timeout' = 0 /\ funcs' = funcs_ /\ funcs_' = <<>>
  /\ UNCHANGED <<exit_, done, list, times, clock, set, early>>

\* Faulty: the functions are copied and not swapped.
WakeCopies ==
  /\ pc = "wait" /\ pc' = "procs" /\ notified' = FALSE /\ timeout' = 0
  /\ funcs' = funcs_
  /\ UNCHANGED <<exit_, done, funcs_, list, times, clock, set, early>>

\* The wait ends: by a notification, after the timeout, or for no reason.
Wake ==
  /\ pc = "wait" /\ pc' = "procs" /\ notified' = FALSE /\ timeout' = 0
  /\ funcs' = funcs_ /\ funcs_' = <<>>
  /\ UNCHANGED <<exit_, done, list, times, clock, set, early>>

\* RunTimerProcs before its loop: when the clock is behind the last time, the
\* timers are moved back with it.
Procs ==
  LET diff == IF now < last_time_out_ THEN last_time_out_ - now ELSE 0
  IN /\ pc = "procs" /\ pc' = IF timers_ = {} THEN "funcs" ELSE "fire"
     /\ IF timers_ = {} THEN UNCHANGED <<list, times>>
        ELSE /\ ms_now' = now /\ last_time_out_' = now
             /\ timers_' = MoveTimers(timers_, diff)
             /\ timer' = MoveObjects(timer, diff)
     /\ UNCHANGED <<exit_, queues, timeout, notified, clock, set, early>>

\* What a callback or a function does on the thread of the loop, where the
\* timers are timers and objects: nothing, set a timer, or remove one.
Callback(timers, objects) ==
  \/ timers_' = timers /\ timer' = objects /\ UNCHANGED set
  \/ \E d \in Delays :
       /\ NewTimer(d) /\ timers_' = Insert(timers, ids'[Len(ids')])
       /\ timer' = InsertObject(objects, ids'[Len(ids')], 0)
  \/ \E p \in DOMAIN ids :
       /\ timers_' = RemovePair(timers, objects, ids[p])
       /\ timer' = Erase(objects, p) /\ UNCHANGED set

Due(t) == t[1] <= ms_now

\* A round of the loop of RunTimerProcs.
Fire ==
  LET t == First(timers_)
      p == t[2]
      interval == timer[p].ms_interval
      next == <<ms_now + interval, p>>
  IN /\ pc = "fire" /\ timers_ # {} /\ Due(t)
     /\ IF interval > 0
        THEN Callback(Insert(timers_ \ {t}, next), InsertObject(timer, next, interval))
        ELSE Callback(timers_ \ {t}, Erase(timer, p))
     /\ early' = IF interval = 0 /\ left[p] > 0 THEN early \cup {p} ELSE early
     /\ UNCHANGED <<pc, exit_, queues, timeout, notified, times, clock>>

FireEnd ==
  /\ pc = "fire" /\ (timers_ # {} => ~Due(First(timers_))) /\ pc' = "funcs"
  /\ UNCHANGED <<exit_, queues, timeout, notified, list, times, clock,
                 set, early>>

\* The next of the functions that were taken.
RunFunc ==
  LET f == Head(funcs)
  IN /\ pc = "funcs" /\ funcs # <<>> /\ funcs' = Tail(funcs)
     /\ done' = Append(done, f.no)
     /\ \/ f.kind = "func" /\ Callback(timers_, timer)
        \/ /\ f.kind = "insert" /\ timers_' = Insert(timers_, f.id)
           /\ timer' = InsertObject(timer, f.id, f.interval) /\ UNCHANGED set
        \/ /\ f.kind = "remove" /\ timers_' = RemovePair(timers_, timer, f.id)
           /\ timer' = Erase(timer, f.id[2]) /\ UNCHANGED set
     /\ UNCHANGED <<pc, exit_, funcs_, timeout, notified, times, clock, early>>

\* Faulty: each round resets exit_.
FuncsEndResets ==
  /\ pc = "funcs" /\ funcs = <<>> /\ pc' = "test" /\ exit_' = FALSE
  /\ UNCHANGED <<queues, timeout, notified, list, times, clock, set, early>>

FuncsEnd ==
  /\ pc = "funcs" /\ funcs = <<>> /\ pc' = "test"
  /\ UNCHANGED <<exit_, queues, timeout, notified, list, times, clock,
                 set, early>>
-----------------------------------------------------------------------------
\* A millisecond passes.  The clock stops at its bound.
Elapse ==
  /\ now' = IF now < MaxNow THEN now + 1 ELSE now
  /\ timeout' = IF pc = "wait" /\ timeout > 0 THEN timeout - 1 ELSE timeout
  /\ left' = [p \in DOMAIN left |-> IF left[p] > 0 THEN left[p] - 1 ELSE 0]
  /\ UNCHANGED <<pc, exit_, queues, notified, list, times, backs, ids,
                 behind, early>>

SetBack(t) ==
  /\ backs < MaxBack /\ backs' = backs + 1 /\ now' = t
  /\ UNCHANGED <<pc, exit_, queues, timeout, notified, list, times, set, early>>

Step == Begin \/ Test \/ Lock \/ Procs \/ Fire \/ FireEnd \/ RunFunc \/ FuncsEnd

Next ==
  \/ Step \/ Wake \/ QueueFunc \/ Exit \/ Elapse
  \/ \E d \in Delays : RunTimer(d, 0)
  \/ \E d \in Intervals : RunTimer(d, d)
  \/ \E p \in DOMAIN ids : Remove(ids[p])
  \/ \E t \in 0 .. now - 1 : SetBack(t)

Spec == Init /\ [][Next]_vars

\* The thread runs, the time passes, and a wait ends that was notified or whose
\* time is over.
FairSpec ==
  /\ Spec /\ WF_vars(Step) /\ WF_vars(Elapse)
  /\ WF_vars((notified \/ timeout <= 0) /\ Wake)
-----------------------------------------------------------------------------
Func == [no : Nat, kind : {"func", "insert", "remove"}, id : Nat \X Nat,
         interval : Nat]

\* The variables have the values that their declarations describe; what is
\* waited for is never in the past.
TypeOK ==
  /\ pc \in {"begin", "test", "lock", "wait", "procs", "fire", "funcs", "ended"}
  /\ exit_ \in BOOLEAN /\ notified \in BOOLEAN
  /\ funcs_ \in Seq(Func) /\ funcs \in Seq(Func) /\ done \in Seq(Nat)
  /\ timeout \in Nat \cup {NoTimeout}
  /\ now \in Nat /\ backs \in Nat /\ last_time_out_ \in Nat /\ ms_now \in Nat
  /\ ids \in Seq(Nat \X Nat) /\ left \in Seq(Nat) /\ Len(left) = Len(ids)
  /\ behind \subseteq DOMAIN ids /\ early \subseteq DOMAIN ids

\* The two collections of TimerList agree: every pair in timers_ leads to a
\* Timer that was not deleted and has the time of the pair, and every Timer in
\* timer_ptrs_ has a pair.  So no deleted Timer is used, and one that is
\* removed does not fire, although its time may not be the one in its TimerId.
IndexAgrees == timers_ = {<<timer[p].ms_value, p>> : p \in DOMAIN timer}

\* A timer that does not repeat fires after its delay, also when the clock is
\* set back.  The exception is one that was set after the clock was set back
\* and before RunTimerProcs has seen that: it is moved back with the others.
NeverEarly == early \subseteq behind

\* The loop as a queue: what it has taken comes before what is queued.
Tasks == INSTANCE TaskQueue WITH
  Task <- 1 .. MaxFunc, ended <- (pc = "ended"),
  queue <- [i \in DOMAIN (funcs \o funcs_) |-> (funcs \o funcs_)[i].no]

\* The functions run one at a time, in the order in which QueueInLoop was
\* called, each once; and each of them runs, unless the loop ends.
FirstInFirstRun == Tasks!FairSpec

\* The loop ends after Exit, whatever it is doing, although Exit does not take
\* the lock and its notification may come before the wait.  (Loop resets exit_
\* when it begins, so an earlier Exit is lost.)
ExitEnds == (exit_ /\ pc # "begin") ~> (pc = "ended")

OneShot(p) == p \in DOMAIN timer /\ timer[p].ms_interval = 0

\* A timer that does not repeat fires or is removed, unless the loop ends,
\* whatever happens to the clock.
TimersFire == \A p \in 1 .. MaxTimer : OneShot(p) ~> (~OneShot(p) \/ pc = "ended")
=============================================================================
