----------------------------- MODULE TimerList -----------------------------
(***************************************************************************)
(* The timers of a RunLoop (saber/util/timerlist.cc), as functions of      *)
(* timers_, the set of pairs of a time and a pointer, and of the Timer     *)
(* objects that the pointers lead to.  A pointer is a natural number, and  *)
(* timer is a function from the pointers in timer_ptrs_ to the objects     *)
(* [ms_value, ms_interval]: timer_ptrs_ is its domain.  Times are in       *)
(* milliseconds of the system clock.                                       *)
(***************************************************************************)
EXTENDS HashMap, Integers

\* uint64_t -1 becomes -1 again as a std::chrono::milliseconds.
NoTimeout == -1

\* The order of std::set<TimerId>: by the time, then by the pointer.
Before(s, t) == s[1] < t[1] \/ (s[1] = t[1] /\ s[2] < t[2])
First(timers_) == CHOOSE t \in timers_ : \A u \in timers_ \ {t} : Before(t, u)

\* Faulty: a time that has passed already is not looked for.
TimeoutUnchecked(timers_, last_time_out_, now) ==
  IF timers_ = {} THEN NoTimeout ELSE First(timers_)[1] - now

TimeoutMs(timers_, last_time_out_, now) ==
  IF timers_ = {} THEN NoTimeout
  ELSE IF now < last_time_out_ \/ First(timers_)[1] <= now THEN 0
  ELSE First(timers_)[1] - now

\* Faulty: the timers are moved too far.
MovedByTwice(value, diff) == IF value > 2 * diff THEN value - 2 * diff ELSE 0

\* A time of a clock that has gone back by diff.
Moved(value, diff) == IF value > diff THEN value - diff ELSE 0

MoveTimers(timers_, diff) == {<<Moved(t[1], diff), t[2]>> : t \in timers_}
MoveObjects(timer, diff) ==
  [p \in DOMAIN timer |-> [timer[p] EXCEPT !.ms_value = Moved(@, diff)]]

\* A timer that is set or that repeats, in timers_ and as an object.
Insert(timers_, t) == timers_ \cup {t}
InsertObject(timer, t, interval) ==
  Put(timer, t[2], [ms_value |-> t[1], ms_interval |-> interval])

\* Faulty: the pair is looked for by the time that the caller was given.
RemovePairGiven(timers_, timer, id) == timers_ \ {id}

\* Remove: the pair is found by the time in the object, because the time that
\* the caller was given may have changed.
RemovePair(timers_, timer, id) ==
  IF id[2] \in DOMAIN timer
  THEN timers_ \ {<<timer[id[2]].ms_value, id[2]>>} ELSE timers_
=============================================================================
