------------------------------- MODULE MCTime -------------------------------
(***************************************************************************)
(* The two parts that go by the time for TLC: the loop of RunLoop and the  *)
(* bucket circle of SessionBuckets.  They have no state in common and none *)
(* calls the other, so one of them runs and the other rests.               *)
(***************************************************************************)
EXTENDS RunLoop, SessionBuckets

CONSTANTS c1

VARIABLE part  \* the one that runs

timeVars == <<vars, bucketVars, part>>

TimeInit == Init /\ BucketsInit /\ part \in {"loop", "buckets"}

TimeNext ==
  \/ part = "loop" /\ Next /\ UNCHANGED <<bucketVars, part>>
  \/ part = "buckets" /\ BucketsNext /\ UNCHANGED <<vars, part>>

\* With the fairness of RunLoop for the loop, if that is what runs.
TimeSpec ==
  /\ TimeInit /\ [][TimeNext]_timeVars
  /\ WF_vars(part = "loop" /\ Step) /\ WF_vars(part = "loop" /\ Elapse)
  /\ WF_vars(part = "loop" /\ (notified \/ timeout <= 0) /\ Wake)
=============================================================================
