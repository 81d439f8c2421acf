----------------------------- MODULE TaskQueue -----------------------------
(***************************************************************************)
(* What a RunLoop promises to those who queue functions: the functions run *)
(* one at a time, in the order in which they were queued, each once, and   *)
(* every one of them runs unless the loop ends.                            *)
(***************************************************************************)
EXTENDS Sequences, Naturals

CONSTANT Task

VARIABLES queue, done, ended

vars == <<queue, done, ended>>

Init == queue = <<>> /\ done = <<>> /\ ended = FALSE

Submit(x) == queue' = Append(queue, x) /\ UNCHANGED <<done, ended>>

Run == /\ ~ended /\ queue # <<>>
       /\ done' = Append(done, Head(queue)) /\ queue' = Tail(queue)
       /\ UNCHANGED ended

End == ~ended /\ ended' = TRUE /\ UNCHANGED <<queue, done>>

Next == (\E x \in Task : Submit(x)) \/ Run \/ End

Spec == Init /\ [][Next]_vars
FairSpec == Spec /\ WF_vars(Run)
=============================================================================
