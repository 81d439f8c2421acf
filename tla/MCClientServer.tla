--------------------------- MODULE MCClientServer ---------------------------
(***************************************************************************)
(* ClientServer for TLC: what the client issues.  The other bounds are in  *)
(* the .cfg files.                                                         *)
(***************************************************************************)
EXTENDS ClientServer

W == "MT_CREATE"
R == "MT_GETDATA"

Plan(requests, pings, faults) ==
  [requests |-> requests, pings |-> pings, faults |-> faults]

\* The connection stays, but for a client that closes and connects again.
Steady == {Plan(<<W, R, W>>, 1, {"refuse", "propose_fails"}),
           Plan(<<R, W, W>>, 0, {"refuse", "propose_fails"}),
           Plan(<<W>>, 0, {"close"})}

\* Connections break, and the mastership is lost.
Breaking == {Plan(<<W>>, 1, {"break"}), Plan(<<W>>, 0, {"lose_master"}),
             Plan(<<>>, 0, {"break", "lose_master"})}

SteadyAndBreaking == Steady \cup Breaking

TwoWrites == {Plan(<<W, W>>, 0, {"break"})}

OneWrite == {Plan(<<W>>, 0, {"break"})}

=============================================================================
