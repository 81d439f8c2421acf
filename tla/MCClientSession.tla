-------------------------- MODULE MCClientSession --------------------------
(***************************************************************************)
(* ClientSession for TLC: the bounds are in MCClientSession.cfg.           *)
(***************************************************************************)
EXTENDS ClientSession

=============================================================================
