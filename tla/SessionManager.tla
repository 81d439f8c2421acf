--------------------------- MODULE SessionManager ---------------------------
(***************************************************************************)
(* The session table of a replica (saber/server/session_manager.cc): a map *)
(* from a session id to the version of the session, which is the instance  *)
(* of its last connect.  A connect with version 0 asks for a new session;  *)
(* otherwise it and a close count only if they carry the current version.  *)
(***************************************************************************)
EXTENDS HashMap, Integers

\* Faulty: the version is not compared.
CreateSessionAnyVersion(m, sid, old_version) ==
  old_version # 0 => sid \in DOMAIN m

CreateSessionOK(m, sid, old_version) ==
  old_version # 0 => (sid \in DOMAIN m /\ m[sid] = old_version)

\* Faulty: the two versions are mixed up, so that a new session gets version 0.
CreateSessionOldVersion(m, sid, new_version, old_version) ==
  IF CreateSessionOK(m, sid, old_version) THEN Put(m, sid, old_version) ELSE m

CreateSession(m, sid, new_version, old_version) ==
  IF CreateSessionOK(m, sid, old_version) THEN Put(m, sid, new_version) ELSE m

CloseSessionOK(m, sid, version) == sid \in DOMAIN m => m[sid] = version

CloseSession(m, sid, version) ==
  IF CloseSessionOK(m, sid, version) THEN Erase(m, sid) ELSE m
=============================================================================
