------------------------------ MODULE SaberDB ------------------------------
(***************************************************************************)
(* The replicated database of one Paxos group: on every server a SaberDB   *)
(* (saber/server/saber_db.cc) with its DataTree and its SessionManager     *)
(* executes the values that Skywalker (external) has chosen, one instance  *)
(* after the other.  The server that serves a client first checks a write  *)
(* against its own tree (CheckCreate, CheckDelete, CheckSetData) and       *)
(* proposes it when the check succeeds.  Mastership moves freely between   *)
(* servers and nothing in a SaberDB depends on it, so any server may check *)
(* and propose at any time.                                                *)
(*                                                                         *)
(* One thread executes the log of a server; the checks run on the event    *)
(* loops.  Both take the tree's mutex for each operation, so a check may   *)
(* come between two deletions of a KillSession.                            *)
(***************************************************************************)
EXTENDS DataTree, SessionManager

CONSTANTS
  Server,        \* the replicas
  CreateArgs,    \* the [path, node_type, data] clients ask to create
  DeleteArgs,    \* the [path, version] clients ask to delete
  SetDataArgs,   \* the [path, data, version] clients ask to write
  MaxInstance,   \* bound on the length of the log
  MaxProposed,   \* bound on the proposals that are neither chosen nor lost
  CheckpointAt   \* the instances after which Skywalker asks for a checkpoint

ASSUME BoundsAssumption == MaxInstance \in Nat /\ MaxProposed \in Nat
ASSUME ArgsAssumption ==
  /\ \A x \in CreateArgs : x \in [path : Path, node_type : NodeType, data : Data]
  /\ \A x \in DeleteArgs : x \in [path : Path, version : Int]
  /\ \A x \in SetDataArgs : x \in [path : Path, data : Data, version : Int]

VARIABLES
  tree,       \* tree[s]: the DataTree of server s
  sessions,   \* sessions[s]: session id -> version, its SessionManager
  applied,    \* applied[s]: the last instance s has begun to execute
  closing,    \* closing[s]: what is left to do of an MT_CLOSE being executed
  snapshot,   \* snapshot[s]: the checkpoints queued to s's loop
  checkpoint, \* checkpoint[s]: the last finished checkpoint of s, on disk
  log,        \* the values chosen so far; the index is the instance id
  proposed,   \* proposals that may still be chosen
  refused     \* refused[s]: history; s refused to delete a childless node

vars == <<tree, sessions, applied, closing, snapshot, checkpoint, log,
          proposed, refused>>

(* proposed, log: external, how the code uses Skywalker's Propose.         *)

ConnectValue(sid, version) ==
  [type |-> "MT_CONNECT", session_id |-> sid, version |-> version]
CloseValue(list) == [type |-> "MT_CLOSE", list |-> list]
WriteValue(type, sid, args) ==
  [type |-> type, session_id |-> sid, args |-> args]

Idle(s) == closing[s].rest = << >> /\ closing[s].paths = {}
NotClosing == [rest |-> << >>, paths |-> {}]

\* A state of the database as a checkpoint records it.
NoCheckpoint ==
  [instance_id |-> 0, nodes |-> {}, sessions |-> EmptyMap, refused |-> FALSE]

-----------------------------------------------------------------------------
(* Checking and proposing, on the server the client is connected to.       *)

Propose(v) ==
  /\ Cardinality(proposed) < MaxProposed
  /\ proposed' = proposed \cup {v}

\* s has, or has had, an object of session sid.  A SaberSession proposes
\* without looking at the session table, so also when its session has been
\* closed there.
Served(s, sid) ==
  \E i \in 1 .. applied[s] :
    log[i].type = "MT_CONNECT" /\ log[i].session_id = sid

\* A refused write is answered without a proposal, but CheckCreate may
\* have changed the tree all the same.
ProposeCreate(s, sid, args) ==
  /\ Served(s, sid)
  /\ tree' = [tree EXCEPT ![s] = CheckCreate(@, args.path)]
  /\ IF CheckCreateCode(tree[s], args.path) = "RC_OK"
     THEN Propose(WriteValue("MT_CREATE", sid, args))
     ELSE UNCHANGED proposed
  /\ UNCHANGED <<sessions, applied, closing, snapshot, checkpoint, log, refused>>

ProposeDelete(s, sid, args) ==
  /\ Served(s, sid)
  /\ DeleteCode(tree[s], args.path, args.version) = "RC_OK"
  /\ Propose(WriteValue("MT_DELETE", sid, args))
  /\ UNCHANGED <<tree, sessions, applied, closing, snapshot, checkpoint, log,
                 refused>>

ProposeSetData(s, sid, args) ==
  /\ Served(s, sid)
  /\ SetDataCode(tree[s], args.path, args.version) = "RC_OK"
  /\ Propose(WriteValue("MT_SETDATA", sid, args))
  /\ UNCHANGED <<tree, sessions, applied, closing, snapshot, checkpoint, log,
                 refused>>

\* SaberServer::OnConnectRequest: a session that s knows is moved with the
\* version s knows; otherwise a new id is drawn and the version is 0.
Drawn(sid) ==
  \E v \in proposed \cup {log[i] : i \in 1 .. Len(log)} :
    v.type = "MT_CONNECT" /\ v.session_id = sid

ProposeConnect(s, sid) ==
  /\ sid \in DOMAIN sessions[s] \/ ~Drawn(sid)
  /\ Propose(ConnectValue(sid, IF sid \in DOMAIN sessions[s]
                               THEN sessions[s][sid] ELSE 0))
  /\ UNCHANGED <<tree, sessions, applied, closing, snapshot, checkpoint, log,
                 refused>>

\* The close lists of a client's close, of an expired Entry (one session)
\* and of CleanSessions (several), with the versions s knows.
CloseLists(s) ==
  LET live == {[session_id |-> sid, version |-> sessions[s][sid]] :
                 sid \in DOMAIN sessions[s]}
  IN  {l \in UNION {[1 .. n -> live] : n \in 1 .. Cardinality(live)} :
         \A i, j \in DOMAIN l : i # j => l[i] # l[j]}

ProposeClose(s, list) ==
  /\ list \in CloseLists(s)
  /\ Propose(CloseValue(list))
  /\ UNCHANGED <<tree, sessions, applied, closing, snapshot, checkpoint, log,
                 refused>>

\* External: Paxos chooses a proposal, or its Propose fails.
Choose(v) ==
  /\ v \in proposed
  /\ Len(log) < MaxInstance
  /\ log' = Append(log, v)
  /\ proposed' = proposed \ {v}
  /\ UNCHANGED <<tree, sessions, applied, closing, snapshot, checkpoint, refused>>

Lose(v) ==
  /\ v \in proposed
  /\ proposed' = proposed \ {v}
  /\ UNCHANGED <<tree, sessions, applied, closing, snapshot, checkpoint, log,
                 refused>>
-----------------------------------------------------------------------------
(* Execute, on the thread that applies the log.                            *)

NextValue(s) == log[applied[s] + 1]
Txn(s) == [instance_id |-> applied[s] + 1,
           session_id |-> NextValue(s).session_id]

Begin(s, type) ==
  /\ Idle(s)
  /\ applied[s] < Len(log)
  /\ NextValue(s).type = type
  /\ applied' = [applied EXCEPT ![s] = @ + 1]
  /\ UNCHANGED <<snapshot, checkpoint, log, proposed>>

ExecuteConnect(s) ==
  /\ Begin(s, "MT_CONNECT")
  /\ sessions' = [sessions EXCEPT ![s] =
        CreateSession(@, NextValue(s).session_id, applied[s] + 1,
                      NextValue(s).version)]
  /\ UNCHANGED <<tree, closing, refused>>

ExecuteCreate(s) ==
  /\ Begin(s, "MT_CREATE")
  /\ tree' = [tree EXCEPT ![s] = Create(@, NextValue(s).args, Txn(s))]
  /\ UNCHANGED <<sessions, closing, refused>>

ExecuteDelete(s) ==
  LET args == NextValue(s).args
  IN  /\ Begin(s, "MT_DELETE")
      /\ tree' = [tree EXCEPT ![s] = Delete(@, args, Txn(s))]
      /\ refused' = [refused EXCEPT ![s] = @ \/
            /\ DeleteCode(tree[s], args.path, args.version)
                 = "RC_CHILDREN_EXISTS"
            /\ SetAt(tree[s].childrens, args.path) = {}]
      /\ UNCHANGED <<sessions, closing>>

ExecuteSetData(s) ==
  /\ Begin(s, "MT_SETDATA")
  /\ tree' = [tree EXCEPT ![s] = SetData(@, NextValue(s).args, Txn(s))]
  /\ UNCHANGED <<sessions, closing, refused>>

ExecuteClose(s) ==
  /\ Begin(s, "MT_CLOSE")
  /\ closing' = [closing EXCEPT ![s].rest = NextValue(s).list]
  /\ UNCHANGED <<tree, sessions, refused>>

\* Faulty: KillSession whatever CloseSession returns.
CloseNextAnyway(s) ==
  LET sid == Head(closing[s].rest).session_id
      version == Head(closing[s].rest).version
  IN  /\ closing[s].rest # << >> /\ closing[s].paths = {}
      /\ sessions' = [sessions EXCEPT ![s] = CloseSession(@, sid, version)]
      /\ closing' = [closing EXCEPT ![s] =
            [rest |-> Tail(@.rest), paths |-> EphemeralPaths(tree[s], sid)]]
      /\ tree' = [tree EXCEPT ![s] = ForgetEphemerals(@, sid)]
      /\ UNCHANGED <<applied, snapshot, checkpoint, log, proposed, refused>>

\* The next session of the list: CloseSession, and if it succeeds the
\* beginning of KillSession.
CloseNext(s) ==
  LET sid == Head(closing[s].rest).session_id
      version == Head(closing[s].rest).version
      dead == CloseSessionOK(sessions[s], sid, version)
  IN  /\ closing[s].rest # << >> /\ closing[s].paths = {}
      /\ sessions' = [sessions EXCEPT ![s] = CloseSession(@, sid, version)]
      /\ closing' = [closing EXCEPT ![s] =
            [rest |-> Tail(@.rest),
             paths |-> IF dead THEN EphemeralPaths(tree[s], sid) ELSE {}]]
      /\ tree' = [tree EXCEPT ![s] =
            IF dead THEN ForgetEphemerals(@, sid) ELSE @]
      /\ UNCHANGED <<applied, snapshot, checkpoint, log, proposed, refused>>

\* One round of the loop in KillSession.
KillNext(s, p) ==
  /\ p \in closing[s].paths
  /\ tree' = [tree EXCEPT ![s] =
        Delete(@, KillRequest(p), [instance_id |-> applied[s]])]
  /\ closing' = [closing EXCEPT ![s].paths = @ \ {p}]
  /\ UNCHANGED <<sessions, applied, snapshot, checkpoint, log, proposed, refused>>

-----------------------------------------------------------------------------
(* Checkpoints, crashes and restarts.  A checkpoint is taken between two   *)
(* instances and written by the loop; it counts when both files are        *)
(* written, and is otherwise forgotten.  Skywalker (external) keeps one    *)
(* checkpoint in the making at a time, and on a restart loads the last     *)
(* finished one and executes the log from there.                           *)

\* Faulty: the checkpoint claims one instance too many.
MakeCheckpointNextInstance(s) ==
  /\ Idle(s)
  /\ snapshot[s] = NoCheckpoint
  /\ applied[s] \in CheckpointAt
  /\ applied[s] > checkpoint[s].instance_id
  /\ snapshot' = [snapshot EXCEPT ![s] =
        [instance_id |-> applied[s] + 1, nodes |-> GetDataNodeList(tree[s]),
         sessions |-> sessions[s], refused |-> refused[s]]]
  /\ UNCHANGED <<tree, sessions, applied, closing, checkpoint, log, proposed,
                 refused>>

MakeCheckpoint(s) ==
  /\ Idle(s)
  /\ snapshot[s] = NoCheckpoint
  /\ applied[s] \in CheckpointAt
  /\ applied[s] > checkpoint[s].instance_id
  /\ snapshot' = [snapshot EXCEPT ![s] =
        [instance_id |-> applied[s], nodes |-> GetDataNodeList(tree[s]),
         sessions |-> sessions[s], refused |-> refused[s]]]
  /\ UNCHANGED <<tree, sessions, applied, closing, checkpoint, log, proposed,
                 refused>>

WriteCheckpoint(s, success) ==
  /\ snapshot[s] # NoCheckpoint
  /\ checkpoint' = [checkpoint EXCEPT ![s] = IF success THEN snapshot[s] ELSE @]
  /\ snapshot' = [snapshot EXCEPT ![s] = NoCheckpoint]
  /\ UNCHANGED <<tree, sessions, applied, closing, log, proposed, refused>>

Restart(s) ==
  /\ tree' = [tree EXCEPT ![s] = Recover(EmptyTree, checkpoint[s].nodes)]
  /\ sessions' = [sessions EXCEPT ![s] = checkpoint[s].sessions]
  /\ applied' = [applied EXCEPT ![s] = checkpoint[s].instance_id]
  /\ closing' = [closing EXCEPT ![s] = NotClosing]
  /\ snapshot' = [snapshot EXCEPT ![s] = NoCheckpoint]
  /\ refused' = [refused EXCEPT ![s] = checkpoint[s].refused]
  /\ UNCHANGED <<checkpoint, log, proposed>>

-----------------------------------------------------------------------------
Init ==
  /\ tree = [s \in Server |-> EmptyTree]
  /\ sessions = [s \in Server |-> EmptyMap]
  /\ applied = [s \in Server |-> 0]
  /\ closing = [s \in Server |-> NotClosing]
  /\ snapshot = [s \in Server |-> NoCheckpoint]
  /\ checkpoint = [s \in Server |-> NoCheckpoint]
  /\ log = << >>
  /\ proposed = {}
  /\ refused = [s \in Server |-> FALSE]

ProposeStep(s) ==
  \/ \E sid \in SessionId :
       \/ \E args \in CreateArgs : ProposeCreate(s, sid, args)
       \/ \E args \in DeleteArgs : ProposeDelete(s, sid, args)
       \/ \E args \in SetDataArgs : ProposeSetData(s, sid, args)
       \/ ProposeConnect(s, sid)
  \/ \E list \in CloseLists(s) : ProposeClose(s, list)

ExecuteStep(s) ==
  \/ ExecuteConnect(s)
  \/ ExecuteCreate(s)
  \/ ExecuteDelete(s)
  \/ ExecuteSetData(s)
  \/ ExecuteClose(s)
  \/ CloseNext(s)
  \/ \E p \in closing[s].paths : KillNext(s, p)

CheckpointStep(s) ==
  \/ MakeCheckpoint(s)
  \/ \E success \in BOOLEAN : WriteCheckpoint(s, success)
  \/ Restart(s)

Next ==
  \/ \E s \in Server : ProposeStep(s) \/ ExecuteStep(s) \/ CheckpointStep(s)
  \/ \E v \in proposed : Choose(v) \/ Lose(v)

Spec == Init /\ [][Next]_vars
-----------------------------------------------------------------------------
(* Properties.                                                             *)

Fence == [session_id : SessionId, version : Nat]

Value ==
  [type : {"MT_CONNECT"}, session_id : SessionId, version : Nat]
    \cup [type : {"MT_CLOSE"},
          list : Seq(Fence)]
    \cup [type : {"MT_CREATE"}, session_id : SessionId, args : CreateArgs]
    \cup [type : {"MT_DELETE"}, session_id : SessionId, args : DeleteArgs]
    \cup [type : {"MT_SETDATA"}, session_id : SessionId, args : SetDataArgs]

IsCheckpoint(c, last) ==
  /\ c = [instance_id |-> c.instance_id, nodes |-> c.nodes,
          sessions |-> c.sessions, refused |-> c.refused]
  /\ c.instance_id \in 0 .. last
  /\ \A n \in c.nodes : n \in [path : Path, node : Node, children : SUBSET Name]
  /\ IsMap(c.sessions, SessionId, Nat)
  /\ c.refused \in BOOLEAN

\* Every variable has the type of the field it models.
TypeOK ==
  /\ DOMAIN tree = Server /\ DOMAIN sessions = Server
  /\ DOMAIN applied = Server /\ DOMAIN closing = Server
  /\ DOMAIN snapshot = Server /\ DOMAIN checkpoint = Server
  /\ DOMAIN refused = Server
  /\ \A s \in Server :
       /\ IsTree(tree[s])
       /\ IsMap(sessions[s], SessionId, Nat)
       /\ applied[s] \in 0 .. Len(log)
       /\ closing[s] \in [rest : Seq(Fence), paths : SUBSET Path]
       /\ IsCheckpoint(snapshot[s], Len(log))
       /\ IsCheckpoint(checkpoint[s], Len(log))
       /\ refused[s] \in BOOLEAN
  /\ log \in Seq(Value)
  /\ proposed \subseteq Value

\* On every replica, at every moment, also between two deletions of a
\* KillSession and after a recovery from a checkpoint, nodes_, childrens_
\* and ephemerals_ describe the same tree: parents and children are linked
\* both ways, only leaves are ephemeral, ephemerals_ indexes them by owner,
\* children_num counts, and the sequence numbers given out are used up.
TreesWellFormed ==
  \A s \in Server : WellFormed(tree[s], closing[s].paths)

\* KillSession never gets a code other than RC_OK from Delete: the warning
\* "Ignoring not RC_OK for path ..." (data_tree.cc:354) is never logged,
\* whatever checks run between its deletions.
KillNeverRefused ==
  \A s \in Server : \A p \in closing[s].paths :
    DeleteAnswer(tree[s], p, -1) = "RC_OK"

\* A node is deleted for its session only while that session has no entry
\* in the session table: the close of an earlier version of a session that
\* has moved to another connection removes nothing.
KilledOnlyWhenDead ==
  \A s \in Server : \A p \in closing[s].paths :
    tree[s].nodes[p].ephemeral_id \notin DOMAIN sessions[s]

\* When an MT_CLOSE has been executed, the sessions it ended own no node.
CloseLeavesNothing ==
  \A s \in Server : Idle(s) /\ applied[s] > 0 =>
    LET v == log[applied[s]]
    IN  v.type = "MT_CLOSE" =>
          \A i \in DOMAIN v.list :
            v.list[i].session_id \notin DOMAIN sessions[s] =>
              \A p \in DOMAIN tree[s].nodes :
                tree[s].nodes[p].ephemeral_id # v.list[i].session_id

\* Instance i is a connect or a close of session sid with this version.
Carries(i, sid, version) ==
  \/ /\ log[i].type = "MT_CONNECT"
     /\ log[i].session_id = sid /\ log[i].version = version
  \/ /\ log[i].type = "MT_CLOSE"
     /\ \E j \in DOMAIN log[i].list :
          log[i].list[j] = [session_id |-> sid, version |-> version]

\* Of the connects and closes of a session that race with the same version
\* only the first takes effect: the version of a session is the instance of
\* its last connect, nothing executed since then carries that version, and
\* nothing executed before that connect carried the version it replaced.
SessionsFenced ==
  \A s \in Server : \A sid \in DOMAIN sessions[s] :
    LET v == sessions[s][sid]
    IN  /\ v \in 1 .. applied[s]
        /\ log[v].type = "MT_CONNECT" /\ log[v].session_id = sid
        /\ \A i \in v + 1 .. applied[s] :
             i < applied[s] \/ Idle(s) => ~Carries(i, sid, v)
        /\ \A i \in 1 .. v - 1 : ~Carries(i, sid, log[v].version)

SameTree(t, u) ==
  /\ t.nodes = u.nodes
  /\ t.ephemerals = u.ephemerals
  /\ \A p \in DOMAIN t.nodes : SetAt(t.childrens, p) = SetAt(u.childrens, p)

SamePosition(s, r) == Idle(s) /\ Idle(r) /\ applied[s] = applied[r]

\* Two replicas that have executed the same prefix of the log, directly or
\* from a checkpoint, have the same nodes, children, ephemerals and
\* sessions, unless one of them refused to delete a node that had no
\* children because a check had left an empty entry in childrens_: that is
\* the only way in which replicas can part.
AgreeUnlessRefused ==
  \A s, r \in Server : SamePosition(s, r) =>
    /\ sessions[s] = sessions[r]
    /\ ~refused[s] /\ ~refused[r] => SameTree(tree[s], tree[r])

\* README.md:1 calls Saber strongly consistent: replicas that have executed
\* the same prefix of the log have the same tree.
ReplicasAgree ==
  \A s, r \in Server : SamePosition(s, r) => SameTree(tree[s], tree[r])

\* The name that Create makes under a sequential parent is new.
SequentialNamesFresh ==
  \A s \in Server : \A a \in CreateArgs :
    LET t == tree[s]
    IN  ParentCode(t, a.path) = "RC_OK"
          /\ IsSequential(t.nodes[Parent(a.path)].type)
        => CreateCode(t, a.path) = "RC_OK"
=============================================================================
