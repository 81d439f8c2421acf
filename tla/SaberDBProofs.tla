--------------------------- MODULE SaberDBProofs ---------------------------
(***************************************************************************)
(* What holds of a group of any number of replicas, for every set of       *)
(* sessions, names, data and requests and for every bound.  The inductive  *)
(* invariant IInv says of each replica that its tree is well formed but    *)
(* for the paths a KillSession has still to delete, that those are         *)
(* ephemeral nodes of a session that is gone, and that a restart would     *)
(* find a well-formed tree in either checkpoint.                           *)
(*                                                                         *)
(* The second invariant, HInv, says that there is a history: the nodes and *)
(* the sessions that the log alone determines after each instance.  Every  *)
(* replica, and every checkpoint, follows it, and the versions in the log  *)
(* and in the proposals are those of earlier connects.                     *)
(***************************************************************************)
EXTENDS SaberDB, DataTreeProofs

\* A checkpoint from which a well-formed tree is recovered.
Restorable(c) ==
  /\ IsTree(Recover(EmptyTree, c.nodes))
  /\ WellFormed(Recover(EmptyTree, c.nodes), {})

\* What remains to be killed is in the tree, ephemeral, and its owner dead.
Killable(t, m, paths) ==
  \A p \in paths :
    /\ p \in DOMAIN t.nodes
    /\ IsEphemeral(t.nodes[p].type)
    /\ t.nodes[p].ephemeral_id \notin DOMAIN m

\* The state of one replica, n being the length of the log.
Replica(t, m, a, c, sn, ck, rf, n) ==
  /\ IsTree(t)
  /\ IsMap(m, SessionId, Nat)
  /\ a \in 0 .. n
  /\ c \in [rest : Seq(Fence), paths : SUBSET Path]
  /\ IsCheckpoint(sn, n)
  /\ IsCheckpoint(ck, n)
  /\ rf \in BOOLEAN
  /\ WellFormed(t, c.paths)
  /\ Killable(t, m, c.paths)
  /\ Restorable(sn)
  /\ Restorable(ck)

IInv ==
  /\ DOMAIN tree = Server /\ DOMAIN sessions = Server
  /\ DOMAIN applied = Server /\ DOMAIN closing = Server
  /\ DOMAIN snapshot = Server /\ DOMAIN checkpoint = Server
  /\ DOMAIN refused = Server
  /\ \A s \in Server : Replica(tree[s], sessions[s], applied[s], closing[s],
                               snapshot[s], checkpoint[s], refused[s], Len(log))
  /\ log \in Seq(Value)
  /\ proposed \subseteq Value

\* What a chosen value of each type carries.
LEMMA ValueOK ==
  ASSUME NEW v \in Value
  PROVE  /\ v.type = "MT_CONNECT" => v.session_id \in SessionId /\ v.version \in Nat
         /\ v.type = "MT_CLOSE" => v.list \in Seq(Fence)
         /\ v.type = "MT_CREATE" => v.session_id \in SessionId /\ v.args \in CreateArgs
         /\ v.type = "MT_DELETE" => v.session_id \in SessionId /\ v.args \in DeleteArgs
         /\ v.type = "MT_SETDATA" => v.session_id \in SessionId /\ v.args \in SetDataArgs
BY Zenon DEF Value

\* Before the first checkpoint a restart finds nothing to load and starts from
\* the tree of a new process.
LEMMA NoCheckpointOK == Restorable(NoCheckpoint)
<1>1. Recover(EmptyTree, {}) = EmptyTree
  BY Zenon DEF Recover, EmptyTree, EmptyMap, SetAt
<1> QED BY <1>1, EmptyTreeOK, Zenon DEF Restorable, NoCheckpoint

\* A group starts with empty trees, no sessions and an empty log.
LEMMA InitOK == Init => IInv
<1> SUFFICES ASSUME Init PROVE IInv
  BY Zenon
<1>1. /\ IsMap(EmptyMap, SessionId, Nat)
      /\ NotClosing \in [rest : Seq(Fence), paths : SUBSET Path]
      /\ NotClosing.paths = {}
  BY DEF IsMap, EmptyMap, NotClosing
<1>2. IsCheckpoint(NoCheckpoint, 0)
  BY <1>1 DEF IsCheckpoint, NoCheckpoint
<1>3. Replica(EmptyTree, EmptyMap, 0, NotClosing, NoCheckpoint, NoCheckpoint,
              FALSE, 0)
  BY <1>1, <1>2, EmptyTreeOK, NoCheckpointOK DEF Replica, Killable
<1>4. Len(log) = 0 /\ log \in Seq(Value) /\ proposed \subseteq Value
  BY DEF Init
<1>5. \A s \in Server :
        Replica(tree[s], sessions[s], applied[s], closing[s],
                snapshot[s], checkpoint[s], refused[s], Len(log))
  BY <1>3, <1>4, Zenon DEF Init
<1> QED BY <1>4, <1>5, Zenon DEF Init, IInv

\* A longer log leaves every replica as it was.
LEMMA ReplicaGrows ==
  ASSUME NEW t, NEW m, NEW a, NEW c, NEW sn, NEW ck, NEW rf,
         NEW n \in Nat, NEW k \in Nat, n <= k,
         Replica(t, m, a, c, sn, ck, rf, n)
  PROVE  Replica(t, m, a, c, sn, ck, rf, k)
BY DEF Replica, IsCheckpoint

\* A step of server s: the other replicas, and the domains, are unchanged.
OthersUnchanged(s) ==
  /\ DOMAIN tree' = DOMAIN tree /\ DOMAIN sessions' = DOMAIN sessions
  /\ DOMAIN applied' = DOMAIN applied /\ DOMAIN closing' = DOMAIN closing
  /\ DOMAIN snapshot' = DOMAIN snapshot
  /\ DOMAIN checkpoint' = DOMAIN checkpoint
  /\ DOMAIN refused' = DOMAIN refused
  /\ \A r \in Server \ {s} :
       /\ tree'[r] = tree[r] /\ sessions'[r] = sessions[r]
       /\ applied'[r] = applied[r] /\ closing'[r] = closing[r]
       /\ snapshot'[r] = snapshot[r] /\ checkpoint'[r] = checkpoint[r]
       /\ refused'[r] = refused[r]

\* A step of one server keeps the invariant if it keeps it for that server.
LEMMA StepOK ==
  ASSUME IInv, NEW s \in Server, OthersUnchanged(s),
         Replica(tree'[s], sessions'[s], applied'[s], closing'[s],
                 snapshot'[s], checkpoint'[s], refused'[s], Len(log)),
         log' = log, proposed' \subseteq Value
  PROVE  IInv'
<1>1. ASSUME NEW r \in Server
      PROVE  Replica(tree'[r], sessions'[r], applied'[r], closing'[r],
                     snapshot'[r], checkpoint'[r], refused'[r], Len(log'))
  <2>1. CASE r = s
    BY <2>1, Zenon
  <2>2. CASE r # s
    BY <2>2, Zenon DEF OthersUnchanged, IInv
  <2> QED BY <2>1, <2>2, Zenon
<1> QED BY <1>1, Zenon DEF IInv, OthersUnchanged

\* CheckCreate, which may change the tree of the server it runs on.
LEMMA ProposeCreateOK ==
  ASSUME IInv, NEW s \in Server, NEW sid \in SessionId,
         NEW args \in CreateArgs, ProposeCreate(s, sid, args)
  PROVE  IInv'
<1> DEFINE u == CheckCreate(tree[s], args.path)
<1>1. Replica(tree[s], sessions[s], applied[s], closing[s],
              snapshot[s], checkpoint[s], refused[s], Len(log))
  BY Zenon DEF IInv
<1>2. args.path \in Path
  BY ArgsAssumption, Zenon
<1>3. IsTree(u) /\ WellFormed(u, closing[s].paths)
  BY <1>1, <1>2, CheckCreateOK, Zenon DEF Replica
<1>4. u.nodes = tree[s].nodes
  BY <1>1, Zenon DEF Replica, IsTree, CheckCreate
<1>5. Replica(u, sessions[s], applied[s], closing[s],
              snapshot[s], checkpoint[s], refused[s], Len(log))
  <2> HIDE DEF u
  <2> QED BY <1>1, <1>3, <1>4, Zenon DEF Replica, Killable
<1>6. proposed' \subseteq Value
  <2>1. WriteValue("MT_CREATE", sid, args) \in Value
    BY Zenon DEF WriteValue, Value
  <2> QED BY <2>1, Zenon DEF ProposeCreate, Propose, IInv
<1>7. OthersUnchanged(s) /\ tree'[s] = u
  BY Zenon DEF ProposeCreate, OthersUnchanged, IInv
<1> HIDE DEF u
<1> QED BY <1>5, <1>6, <1>7, StepOK, Zenon DEF ProposeCreate

\* The other checks, connects and closes, which change no replica.
LEMMA ProposeOK ==
  ASSUME IInv, NEW s \in Server,
         \/ \E sid \in SessionId :
              \/ \E args \in DeleteArgs : ProposeDelete(s, sid, args)
              \/ \E args \in SetDataArgs : ProposeSetData(s, sid, args)
              \/ ProposeConnect(s, sid)
         \/ \E list \in CloseLists(s) : ProposeClose(s, list)
  PROVE  IInv'
<1>1. IsMap(sessions[s], SessionId, Nat)
  BY Zenon DEF IInv, Replica
<1>2. \E v \in Value : Propose(v)
  <2>1. ASSUME NEW sid \in SessionId
        PROVE  /\ \A args \in DeleteArgs :
                    WriteValue("MT_DELETE", sid, args) \in Value
               /\ \A args \in SetDataArgs :
                    WriteValue("MT_SETDATA", sid, args) \in Value
               /\ \A n \in Nat : ConnectValue(sid, n) \in Value
    BY Zenon DEF WriteValue, ConnectValue, Value
  <2>2. \A sid \in DOMAIN sessions[s] : sessions[s][sid] \in Nat
    BY <1>1, Zenon DEF IsMap
  <2>3. \A list \in CloseLists(s) : CloseValue(list) \in Value
    <3> SUFFICES ASSUME NEW list \in CloseLists(s)
                 PROVE  CloseValue(list) \in Value
      BY Zenon
    <3> DEFINE live == {[session_id |-> sid, version |-> sessions[s][sid]] :
                          sid \in DOMAIN sessions[s]}
    <3>1. live \subseteq Fence
      BY <1>1 DEF IsMap, Fence
    <3>2. PICK n \in 1 .. Cardinality(live) : list \in [1 .. n -> live]
      BY Zenon DEF CloseLists
    <3> HIDE DEF live
    <3>3. list \in Seq(Fence)
      BY <3>1, <3>2
    <3> QED BY <3>3, Zenon DEF CloseValue, Value
  <2> QED
    BY <2>1, <2>2, <2>3, Zenon DEF ProposeDelete, ProposeSetData, ProposeConnect,
                            ProposeClose
<1>3. proposed' \subseteq Value
  BY <1>2, Zenon DEF Propose, IInv
<1>4. UNCHANGED <<tree, sessions, applied, closing, snapshot, checkpoint, log,
                  refused>>
  BY Zenon DEF ProposeDelete, ProposeSetData, ProposeConnect, ProposeClose
<1> QED BY <1>3, <1>4, Zenon DEF IInv

\* A proposal is chosen, or lost.
LEMMA ChooseOK ==
  ASSUME IInv, NEW v \in proposed, Choose(v) \/ Lose(v)
  PROVE  IInv'
<1>1. CASE Lose(v)
  BY <1>1, Zenon DEF Lose, IInv
<1>2. CASE Choose(v)
  <2>1. v \in Value /\ proposed' \subseteq Value
    BY <1>2, Zenon DEF Choose, IInv
  <2>2. /\ log' \in Seq(Value) /\ Len(log') = Len(log) + 1 /\ Len(log) \in Nat
    BY <1>2, <2>1 DEF Choose, IInv
  <2>3. UNCHANGED <<tree, sessions, applied, closing, snapshot, checkpoint,
                    refused>>
    BY <1>2, Zenon DEF Choose
  <2>4. \A s \in Server :
          Replica(tree[s], sessions[s], applied[s], closing[s],
                  snapshot[s], checkpoint[s], refused[s], Len(log'))
    BY <2>2, ReplicaGrows DEF IInv
  <2> QED BY <2>1, <2>2, <2>3, <2>4, Zenon DEF IInv
<1> QED BY <1>1, <1>2, Zenon

\* What SaberDB::Execute finds when it starts on the next chosen value.
LEMMA BeginOK ==
  ASSUME IInv, NEW s \in Server, NEW type, Begin(s, type)
  PROVE  /\ Replica(tree[s], sessions[s], applied[s], closing[s],
                    snapshot[s], checkpoint[s], refused[s], Len(log))
         /\ closing[s].paths = {}
         /\ applied[s] + 1 \in 1 .. Len(log)
         /\ applied'[s] = applied[s] + 1
         /\ NextValue(s) \in Value /\ NextValue(s).type = type
         /\ log' = log /\ proposed' \subseteq Value
         /\ snapshot' = snapshot /\ checkpoint' = checkpoint
         /\ DOMAIN applied' = DOMAIN applied
         /\ \A r \in Server \ {s} : applied'[r] = applied[r]
<1>1. Replica(tree[s], sessions[s], applied[s], closing[s],
              snapshot[s], checkpoint[s], refused[s], Len(log))
  BY Zenon DEF IInv
<1>2. applied[s] \in 0 .. Len(log) /\ applied[s] < Len(log)
  BY <1>1, Zenon DEF Replica, Begin
<1>3. log \in Seq(Value) /\ Len(log) \in Nat
  BY DEF IInv
<1>4. NextValue(s) \in Value
  BY <1>2, <1>3 DEF NextValue
<1> QED BY <1>1, <1>2, <1>3, <1>4 DEF Begin, Idle, IInv

\* Execute of an MT_CONNECT.
LEMMA ExecuteConnectOK ==
  ASSUME IInv, NEW s \in Server, ExecuteConnect(s)
  PROVE  IInv'
<1> DEFINE v == NextValue(s)
           m == CreateSession(sessions[s], v.session_id, applied[s] + 1,
                              v.version)
<1>1. Begin(s, "MT_CONNECT")
  BY Zenon DEF ExecuteConnect
<1>2. v.session_id \in SessionId
  BY <1>1, BeginOK, ValueOK, Zenon
<1>3. IsMap(m, SessionId, Nat)
  <2>1. IsMap(sessions[s], SessionId, Nat) /\ applied[s] + 1 \in Nat
    BY <1>1, BeginOK DEF Replica
  <2>2. IsMap(Put(sessions[s], v.session_id, applied[s] + 1), SessionId, Nat)
    BY <1>2, <2>1, PutMap, Zenon
  <2> QED BY <2>1, <2>2, Zenon DEF CreateSession
<1>4. Replica(tree[s], m, applied[s] + 1, closing[s], snapshot[s],
              checkpoint[s], refused[s], Len(log))
  <2> HIDE DEF m
  <2> QED BY <1>1, <1>3, BeginOK DEF Replica, Killable
<1>5. /\ OthersUnchanged(s) /\ sessions'[s] = m
      /\ tree' = tree /\ closing' = closing /\ refused' = refused
  BY <1>1, BeginOK, Zenon DEF ExecuteConnect, OthersUnchanged, IInv
<1> HIDE DEF m
<1> QED BY <1>1, <1>4, <1>5, BeginOK, StepOK, Zenon

\* Execute of an MT_CREATE, MT_DELETE or MT_SETDATA.
LEMMA ExecuteWriteOK ==
  ASSUME IInv, NEW s \in Server,
         ExecuteCreate(s) \/ ExecuteDelete(s) \/ ExecuteSetData(s)
  PROVE  IInv'
<1> DEFINE args == NextValue(s).args
<1>1. PICK type : Begin(s, type)
  BY Zenon DEF ExecuteCreate, ExecuteDelete, ExecuteSetData
<1>2. /\ IsTree(tree[s]) /\ WellFormed(tree[s], {})
      /\ refused[s] \in BOOLEAN
  BY <1>1, BeginOK, Zenon DEF Replica
<1>3. Txn(s).instance_id \in Nat
  BY <1>1, BeginOK DEF Txn
<1>4. IsTree(tree'[s]) /\ WellFormed(tree'[s], {}) /\ refused'[s] \in BOOLEAN
  <2>1. CASE ExecuteCreate(s)
    <3>1. NextValue(s) \in Value /\ NextValue(s).type = "MT_CREATE"
      BY <2>1, BeginOK, Zenon DEF ExecuteCreate
    <3>2. /\ args.path \in Path /\ args.node_type \in NodeType
          /\ args.data \in Data /\ Txn(s).session_id \in SessionId
      BY <3>1, ValueOK, ArgsAssumption, Zenon DEF Txn
    <3>3. tree'[s] = Create(tree[s], args, Txn(s)) /\ refused' = refused
      BY <2>1, Zenon DEF ExecuteCreate, IInv
    <3> QED BY <1>2, <1>3, <3>2, <3>3, CreateOK, Zenon
  <2>2. CASE ExecuteDelete(s)
    <3>1. NextValue(s) \in Value /\ NextValue(s).type = "MT_DELETE"
      BY <2>2, BeginOK, Zenon DEF ExecuteDelete
    <3>2. args.path \in Path
      BY <3>1, ValueOK, ArgsAssumption, Zenon
    <3>3. /\ tree'[s] = Delete(tree[s], args, Txn(s))
          /\ refused'[s] \in BOOLEAN
      BY <1>2, <2>2, Zenon DEF ExecuteDelete, IInv
    <3>4. /\ IsTree(Delete(tree[s], args, Txn(s)))
          /\ WellFormed(Delete(tree[s], args, Txn(s)), {} \ {args.path})
      BY <1>2, <1>3, <3>2, DeleteOK, Zenon
    <3>5. {} \ {args.path} = {}
      BY Zenon
    <3> QED BY <3>3, <3>4, <3>5, Zenon
  <2>3. CASE ExecuteSetData(s)
    <3>1. NextValue(s) \in Value /\ NextValue(s).type = "MT_SETDATA"
      BY <2>3, BeginOK, Zenon DEF ExecuteSetData
    <3>2. args.path \in Path /\ args.data \in Data
      BY <3>1, ValueOK, ArgsAssumption, Zenon
    <3>3. tree'[s] = SetData(tree[s], args, Txn(s)) /\ refused' = refused
      BY <2>3, Zenon DEF ExecuteSetData, IInv
    <3> QED BY <1>2, <1>3, <3>2, <3>3, SetDataOK, Zenon
  <2> QED BY <2>1, <2>2, <2>3, Zenon
<1>5. sessions' = sessions /\ closing' = closing /\ OthersUnchanged(s)
  BY <1>1, BeginOK DEF ExecuteCreate, ExecuteDelete, ExecuteSetData,
                       OthersUnchanged, IInv
<1>6. Replica(tree'[s], sessions[s], applied[s] + 1, closing[s], snapshot[s],
              checkpoint[s], refused'[s], Len(log))
  <2>1. /\ Replica(tree[s], sessions[s], applied[s], closing[s], snapshot[s],
                   checkpoint[s], refused[s], Len(log))
        /\ closing[s].paths = {}
        /\ applied[s] + 1 \in 0 .. Len(log)
    BY <1>1, BeginOK
  <2> QED BY <1>4, <2>1, Zenon DEF Replica, Killable
<1> QED BY <1>1, <1>5, <1>6, BeginOK, StepOK, Zenon

\* Execute of an MT_CLOSE begins.
LEMMA ExecuteCloseOK ==
  ASSUME IInv, NEW s \in Server, ExecuteClose(s)
  PROVE  IInv'
<1>1. Begin(s, "MT_CLOSE")
  BY Zenon DEF ExecuteClose
<1>2. NextValue(s).list \in Seq(Fence)
  BY <1>1, BeginOK, ValueOK, Zenon
<1>3. /\ closing'[s] \in [rest : Seq(Fence), paths : SUBSET Path]
      /\ closing'[s].paths = closing[s].paths
  BY <1>1, <1>2, BeginOK DEF ExecuteClose, Replica, IInv
<1>4. /\ tree' = tree /\ sessions' = sessions /\ refused' = refused
      /\ OthersUnchanged(s)
  BY <1>1, BeginOK, Zenon DEF ExecuteClose, OthersUnchanged, IInv
<1>5. Replica(tree[s], sessions[s], applied[s] + 1, closing'[s], snapshot[s],
              checkpoint[s], refused[s], Len(log))
  BY <1>1, <1>3, BeginOK DEF Replica
<1> QED BY <1>1, <1>4, <1>5, BeginOK, StepOK, Zenon

\* CloseSession of the next session of the list, and the first half of its
\* KillSession.
LEMMA CloseNextOK ==
  ASSUME IInv, NEW s \in Server, CloseNext(s)
  PROVE  IInv'
<1> DEFINE f == Head(closing[s].rest)
           dead == CloseSessionOK(sessions[s], f.session_id, f.version)
           m == CloseSession(sessions[s], f.session_id, f.version)
           paths == IF dead THEN EphemeralPaths(tree[s], f.session_id) ELSE {}
           u == IF dead THEN ForgetEphemerals(tree[s], f.session_id)
                ELSE tree[s]
           c == [rest |-> Tail(closing[s].rest), paths |-> paths]
<1>1. /\ Replica(tree[s], sessions[s], applied[s], closing[s],
                 snapshot[s], checkpoint[s], refused[s], Len(log))
      /\ closing[s].rest # << >> /\ closing[s].paths = {}
  BY Zenon DEF IInv, CloseNext
<1>2. /\ closing[s].rest \in Seq(Fence) /\ Tail(closing[s].rest) \in Seq(Fence)
      /\ f \in Fence
  BY <1>1 DEF Replica
<1>3. IsMap(m, SessionId, Nat) /\ (dead => f.session_id \notin DOMAIN m)
  <2>1. IsMap(sessions[s], SessionId, Nat)
    BY <1>1, Zenon DEF Replica
  <2>2. IsMap(Erase(sessions[s], f.session_id), SessionId, Nat)
    BY <2>1, EraseMap, Zenon
  <2> QED BY <2>1, <2>2, Zenon DEF CloseSession, Erase
<1>4. IsTree(u) /\ WellFormed(u, paths) /\ u.nodes = tree[s].nodes
  <2>1. IsTree(tree[s]) /\ WellFormed(tree[s], {})
    BY <1>1, Zenon DEF Replica
  <2>2. /\ IsTree(ForgetEphemerals(tree[s], f.session_id))
        /\ WellFormed(ForgetEphemerals(tree[s], f.session_id),
                      EphemeralPaths(tree[s], f.session_id))
    BY <2>1, ForgetOK, Zenon
  <2>3. ForgetEphemerals(tree[s], f.session_id).nodes = tree[s].nodes
    BY <2>1, Zenon DEF ForgetEphemerals, IsTree
  <2>4. CASE dead
    BY <2>2, <2>3, <2>4, Zenon
  <2>5. CASE ~dead
    BY <2>1, <2>5, Zenon
  <2> QED BY <2>4, <2>5, Zenon
<1>5. /\ paths \subseteq Path
      /\ \A p \in paths : /\ dead
                          /\ p \in DOMAIN tree[s].nodes
                          /\ IsEphemeral(tree[s].nodes[p].type)
                          /\ tree[s].nodes[p].ephemeral_id = f.session_id
  <2>1. f.session_id \in SessionId /\ f.session_id # 0
    BY <1>2, SessionAssumption, Zenon DEF Fence
  <2>2. /\ EphemeralsIndexed(tree[s], {})
        /\ IsMap(tree[s].ephemerals, SessionId, SUBSET Path)
    BY <1>1, Zenon DEF Replica, WellFormed, IsTree
  <2>3. /\ EphemeralPaths(tree[s], f.session_id) \subseteq Path
        /\ \A p \in EphemeralPaths(tree[s], f.session_id) :
             /\ p \in DOMAIN tree[s].nodes
             /\ IsEphemeral(tree[s].nodes[p].type)
             /\ tree[s].nodes[p].ephemeral_id = f.session_id
    <3> HIDE DEF f
    <3> QED BY <2>1, <2>2 DEF EphemeralsIndexed, EphemeralPaths, SetAt, IsMap
  <2> HIDE DEF f, dead
  <2> QED BY <2>3, Zenon
<1>6. Killable(u, m, paths)
  BY <1>3, <1>4, <1>5, Zenon DEF Killable
<1>7. c \in [rest : Seq(Fence), paths : SUBSET Path] /\ c.paths = paths
  BY <1>2, <1>5, Zenon
<1>8. /\ OthersUnchanged(s)
      /\ tree'[s] = u /\ sessions'[s] = m /\ closing'[s] = c
      /\ applied' = applied /\ snapshot' = snapshot
      /\ checkpoint' = checkpoint /\ refused' = refused
      /\ log' = log /\ proposed' \subseteq Value
  BY Zenon DEF CloseNext, OthersUnchanged, IInv
<1> HIDE DEF u, m, c, paths
<1>9. Replica(u, m, applied[s], c, snapshot[s], checkpoint[s], refused[s],
              Len(log))
  BY <1>1, <1>3, <1>4, <1>6, <1>7, Zenon DEF Replica
<1> QED BY <1>8, <1>9, StepOK, Zenon

\* A path being killed is an ephemeral node, hence not the root and a leaf: none
\* of Delete's tests can refuse it.
LEMMA KillNotRefused ==
  ASSUME NEW t, NEW m, NEW K, NEW p \in K,
         WellFormed(t, K), Killable(t, m, K)
  PROVE  DeleteCode(t, p, -1) = "RC_OK"
<1>1. p \in DOMAIN t.nodes /\ IsEphemeral(t.nodes[p].type)
  BY Zenon DEF Killable
<1>2. p \notin DOMAIN t.childrens
  BY <1>1, Zenon DEF WellFormed, EphemeralsAreLeaves
<1>3. ParsePath(p) = "RC_OK"
  <2>1. p # Root
    BY <1>1, Zenon DEF WellFormed, ParentsLinked
  <2> QED BY <1>1, <2>1, Zenon DEF WellFormed, ParentsLinked
<1> QED BY <1>1, <1>2, <1>3, Zenon DEF DeleteCode

\* One round of KillSession's loop.
LEMMA KillStepOK ==
  ASSUME NEW t, NEW m, NEW K, NEW p \in K, p \in Path, NEW i \in Nat,
         IsTree(t), WellFormed(t, K), Killable(t, m, K)
  PROVE  /\ IsTree(RemoveNode(t, p, i))
         /\ WellFormed(RemoveNode(t, p, i), K \ {p})
         /\ Killable(RemoveNode(t, p, i), m, K \ {p})
<1> DEFINE u == RemoveNode(t, p, i)
<1>1. DeleteCode(t, p, -1) = "RC_OK"
  BY KillNotRefused, Zenon
<1>2. /\ IsTree(u) /\ WellFormed(u, K \ {p})
      /\ DOMAIN u.nodes = DOMAIN t.nodes \ {p}
      /\ SameButFor(t, u, p)
  <2>1. PICK v : DeleteCode(t, p, v) = "RC_OK"
    BY <1>1, Zenon
  <2> QED BY <2>1, RemoveNodeOK, Zenon
<1> HIDE DEF u
<1>3. Killable(u, m, K \ {p})
  BY <1>2, Zenon DEF Killable, SameButFor
<1> QED BY <1>2, <1>3, Zenon DEF u

\* One round of KillSession's loop, as a step of the server.
LEMMA KillNextOK ==
  ASSUME IInv, NEW s \in Server, NEW p \in closing[s].paths, KillNext(s, p)
  PROVE  IInv'
<1> DEFINE u == RemoveNode(tree[s], p, applied[s])
           K == closing[s].paths
<1>1. Replica(tree[s], sessions[s], applied[s], closing[s],
              snapshot[s], checkpoint[s], refused[s], Len(log))
  BY Zenon DEF IInv
<1>2. /\ IsTree(tree[s]) /\ WellFormed(tree[s], K)
      /\ Killable(tree[s], sessions[s], K)
      /\ p \in Path /\ applied[s] \in Nat
  BY <1>1 DEF Replica
<1>3. DeleteCode(tree[s], p, -1) = "RC_OK"
  BY <1>2, KillNotRefused, Zenon
<1>4. /\ IsTree(u) /\ WellFormed(u, K \ {p})
      /\ Killable(u, sessions[s], K \ {p})
  BY <1>2, KillStepOK, Zenon
<1>5. tree'[s] = u
  BY <1>3, Zenon DEF KillNext, Delete, KillRequest, IInv
<1> HIDE DEF u
<1>7. /\ closing'[s] \in [rest : Seq(Fence), paths : SUBSET Path]
      /\ closing'[s].paths = K \ {p}
  BY <1>1, Zenon DEF KillNext, Replica, IInv
<1>8. /\ OthersUnchanged(s)
      /\ sessions' = sessions /\ applied' = applied
      /\ snapshot' = snapshot /\ checkpoint' = checkpoint
      /\ refused' = refused /\ log' = log /\ proposed' \subseteq Value
  BY Zenon DEF KillNext, OthersUnchanged, IInv
<1>9. Replica(u, sessions[s], applied[s], closing'[s],
              snapshot[s], checkpoint[s], refused[s], Len(log))
  BY <1>1, <1>4, <1>7, Zenon DEF Replica
<1> QED BY <1>5, <1>8, <1>9, StepOK, Zenon

\* A checkpoint is taken.
LEMMA MakeCheckpointOK ==
  ASSUME IInv, NEW s \in Server, MakeCheckpoint(s)
  PROVE  IInv'
<1> DEFINE list == GetDataNodeList(tree[s])
           c == [instance_id |-> applied[s], nodes |-> list,
                 sessions |-> sessions[s], refused |-> refused[s]]
<1>1. /\ Replica(tree[s], sessions[s], applied[s], closing[s],
                 snapshot[s], checkpoint[s], refused[s], Len(log))
      /\ closing[s].paths = {}
  BY Zenon DEF IInv, MakeCheckpoint, Idle
<1>2. IsTree(tree[s]) /\ WellFormed(tree[s], {})
  BY <1>1, Zenon DEF Replica
<1>3. \A n \in list : n \in [path : Path, node : Node, children : SUBSET Name]
  BY <1>2 DEF IsTree, IsMap, GetDataNodeList, SetAt
<1>4. /\ IsTree(Recover(EmptyTree, list))
      /\ WellFormed(Recover(EmptyTree, list), {})
  BY <1>2, RecoverOK, Zenon
<1>5. snapshot'[s] = c
  BY Zenon DEF MakeCheckpoint, IInv
<1> HIDE DEF list
<1>6. IsCheckpoint(c, Len(log)) /\ Restorable(c)
  BY <1>1, <1>3, <1>4, Zenon DEF Replica, IsCheckpoint, Restorable
<1> HIDE DEF c
<1>7. Replica(tree[s], sessions[s], applied[s], closing[s],
              c, checkpoint[s], refused[s], Len(log))
  BY <1>1, <1>6, Zenon DEF Replica
<1>8. /\ OthersUnchanged(s) /\ tree' = tree
      /\ sessions' = sessions /\ applied' = applied /\ closing' = closing
      /\ checkpoint' = checkpoint
      /\ refused' = refused /\ log' = log /\ proposed' \subseteq Value
  BY Zenon DEF MakeCheckpoint, OthersUnchanged, IInv
<1> QED BY <1>5, <1>7, <1>8, StepOK, Zenon

\* The loop finishes a checkpoint, or fails to.
LEMMA WriteCheckpointOK ==
  ASSUME IInv, NEW s \in Server, NEW success \in BOOLEAN,
         WriteCheckpoint(s, success)
  PROVE  IInv'
<1>1. Replica(tree[s], sessions[s], applied[s], closing[s],
              snapshot[s], checkpoint[s], refused[s], Len(log))
  BY Zenon DEF IInv
<1>2. IsCheckpoint(NoCheckpoint, Len(log))
  BY DEF IInv, IsCheckpoint, NoCheckpoint, IsMap, EmptyMap
<1>3. /\ snapshot'[s] = NoCheckpoint
      /\ checkpoint'[s] \in {snapshot[s], checkpoint[s]}
  BY Zenon DEF WriteCheckpoint, IInv
<1>4. Replica(tree[s], sessions[s], applied[s], closing[s],
              snapshot'[s], checkpoint'[s], refused[s], Len(log))
  BY <1>1, <1>2, <1>3, NoCheckpointOK, Zenon DEF Replica
<1>5. /\ OthersUnchanged(s) /\ tree' = tree
      /\ sessions' = sessions /\ applied' = applied /\ closing' = closing
      /\ refused' = refused /\ log' = log /\ proposed' \subseteq Value
  BY Zenon DEF WriteCheckpoint, OthersUnchanged, IInv
<1> QED BY <1>4, <1>5, StepOK, Zenon

\* A crash, and the recovery from the last finished checkpoint.
LEMMA RestartOK ==
  ASSUME IInv, NEW s \in Server, Restart(s)
  PROVE  IInv'
<1> DEFINE u == Recover(EmptyTree, checkpoint[s].nodes)
<1>1. Replica(tree[s], sessions[s], applied[s], closing[s],
              snapshot[s], checkpoint[s], refused[s], Len(log))
  BY Zenon DEF IInv
<1>2. IsTree(u) /\ WellFormed(u, {})
  BY <1>1, Zenon DEF Replica, Restorable
<1>3. /\ tree'[s] = u /\ sessions'[s] = checkpoint[s].sessions
      /\ applied'[s] = checkpoint[s].instance_id
      /\ closing'[s] = NotClosing /\ snapshot'[s] = NoCheckpoint
      /\ checkpoint' = checkpoint /\ refused'[s] = checkpoint[s].refused
      /\ OthersUnchanged(s) /\ log' = log /\ proposed' \subseteq Value
  BY Zenon DEF Restart, OthersUnchanged, IInv
<1> HIDE DEF u
<1>4. /\ IsCheckpoint(NoCheckpoint, Len(log))
      /\ NotClosing \in [rest : Seq(Fence), paths : SUBSET Path]
      /\ NotClosing.paths = {}
  BY DEF IInv, IsCheckpoint, NoCheckpoint, IsMap, EmptyMap, NotClosing
<1>5. /\ IsMap(checkpoint[s].sessions, SessionId, Nat)
      /\ checkpoint[s].instance_id \in 0 .. Len(log)
      /\ checkpoint[s].refused \in BOOLEAN
  BY <1>1, Zenon DEF Replica, IsCheckpoint
<1>6. Replica(u, checkpoint[s].sessions, checkpoint[s].instance_id, NotClosing,
              NoCheckpoint, checkpoint[s], checkpoint[s].refused, Len(log))
  BY <1>1, <1>2, <1>4, <1>5, NoCheckpointOK, Zenon DEF Replica, Killable
<1> QED BY <1>3, <1>6, StepOK, Zenon

\* Every step keeps the invariant.
LEMMA NextOK == IInv /\ [Next]_vars => IInv'
<1> SUFFICES ASSUME IInv, [Next]_vars PROVE IInv'
  BY Zenon
<1>1. CASE UNCHANGED vars
  BY <1>1, Zenon DEF vars, IInv
<1>2. CASE \E v \in proposed : Choose(v) \/ Lose(v)
  BY <1>2, ChooseOK, Zenon
<1>3. ASSUME NEW s \in Server, ProposeStep(s)
      PROVE  IInv'
  BY <1>3, ProposeCreateOK, ProposeOK, Zenon DEF ProposeStep
<1>4. ASSUME NEW s \in Server, ExecuteStep(s)
      PROVE  IInv'
  BY <1>4, ExecuteConnectOK, ExecuteWriteOK, ExecuteCloseOK, CloseNextOK,
     KillNextOK, Zenon DEF ExecuteStep
<1>5. ASSUME NEW s \in Server, CheckpointStep(s)
      PROVE  IInv'
  BY <1>5, MakeCheckpointOK, WriteCheckpointOK, RestartOK, Zenon DEF CheckpointStep
<1> QED BY <1>1, <1>2, <1>3, <1>4, <1>5, Zenon DEF Next

\* The inductive invariant holds in every reachable state.
LEMMA SpecIInv == Spec => []IInv
<1>1. Init => IInv
  BY InitOK, Zenon
<1>2. IInv /\ [Next]_vars => IInv'
  BY NextOK, Zenon
<1> QED BY <1>1, <1>2, PTL DEF Spec

\* Under a sequential parent Create appends children_version + 1, and every
\* child's number is at most children_version.
LEMMA FreshName ==
  ASSUME NEW t, NEW K, IsTree(t), WellFormed(t, K), NEW q \in Path,
         ParentCode(t, q) = "RC_OK", IsSequential(t.nodes[Parent(q)].type)
  PROVE  CreateCode(t, q) = "RC_OK"
<1> DEFINE p == Parent(q)
           n == t.nodes[p].children_version
           c == Append(Child(q), n + 1)
<1>1. q # Root /\ p \in DOMAIN t.nodes
  BY Zenon DEF ParentCode, ParsePath
<1>2. p \in Path /\ Child(q) \in Name
  BY <1>1, PathParts, Zenon
<1>3. n \in Nat
  BY <1>1, Zenon DEF IsTree, IsMap, Node
<1>4. c \in Name /\ c[Len(c)] = n + 1
  BY <1>2, <1>3, SMTT(30) DEF Name
<1>5. Child(NewPath(t, q)) = c
  BY <1>2, <1>4, AppendParts, Zenon DEF NewPath
<1>6. c \notin SetAt(t.childrens, p)
  <2>1. \A d \in SetAt(t.childrens, p) : d[Len(d)] \in 0 .. n
    BY <1>1, Zenon DEF WellFormed, SequenceNumbersUsed
  <2> HIDE DEF c, n
  <2> QED BY <1>3, <1>4, <2>1
<1> QED BY <1>5, <1>6, Zenon DEF CreateCode, ChildCode

\* Every field keeps its type, for every number of servers and sessions, and
\* for every set of requests.
THEOREM Typed == Spec => []TypeOK
<1>1. IInv => TypeOK
  BY Zenon DEF IInv, TypeOK, Replica
<1> QED BY <1>1, SpecIInv, PTL

\* nodes_, childrens_ and ephemerals_ describe the same tree on every replica
\* at every moment: across checks, executions, the rounds of KillSession,
\* checkpoints and recoveries.
THEOREM Formed == Spec => []TreesWellFormed
<1>1. IInv => TreesWellFormed
  BY Zenon DEF IInv, TreesWellFormed, Replica
<1> QED BY <1>1, SpecIInv, PTL

\* DataTree::KillSession never gets an error from Delete (data_tree.cc:352).
THEOREM KillSucceeds == Spec => []KillNeverRefused
<1>1. IInv => KillNeverRefused
  <2> SUFFICES ASSUME IInv, NEW s \in Server, NEW p \in closing[s].paths
               PROVE  DeleteAnswer(tree[s], p, -1) = "RC_OK"
    BY Zenon DEF KillNeverRefused
  <2>1. /\ WellFormed(tree[s], closing[s].paths)
        /\ Killable(tree[s], sessions[s], closing[s].paths)
    BY Zenon DEF IInv, Replica
  <2>2. DeleteCode(tree[s], p, -1) = "RC_OK"
    BY <2>1, KillNotRefused, Zenon
  <2>3. p \in DOMAIN tree[s].nodes \ {Root}
    BY <2>1, Zenon DEF Killable, WellFormed, ParentsLinked
  <2>4. Parent(p) \in DOMAIN tree[s].nodes
    BY <2>1, <2>3, Zenon DEF WellFormed, ParentsLinked
  <2> QED BY <2>2, <2>4, Zenon DEF DeleteAnswer
<1> QED BY <1>1, SpecIInv, PTL

\* Create under a sequential parent never collides with an existing name
\* (data_tree.cc:84-90).
THEOREM NamesFresh == Spec => []SequentialNamesFresh
<1>1. IInv => SequentialNamesFresh
  <2> SUFFICES ASSUME IInv, NEW s \in Server, NEW a \in CreateArgs,
                      ParentCode(tree[s], a.path) = "RC_OK",
                      IsSequential(tree[s].nodes[Parent(a.path)].type)
               PROVE  CreateCode(tree[s], a.path) = "RC_OK"
    BY Zenon DEF SequentialNamesFresh
  <2>1. IsTree(tree[s]) /\ WellFormed(tree[s], closing[s].paths)
    BY Zenon DEF IInv, Replica
  <2>2. a.path \in Path
    BY ArgsAssumption, Zenon
  <2> QED BY <2>1, <2>2, FreshName, Zenon
<1> QED BY <1>1, SpecIInv, PTL

\* Execute of an MT_CLOSE deletes nodes only of a session that is out of the
\* session table (saber_db.cc:158-166).
THEOREM KillsOnlyDead == Spec => []KilledOnlyWhenDead
<1>1. IInv => KilledOnlyWhenDead
  BY Zenon DEF IInv, KilledOnlyWhenDead, Replica, Killable
<1> QED BY <1>1, SpecIInv, PTL

-----------------------------------------------------------------------------
(* The history: what the log says that the nodes and the sessions are after *)
(* each instance.                                                          *)

\* The sessions that a close of this list ends, given the table.
Dying(m, list) ==
  {sid \in SessionId : \E i \in DOMAIN list :
     list[i].session_id = sid /\ CloseSessionOK(m, sid, list[i].version)}

\* The nodes of these sessions, and the table without them.
Owned(N, D) == {p \in DOMAIN N : N[p].ephemeral_id \in D}
Without(m, D) == [x \in DOMAIN m \ D |-> m[x]]

\* What instance i with value v makes of the nodes N and of the table m.
AfterNodes(N, m, v, i) ==
  LET txn == [instance_id |-> i, session_id |-> v.session_id]
  IN  CASE v.type = "MT_CREATE" -> Create(TreeOf(N), v.args, txn).nodes
        [] v.type = "MT_DELETE" -> Delete(TreeOf(N), v.args, txn).nodes
        [] v.type = "MT_SETDATA" -> SetData(TreeOf(N), v.args, txn).nodes
        [] v.type = "MT_CLOSE" -> KillAll(N, Owned(N, Dying(m, v.list)), i)
        [] OTHER -> N

AfterSessions(m, v, i) ==
  CASE v.type = "MT_CONNECT" -> CreateSession(m, v.session_id, i, v.version)
    [] v.type = "MT_CLOSE" -> Without(m, Dying(m, v.list))
    [] OTHER -> m

\* h has what the log l makes of an empty database, instance by instance.
History(h, l) ==
  /\ h[0].nodes = EmptyTree.nodes /\ h[0].sessions = EmptyMap
  /\ \A n \in 1 .. Len(l) :
       /\ h[n].nodes = AfterNodes(h[n - 1].nodes, h[n - 1].sessions, l[n], n)
       /\ h[n].sessions = AfterSessions(h[n - 1].sessions, l[n], n)

Submap(m, k) == \A x \in DOMAIN m : x \in DOMAIN k /\ k[x] = m[x]

\* When the close that a replica is executing is done, it has what the history
\* has; the nodes unless it refused to delete one.
Follows(h, t, m, a, c, rf) ==
  LET D == Dying(m, c.rest)
  IN  /\ Without(m, D) = h[a].sessions
      /\ ~rf => KillAll(t.nodes, c.paths \cup Owned(t.nodes, D), a) = h[a].nodes
      /\ \/ c.rest = << >> /\ c.paths = {}
         \/ a > 0 /\ Submap(m, h[a - 1].sessions)

\* A checkpoint has what the history has.
Records(h, ck) ==
  /\ ck.sessions = h[ck.instance_id].sessions
  /\ ~ck.refused => Recover(EmptyTree, ck.nodes).nodes = h[ck.instance_id].nodes

\* Of the sessions in the close v each is still to be looked at, or was not
\* ended, or has only the nodes that are about to be deleted.
Done(N, m, rest, paths, v) ==
  v.type = "MT_CLOSE" =>
    \A i \in DOMAIN v.list :
      \/ \E j \in DOMAIN rest : rest[j] = v.list[i]
      \/ v.list[i].session_id \in DOMAIN m
      \/ Owned(N, {v.list[i].session_id}) \subseteq paths

DoneAt(l, t, m, a, c) == a > 0 => Done(t.nodes, m, c.rest, c.paths, l[a])
DoneIn(l, ck) ==
  ck.instance_id > 0 => Done(Recover(EmptyTree, ck.nodes).nodes, ck.sessions, << >>, {},
                             l[ck.instance_id])

\* What one replica has of the history.
Past(h, l, t, m, a, c, sn, ck, rf) ==
  /\ Follows(h, t, m, a, c, rf) /\ DoneAt(l, t, m, a, c)
  /\ Records(h, sn) /\ DoneIn(l, sn)
  /\ Records(h, ck) /\ DoneIn(l, ck)

Pasts(h) ==
  /\ History(h, log)
  /\ \A s \in Server : Past(h, log, tree[s], sessions[s], applied[s], closing[s],
                            snapshot[s], checkpoint[s], refused[s])

\* Value v is a connect or a close of session sid with this version.
CarriedBy(v, sid, version) ==
  \/ v.type = "MT_CONNECT" /\ v.session_id = sid /\ v.version = version
  \/ /\ v.type = "MT_CLOSE"
     /\ \E j \in DOMAIN v.list : v.list[j] = [session_id |-> sid, version |-> version]

\* The versions in a value that is, or may become, instance n of the log: those
\* of earlier connects, or 0 in the connect of a new session.
Sound(l, v, n) ==
  \A sid, version : CarriedBy(v, sid, version) =>
    /\ version \in 0 .. n - 1
    /\ version = 0 => v.type = "MT_CONNECT"
    /\ version # 0 => l[version].type = "MT_CONNECT" /\ l[version].session_id = sid

\* SessionsFenced, of the sessions m after instance n.
Fenced(l, m, n) ==
  /\ DOMAIN m \subseteq SessionId
  /\ \A sid \in DOMAIN m :
       /\ m[sid] \in 1 .. n
       /\ l[m[sid]].type = "MT_CONNECT" /\ l[m[sid]].session_id = sid
       /\ \A i \in m[sid] + 1 .. n : ~CarriedBy(l[i], sid, m[sid])
       /\ \A i \in 1 .. m[sid] - 1 : ~CarriedBy(l[i], sid, l[m[sid]].version)

\* The versions in the proposals, in the log and in the tables of the history.
\* Only one connect of a session carries no version.
Fences(h) ==
  /\ \A v \in proposed : Sound(log, v, Len(log) + 1)
  /\ \A i \in 1 .. Len(log) : Sound(log, log[i], i)
  /\ \A v \in proposed : \A i \in 1 .. Len(log) : \A sid :
       ~(CarriedBy(v, sid, 0) /\ CarriedBy(log[i], sid, 0))
  /\ \A n \in 0 .. Len(log) : Fenced(log, h[n].sessions, n)

HInv == \E h : Pasts(h) /\ Fences(h)
-----------------------------------------------------------------------------
\* Between two instances nothing is dying.
LEMMA IdleOK ==
  ASSUME NEW m, NEW N, m = [x \in DOMAIN m |-> m[x]]
  PROVE  Dying(m, << >>) = {} /\ Owned(N, {}) = {} /\ Without(m, {}) = m
BY DEF Dying, Owned, Without

\* No close is under way.
Settled(c) == c.rest = << >> /\ c.paths = {}

\* What the history has after instance a.
At(h, t, m, a, rf) == m = h[a].sessions /\ (~rf => t.nodes = h[a].nodes)

\* A replica between two instances has what the history has.
LEMMA FollowsIdle ==
  ASSUME NEW h, NEW t, NEW m, NEW a, NEW c, NEW rf, IsTree(t), IsMap(m, SessionId, Nat),
         Settled(c)
  PROVE  Follows(h, t, m, a, c, rf) <=> At(h, t, m, a, rf)
<1>1. /\ m = [x \in DOMAIN m |-> m[x]]
      /\ t.nodes = [x \in DOMAIN t.nodes |-> t.nodes[x]]
  BY Zenon DEF IsTree, IsMap
<1>2. Dying(m, << >>) = {} /\ Owned(t.nodes, {}) = {} /\ Without(m, {}) = m
  BY <1>1, IdleOK, Zenon
<1>3. KillAll(t.nodes, {}, a) = t.nodes
  BY <1>1, KillNone, Zenon
<1>4. {} \cup Owned(t.nodes, {}) = {}
  BY <1>2, Zenon
<1> QED BY <1>2, <1>3, <1>4, Zenon DEF Follows, Settled, At

\* A connect carries its own version.
LEMMA ConnectCarries ==
  ASSUME NEW v, v.type = "MT_CONNECT", NEW x, NEW y
  PROVE  CarriedBy(v, x, y) <=> v.session_id = x /\ v.version = y
BY DEF CarriedBy

\* CloseSession of the first session of a list, and then of the others.
LEMMA DyingTail ==
  ASSUME NEW m, IsMap(m, SessionId, Nat), NEW rest \in Seq(Fence), rest # << >>
  PROVE  LET f == Head(rest)
             dead == CloseSessionOK(m, f.session_id, f.version)
             k == CloseSession(m, f.session_id, f.version)
             D == Dying(m, rest)
             E == Dying(k, Tail(rest))
         IN  /\ dead => D = E \cup {f.session_id}
             /\ ~dead => D = E /\ f.session_id \in DOMAIN m
             /\ Without(k, E) = Without(m, D)
<1> DEFINE f == Head(rest)
           sid == f.session_id
           dead == CloseSessionOK(m, sid, f.version)
           k == CloseSession(m, sid, f.version)
           D == Dying(m, rest)
           E == Dying(k, Tail(rest))
<1>1. /\ sid \in SessionId
      /\ \A i \in DOMAIN rest : rest[i] = f \/ \E j \in DOMAIN Tail(rest) : Tail(rest)[j] = rest[i]
      /\ \A j \in DOMAIN Tail(rest) : \E i \in DOMAIN rest : rest[i] = Tail(rest)[j]
      /\ \E i \in DOMAIN rest : rest[i] = f
  <2>1. rest \in Seq(Fence) /\ Len(rest) \in Nat /\ Len(rest) > 0 /\ DOMAIN rest = 1 .. Len(rest)
    OBVIOUS
  <2>2. /\ DOMAIN Tail(rest) = 1 .. Len(rest) - 1
        /\ \A j \in 1 .. Len(rest) - 1 : Tail(rest)[j] = rest[j + 1]
        /\ f = rest[1]
    BY <2>1
  <2>3. rest[1] \in Fence
    BY <2>1
  <2>4. \A i \in 2 .. Len(rest) : i - 1 \in 1 .. Len(rest) - 1 /\ (i - 1) + 1 = i
    BY <2>1
  <2>5. \A j \in 1 .. Len(rest) - 1 : j + 1 \in 1 .. Len(rest)
    BY <2>1
  <2>6. \A i \in 1 .. Len(rest) : i = 1 \/ i \in 2 .. Len(rest)
    BY <2>1
  <2>7. 1 \in 1 .. Len(rest)
    BY <2>1
  <2>8. sid \in SessionId
    BY <2>2, <2>3, Zenon DEF Fence
  <2> HIDE DEF f, sid
  <2> QED BY <2>1, <2>2, <2>4, <2>5, <2>6, <2>7, <2>8, ZenonT(30)
<1>2. CASE dead
  <2>1. k = Erase(m, sid)
    BY <1>2, Zenon DEF CloseSession
  <2>2. \A x : x # sid => \A v : CloseSessionOK(m, x, v) <=> CloseSessionOK(k, x, v)
    BY <2>1, Zenon DEF Erase, CloseSessionOK
  <2>3. D = E \cup {sid}
    <3>1. ASSUME NEW x \in SessionId, x # sid PROVE x \in D <=> x \in E
      <4> HIDE DEF k, f, sid
      <4> QED BY <1>1, <2>2, <3>1, ZenonT(30) DEF Dying, sid
    <3>2. sid \in D
      BY <1>1, <1>2, Zenon DEF Dying
    <3>3. D \subseteq SessionId /\ E \subseteq SessionId
      BY Zenon DEF Dying
    <3> HIDE DEF D, E, sid
    <3> QED BY <3>1, <3>2, <3>3, Zenon
  <2>4. Without(k, E) = Without(m, D)
    <3> HIDE DEF D, E, k, sid
    <3> QED BY <2>1, <2>3, Zenon DEF Without, Erase
  <2> QED BY <1>2, <2>3, <2>4, Zenon
<1>3. CASE ~dead
  <2>1. k = m /\ sid \in DOMAIN m
    BY <1>3, Zenon DEF CloseSession, CloseSessionOK
  <2>2. D = E
    <3> HIDE DEF f
    <3> QED BY <1>1, <1>3, <2>1, Zenon DEF Dying
  <2> QED BY <1>3, <2>1, <2>2, Zenon
<1> QED BY <1>2, <1>3, Zenon
-----------------------------------------------------------------------------
(* The steps of a replica.                                                 *)

\* A step of one server keeps what the others have of the history.
LEMMA StepPast ==
  ASSUME NEW h, Pasts(h), NEW s \in Server, OthersUnchanged(s), log' = log,
         Past(h, log, tree'[s], sessions'[s], applied'[s], closing'[s],
              snapshot'[s], checkpoint'[s], refused'[s])
  PROVE  Pasts(h)'
<1>1. ASSUME NEW r \in Server
      PROVE  Past(h, log, tree'[r], sessions'[r], applied'[r], closing'[r],
                  snapshot'[r], checkpoint'[r], refused'[r])
  <2>1. CASE r = s
    BY <2>1, Zenon
  <2>2. CASE r # s
    BY <2>2, Zenon DEF OthersUnchanged, Pasts
  <2> QED BY <2>1, <2>2, Zenon
<1> QED BY <1>1, Zenon DEF Pasts

\* CheckCreate leaves the nodes alone.
LEMMA ProposeCreatePast ==
  ASSUME IInv, NEW h, Pasts(h), NEW s \in Server, NEW sid \in SessionId,
         NEW args \in CreateArgs, ProposeCreate(s, sid, args)
  PROVE  Pasts(h)'
<1>1. IsTree(tree[s])
  BY Zenon DEF IInv, Replica
<1>2. CheckCreate(tree[s], args.path).nodes = tree[s].nodes
  BY <1>1, Zenon DEF IsTree, CheckCreate
<1>3. /\ OthersUnchanged(s) /\ tree'[s].nodes = tree[s].nodes
      /\ UNCHANGED <<sessions, applied, closing, snapshot, checkpoint, log, refused>>
  BY <1>2, Zenon DEF ProposeCreate, OthersUnchanged, IInv
<1>4. Past(h, log, tree[s], sessions[s], applied[s], closing[s],
           snapshot[s], checkpoint[s], refused[s])
  BY Zenon DEF Pasts
<1>5. Past(h, log, tree'[s], sessions[s], applied[s], closing[s],
           snapshot[s], checkpoint[s], refused[s])
  BY <1>3, <1>4, Zenon DEF Past, Follows, DoneAt
<1> QED BY <1>3, <1>5, StepPast, Zenon

\* What Execute finds, and what the history has after the instance.
LEMMA BeginPast ==
  ASSUME IInv, NEW h, Pasts(h), NEW s \in Server, NEW type, Begin(s, type)
  PROVE  LET a == applied[s]
             v == NextValue(s)
         IN  /\ closing[s].rest = << >> /\ closing[s].paths = {}
             /\ sessions[s] = h[a].sessions
             /\ h[a + 1].sessions = AfterSessions(sessions[s], v, a + 1)
             /\ ~refused[s] =>
                  h[a + 1].nodes = AfterNodes(tree[s].nodes, sessions[s], v, a + 1)
             /\ a + 1 > 0 /\ (a + 1) - 1 = a
             /\ Records(h, snapshot[s]) /\ DoneIn(log, snapshot[s])
             /\ Records(h, checkpoint[s]) /\ DoneIn(log, checkpoint[s])
<1> DEFINE a == applied[s]
<1>1. /\ Past(h, log, tree[s], sessions[s], applied[s], closing[s],
              snapshot[s], checkpoint[s], refused[s])
      /\ History(h, log)
  BY Zenon DEF Pasts
<1>2. closing[s].rest = << >> /\ closing[s].paths = {}
  BY Zenon DEF Begin, Idle
<1>3. sessions[s] = h[a].sessions /\ (~refused[s] => tree[s].nodes = h[a].nodes)
  <2>1. IsTree(tree[s]) /\ IsMap(sessions[s], SessionId, Nat)
    BY Zenon DEF IInv, Replica
  <2>2. Follows(h, tree[s], sessions[s], a, closing[s], refused[s])
    BY <1>1, Zenon DEF Past
  <2> HIDE DEF a
  <2>3. Settled(closing[s])
    BY <1>2, Zenon DEF Settled
  <2>4. At(h, tree[s], sessions[s], a, refused[s])
    BY <2>1, <2>2, <2>3, FollowsIdle, Zenon
  <2> QED BY <2>4, Zenon DEF At
<1>4. a + 1 \in 1 .. Len(log) /\ a \in Nat
  BY BeginOK DEF Replica
<1>5. (a + 1) - 1 = a /\ a + 1 > 0
  BY <1>4
<1>6. /\ h[a + 1].nodes = AfterNodes(h[a].nodes, h[a].sessions, log[a + 1], a + 1)
      /\ h[a + 1].sessions = AfterSessions(h[a].sessions, log[a + 1], a + 1)
  <2> HIDE DEF a
  <2> QED BY <1>1, <1>4, <1>5, Zenon DEF History
<1>7. log[a + 1] = NextValue(s)
  BY Zenon DEF NextValue
<1> HIDE DEF a
<1>8. /\ h[a + 1].sessions = AfterSessions(sessions[s], NextValue(s), a + 1)
      /\ ~refused[s] =>
           h[a + 1].nodes = AfterNodes(tree[s].nodes, sessions[s], NextValue(s), a + 1)
  BY <1>3, <1>6, <1>7, Zenon
<1> QED BY <1>1, <1>2, <1>3, <1>5, <1>8, Zenon DEF Past, a

\* Execute of a value other than a close.
LEMMA ExecutePast ==
  ASSUME IInv, IInv', NEW h, Pasts(h), NEW s \in Server, NEW type, Begin(s, type),
         type # "MT_CLOSE", closing' = closing, OthersUnchanged(s),
         sessions'[s] = h[applied[s] + 1].sessions,
         ~refused'[s] => tree'[s].nodes = h[applied[s] + 1].nodes
  PROVE  Pasts(h)'
<1>1. /\ applied'[s] = applied[s] + 1 /\ log' = log
      /\ snapshot' = snapshot /\ checkpoint' = checkpoint
      /\ NextValue(s).type = type
  BY BeginOK, Zenon
<1>2. closing[s].rest = << >> /\ closing[s].paths = {}
  BY BeginPast, Zenon
<1>3. IsTree(tree'[s]) /\ IsMap(sessions'[s], SessionId, Nat)
  BY Zenon DEF IInv, Replica
<1>4. Follows(h, tree'[s], sessions'[s], applied[s] + 1, closing[s], refused'[s])
  <2>1. Settled(closing[s]) /\ At(h, tree'[s], sessions'[s], applied[s] + 1, refused'[s])
    BY <1>2, Zenon DEF Settled, At
  <2> QED BY <1>3, <2>1, FollowsIdle, Zenon
<1>5. DoneAt(log, tree'[s], sessions'[s], applied[s] + 1, closing[s])
  BY <1>1, Zenon DEF DoneAt, Done, NextValue
<1>6. /\ Records(h, snapshot[s]) /\ DoneIn(log, snapshot[s])
      /\ Records(h, checkpoint[s]) /\ DoneIn(log, checkpoint[s])
  BY BeginPast, Zenon
<1>7. Past(h, log, tree'[s], sessions'[s], applied'[s], closing'[s],
           snapshot'[s], checkpoint'[s], refused'[s])
  BY <1>1, <1>4, <1>5, <1>6, Zenon DEF Past
<1> QED BY <1>1, <1>7, StepPast, Zenon

\* A connect is executed as in the history.
\* A connect is executed as in the history.
LEMMA ExecuteConnectPast ==
  ASSUME IInv, IInv', NEW h, Pasts(h), NEW s \in Server, ExecuteConnect(s)
  PROVE  Pasts(h)'
<1>1. Begin(s, "MT_CONNECT")
  BY Zenon DEF ExecuteConnect
<1>2. NextValue(s).type = "MT_CONNECT"
  BY <1>1, BeginOK, Zenon
<1>3. /\ OthersUnchanged(s) /\ tree' = tree /\ closing' = closing /\ refused' = refused
      /\ sessions'[s] = CreateSession(sessions[s], NextValue(s).session_id,
                                      applied[s] + 1, NextValue(s).version)
  BY <1>1, BeginOK, Zenon DEF ExecuteConnect, OthersUnchanged, IInv
<1>4. /\ sessions'[s] = h[applied[s] + 1].sessions
      /\ ~refused[s] => tree[s].nodes = h[applied[s] + 1].nodes
  <2> DEFINE i == applied[s] + 1
             v == NextValue(s)
  <2>1. /\ AfterNodes(tree[s].nodes, sessions[s], v, i) = tree[s].nodes
        /\ AfterSessions(sessions[s], v, i)
             = CreateSession(sessions[s], v.session_id, i, v.version)
    <3> HIDE DEF i, v
    <3> QED BY <1>2 DEF AfterNodes, AfterSessions, v
  <2>2. /\ h[i].sessions = AfterSessions(sessions[s], v, i)
        /\ ~refused[s] => h[i].nodes = AfterNodes(tree[s].nodes, sessions[s], v, i)
    BY <1>1, BeginPast, Zenon
  <2> QED BY <1>3, <2>1, <2>2, Zenon
<1> QED BY <1>1, <1>3, <1>4, ExecutePast, Zenon

\* A write does to the nodes of the replica what it does to those of the
\* history; a Delete that is refused for an empty entry in childrens_ does not.
LEMMA ExecuteWritePast ==
  ASSUME IInv, IInv', NEW h, Pasts(h), NEW s \in Server,
         ExecuteCreate(s) \/ ExecuteDelete(s) \/ ExecuteSetData(s)
  PROVE  Pasts(h)'
<1> DEFINE t == tree[s]
           N == t.nodes
           u == TreeOf(N)
           v == NextValue(s)
           i == applied[s] + 1
           txn == [instance_id |-> i, session_id |-> v.session_id]
<1>1. PICK type \in {"MT_CREATE", "MT_DELETE", "MT_SETDATA"} : Begin(s, type)
  BY Zenon DEF ExecuteCreate, ExecuteDelete, ExecuteSetData
<1>2. v.type = type
  BY <1>1, BeginOK, Zenon
<1>3. /\ h[i].sessions = AfterSessions(sessions[s], v, i)
      /\ ~refused[s] => h[i].nodes = AfterNodes(N, sessions[s], v, i)
  BY <1>1, BeginPast, Zenon
<1>4. IsTree(t) /\ WellFormed(t, closing[s].paths)
  BY Zenon DEF IInv, Replica
<1>5. Alike(t, u) /\ NoEmpty(u)
  <2>1. \A p : SetAt(t.childrens, p) = Kids(N, p)
    BY <1>4, KidsOK, Zenon
  <2>2. /\ u.nodes = N
        /\ \A p : SetAt(u.childrens, p) = Kids(N, p)
        /\ \A p : p \in DOMAIN u.childrens <=> Kids(N, p) # {}
    BY TreeOfOK, Zenon
  <2>3. Maps(t) /\ Maps(u)
    BY <1>4, Zenon DEF IsTree, Maps, TreeOf
  <2> HIDE DEF u
  <2> QED BY <2>1, <2>2, <2>3, Zenon DEF Alike, NoEmpty
<1>6. /\ sessions' = sessions /\ closing' = closing /\ OthersUnchanged(s)
  <2>1. /\ sessions' = sessions /\ closing' = closing
        /\ snapshot' = snapshot /\ checkpoint' = checkpoint
        /\ DOMAIN tree' = DOMAIN tree /\ \A r \in Server \ {s} : tree'[r] = tree[r]
        /\ DOMAIN refused' = DOMAIN refused /\ \A r \in Server \ {s} : refused'[r] = refused[r]
    <3>1. /\ sessions' = sessions /\ closing' = closing
      BY Zenon DEF ExecuteCreate, ExecuteDelete, ExecuteSetData
    <3>2. snapshot' = snapshot /\ checkpoint' = checkpoint
      BY <1>1, BeginOK, Zenon
    <3>3. CASE ExecuteCreate(s)
      BY <3>1, <3>2, <3>3, Zenon DEF ExecuteCreate, IInv
    <3>4. CASE ExecuteDelete(s)
      BY <3>1, <3>2, <3>4, Zenon DEF ExecuteDelete, IInv
    <3>5. CASE ExecuteSetData(s)
      BY <3>1, <3>2, <3>5, Zenon DEF ExecuteSetData, IInv
    <3> QED BY <3>3, <3>4, <3>5, Zenon
  <2>2. DOMAIN applied' = DOMAIN applied /\ \A r \in Server \ {s} : applied'[r] = applied[r]
    BY <1>1, BeginOK, Zenon DEF Begin, IInv
  <2> QED BY <2>1, <2>2, Zenon DEF OthersUnchanged
<1>7. sessions'[s] = h[i].sessions
  <2>1. v.type \in {"MT_CREATE", "MT_DELETE", "MT_SETDATA"}
    BY <1>1, <1>2, Zenon
  <2>2. AfterSessions(sessions[s], v, i) = sessions[s]
    <3> HIDE DEF v, i
    <3> QED BY <2>1 DEF AfterSessions
  <2> HIDE DEF v, i
  <2> QED BY <1>3, <1>6, <2>2, Zenon
<1>8. ~refused'[s] => ~refused[s] /\ tree'[s].nodes = AfterNodes(N, sessions[s], v, i)
  <2>1. CASE ExecuteCreate(s)
    <3>1. tree'[s] = Create(t, v.args, txn) /\ refused' = refused
      BY <2>1, Zenon DEF ExecuteCreate, IInv, Txn
    <3>2. Create(t, v.args, txn).nodes = Create(u, v.args, txn).nodes
      <4> HIDE DEF t, u
      <4>1. \A r, x : Create(t, r, x).nodes = Create(u, r, x).nodes
        BY <1>5, SameCreate, Zenon
      <4> QED BY <4>1, Zenon
    <3>3. v.type = "MT_CREATE"
      BY <2>1, Zenon DEF ExecuteCreate, Begin
    <3>4. AfterNodes(N, sessions[s], v, i) = Create(u, v.args, txn).nodes
      <4> HIDE DEF v, N, i
      <4> QED BY <3>3, Zenon DEF AfterNodes
    <3> HIDE DEF u, t, v, i, txn
    <3> QED BY <3>1, <3>2, <3>4, Zenon
  <2>2. CASE ExecuteDelete(s)
    <3>1. /\ tree'[s] = Delete(t, v.args, txn)
          /\ refused'[s] = (refused[s] \/
               (/\ DeleteCode(t, v.args.path, v.args.version) = "RC_CHILDREN_EXISTS"
                /\ SetAt(t.childrens, v.args.path) = {}))
      BY <2>2, Zenon DEF ExecuteDelete, IInv, Txn
    <3>2. ~refused'[s] =>
            /\ ~refused[s]
            /\ Delete(t, v.args, txn).nodes = Delete(u, v.args, txn).nodes
      <4> HIDE DEF txn, v, t, u
      <4>1. ~refused'[s] => ~refused[s] /\ ~Misled(t, v.args)
        BY <3>1, Zenon DEF Misled
      <4>2. \A r, x : ~Misled(t, r) => Delete(t, r, x).nodes = Delete(u, r, x).nodes
        BY <1>5, SameDelete, Zenon
      <4> QED BY <4>1, <4>2, Zenon
    <3>3. v.type = "MT_DELETE"
      BY <2>2, Zenon DEF ExecuteDelete, Begin
    <3>4. AfterNodes(N, sessions[s], v, i) = Delete(u, v.args, txn).nodes
      <4> HIDE DEF v, N, i
      <4> QED BY <3>3, Zenon DEF AfterNodes
    <3> HIDE DEF u, t, v, i, txn
    <3> QED BY <3>1, <3>2, <3>4, Zenon
  <2>3. CASE ExecuteSetData(s)
    <3>1. tree'[s] = SetData(t, v.args, txn) /\ refused' = refused
      BY <2>3, Zenon DEF ExecuteSetData, IInv, Txn
    <3>2. SetData(t, v.args, txn).nodes = SetData(u, v.args, txn).nodes
      <4> HIDE DEF txn, v, t, u
      <4>1. \A r, x : SetData(t, r, x).nodes = SetData(u, r, x).nodes
        BY <1>5, SameSetData, Zenon
      <4> QED BY <4>1, Zenon
    <3>3. v.type = "MT_SETDATA"
      BY <2>3, Zenon DEF ExecuteSetData, Begin
    <3>4. AfterNodes(N, sessions[s], v, i) = SetData(u, v.args, txn).nodes
      <4> HIDE DEF v, N, i
      <4> QED BY <3>3, Zenon DEF AfterNodes
    <3> HIDE DEF u, t, v, i, txn
    <3> QED BY <3>1, <3>2, <3>4, Zenon
  <2> QED BY <2>1, <2>2, <2>3, Zenon
<1>9. ~refused'[s] => tree'[s].nodes = h[i].nodes
  BY <1>3, <1>8, Zenon
<1> QED BY <1>1, <1>6, <1>7, <1>9, ExecutePast, Zenon

\* A close begins: what it will do is what the history says that it does.
LEMMA ExecuteClosePast ==
  ASSUME IInv, NEW h, Pasts(h), NEW s \in Server, ExecuteClose(s)
  PROVE  Pasts(h)'
<1> DEFINE v == NextValue(s)
           i == applied[s] + 1
           D == Dying(sessions[s], v.list)
<1>1. Begin(s, "MT_CLOSE")
  BY Zenon DEF ExecuteClose
<1>2. v.type = "MT_CLOSE"
  BY <1>1, BeginOK, Zenon
<1>3. /\ h[i].sessions = Without(sessions[s], D)
      /\ ~refused[s] => h[i].nodes = KillAll(tree[s].nodes, Owned(tree[s].nodes, D), i)
      /\ closing[s].paths = {} /\ i > 0 /\ i - 1 = applied[s]
      /\ sessions[s] = h[applied[s]].sessions
  <2>1. /\ AfterSessions(sessions[s], v, i) = Without(sessions[s], D)
        /\ AfterNodes(tree[s].nodes, sessions[s], v, i)
             = KillAll(tree[s].nodes, Owned(tree[s].nodes, D), i)
    <3> HIDE DEF v, i
    <3> QED BY <1>2 DEF AfterNodes, AfterSessions
  <2>2. /\ h[i].sessions = AfterSessions(sessions[s], v, i)
        /\ ~refused[s] => h[i].nodes = AfterNodes(tree[s].nodes, sessions[s], v, i)
        /\ closing[s].paths = {} /\ i > 0 /\ i - 1 = applied[s]
        /\ sessions[s] = h[applied[s]].sessions
    BY <1>1, BeginPast, Zenon
  <2> HIDE DEF v, i, D
  <2> QED BY <2>1, <2>2, Zenon
<1>4. closing[s] \in [rest : Seq(Fence), paths : SUBSET Path]
  BY Zenon DEF IInv, Replica
<1>5. closing'[s].rest = v.list /\ closing'[s].paths = {}
  BY <1>3, <1>4, Zenon DEF ExecuteClose, IInv
<1>6. /\ OthersUnchanged(s) /\ tree' = tree /\ sessions' = sessions /\ refused' = refused
      /\ applied'[s] = i /\ log' = log /\ snapshot' = snapshot /\ checkpoint' = checkpoint
  BY <1>1, BeginOK, Zenon DEF ExecuteClose, OthersUnchanged, IInv
<1>7. Follows(h, tree[s], sessions[s], i, closing'[s], refused[s])
  <2>1. {} \cup Owned(tree[s].nodes, D) = Owned(tree[s].nodes, D)
    BY Zenon
  <2>2. Submap(sessions[s], h[i - 1].sessions)
    <3> HIDE DEF i
    <3> QED BY <1>3, Zenon DEF Submap
  <2> HIDE DEF i
  <2> QED BY <1>3, <1>5, <2>1, <2>2, Zenon DEF Follows
<1>8. DoneAt(log, tree[s], sessions[s], i, closing'[s])
  BY <1>5, Zenon DEF DoneAt, Done, NextValue
<1>9. /\ Records(h, snapshot[s]) /\ DoneIn(log, snapshot[s])
      /\ Records(h, checkpoint[s]) /\ DoneIn(log, checkpoint[s])
  BY <1>1, BeginPast, Zenon
<1>10. Past(h, log, tree'[s], sessions'[s], applied'[s], closing'[s],
            snapshot'[s], checkpoint'[s], refused'[s])
  BY <1>6, <1>7, <1>8, <1>9, Zenon DEF Past
<1> QED BY <1>6, <1>10, StepPast, Zenon

\* The index has the nodes of a session, between kills.
LEMMA OwnedOK ==
  ASSUME NEW t, IsTree(t), WellFormed(t, {}), NEW sid \in SessionId
  PROVE  EphemeralPaths(t, sid) = Owned(t.nodes, {sid})
<1>1. EphemeralsIndexed(t, {}) /\ sid # 0
  BY SessionAssumption, Zenon DEF WellFormed
<1>2. ASSUME NEW p \in EphemeralPaths(t, sid) PROVE p \in Owned(t.nodes, {sid})
  BY <1>1, <1>2, Zenon DEF EphemeralsIndexed, EphemeralPaths, SetAt, Owned
<1>3. ASSUME NEW p \in Owned(t.nodes, {sid}) PROVE p \in EphemeralPaths(t, sid)
  BY <1>1, <1>3, Zenon DEF EphemeralsIndexed, EphemeralPaths, Owned
<1> QED BY <1>2, <1>3, Zenon

\* CloseSession of the next session of the list, and the first half of its
\* KillSession.
LEMMA CloseNextPast ==
  ASSUME IInv, NEW h, Pasts(h), NEW s \in Server, CloseNext(s)
  PROVE  Pasts(h)'
<1> DEFINE t == tree[s]
           N == t.nodes
           m == sessions[s]
           a == applied[s]
           rest == closing[s].rest
           f == Head(rest)
           sid == f.session_id
           dead == CloseSessionOK(m, sid, f.version)
           k == CloseSession(m, sid, f.version)
           D == Dying(m, rest)
           E == Dying(k, Tail(rest))
           paths == IF dead THEN EphemeralPaths(t, sid) ELSE {}
<1>1. /\ IsTree(t) /\ WellFormed(t, {}) /\ IsMap(m, SessionId, Nat)
      /\ rest # << >> /\ closing[s].paths = {} /\ rest \in Seq(Fence)
  BY Zenon DEF IInv, Replica, CloseNext
<1>2. Past(h, log, t, m, a, closing[s], snapshot[s], checkpoint[s], refused[s])
  BY Zenon DEF Pasts
<1>3. /\ OthersUnchanged(s) /\ applied' = applied /\ snapshot' = snapshot
      /\ checkpoint' = checkpoint /\ refused' = refused /\ log' = log
      /\ sessions'[s] = k /\ closing'[s].rest = Tail(rest) /\ closing'[s].paths = paths
  BY Zenon DEF CloseNext, OthersUnchanged, IInv
<1>4. tree'[s].nodes = N
  <2>1. ForgetEphemerals(t, sid).nodes = N
    BY <1>1, Zenon DEF ForgetEphemerals, IsTree
  <2>2. tree'[s] = IF dead THEN ForgetEphemerals(t, sid) ELSE t
    BY Zenon DEF CloseNext, IInv
  <2> HIDE DEF t, sid
  <2> QED BY <2>1, <2>2, Zenon
<1>5. /\ dead => D = E \cup {sid}
      /\ ~dead => D = E /\ sid \in DOMAIN m
      /\ Without(k, E) = Without(m, D)
  <2> HIDE DEF m, rest
  <2> QED BY <1>1, DyingTail, Zenon
<1>6. sid \in SessionId
  <2>1. f \in Fence
    BY <1>1
  <2> QED BY <2>1, Zenon DEF Fence
<1>7. dead => paths = Owned(N, {sid})
  BY <1>1, <1>6, OwnedOK, Zenon
<1>8. ~dead => paths = {}
  BY Zenon
<1>9. \A x \in DOMAIN m : x \in DOMAIN k \/ (dead /\ x = sid)
  BY Zenon DEF CloseSession, Erase
<1>10. \A x \in DOMAIN k : x \in DOMAIN m /\ k[x] = m[x]
  BY Zenon DEF CloseSession, Erase
<1>11. \A i \in DOMAIN rest : rest[i] = f \/ \E j \in DOMAIN Tail(rest) : Tail(rest)[j] = rest[i]
  <2> HIDE DEF rest
  <2>1. ASSUME NEW i \in DOMAIN rest, i # 1
        PROVE  i - 1 \in DOMAIN Tail(rest) /\ Tail(rest)[i - 1] = rest[i]
    BY <1>1, <2>1
  <2>2. f = rest[1]
    BY <1>1
  <2> QED BY <2>1, <2>2, Zenon
<1> HIDE DEF N, t, m, a, rest, f, sid, dead, k, D, E, paths
<1>12. Owned(N, D) = paths \cup Owned(N, E)
  <2>1. CASE dead
    BY <1>5, <1>7, <2>1, Zenon DEF Owned
  <2>2. CASE ~dead
    BY <1>5, <1>8, <2>2, Zenon
  <2> QED BY <2>1, <2>2, Zenon
<1>13. /\ Without(m, D) = h[a].sessions
       /\ ~refused[s] => KillAll(N, Owned(N, D), a) = h[a].nodes
       /\ a > 0 /\ Submap(m, h[a - 1].sessions)
  <2>1. Follows(h, t, m, a, closing[s], refused[s])
    BY <1>2, Zenon DEF Past
  <2>2. {} \cup Owned(N, D) = Owned(N, D)
    BY Zenon
  <2> QED BY <1>1, <2>1, <2>2, Zenon DEF Follows, rest, D, N
<1>14. Follows(h, tree'[s], k, a, closing'[s], refused[s])
  <2>1. Submap(k, h[a - 1].sessions)
    BY <1>10, <1>13, Zenon DEF Submap
  <2> QED BY <1>3, <1>4, <1>5, <1>12, <1>13, <2>1, Zenon DEF Follows, E
<1>15. DoneAt(log, tree'[s], k, a, closing'[s])
  <2> SUFFICES ASSUME a > 0, log[a].type = "MT_CLOSE", NEW i \in DOMAIN log[a].list
               PROVE  \/ \E j \in DOMAIN Tail(rest) : Tail(rest)[j] = log[a].list[i]
                      \/ log[a].list[i].session_id \in DOMAIN k
                      \/ Owned(N, {log[a].list[i].session_id}) \subseteq paths
    <3>1. ASSUME a > 0 PROVE Done(N, k, Tail(rest), paths, log[a])
      BY <3>1, Zenon DEF Done
    <3> QED BY <1>3, <1>4, <3>1, Zenon DEF DoneAt
  <2> DEFINE e == log[a].list[i]
  <2>1. \/ \E j \in DOMAIN rest : rest[j] = e
        \/ e.session_id \in DOMAIN m
        \/ Owned(N, {e.session_id}) \subseteq {}
    BY <1>1, <1>2, Zenon DEF Past, DoneAt, Done, rest, N
  <2> HIDE DEF e
  <2>2. e = f \/ (\E j \in DOMAIN Tail(rest) : Tail(rest)[j] = e) \/ e.session_id \in DOMAIN m
          \/ Owned(N, {e.session_id}) \subseteq paths
    BY <1>11, <2>1, Zenon
  <2>3. CASE e.session_id \in DOMAIN m
    BY <1>7, <1>9, <2>3, Zenon DEF e
  <2>4. CASE e = f
    <3>1. e.session_id = sid
      BY <2>4, Zenon DEF sid
    <3>2. CASE dead
      BY <1>7, <3>1, <3>2, Zenon DEF e
    <3>3. CASE ~dead
      BY <1>5, <2>3, <3>1, <3>3, Zenon
    <3> QED BY <3>2, <3>3, Zenon
  <2> QED BY <2>2, <2>3, <2>4, Zenon DEF e
<1>16. Past(h, log, tree'[s], sessions'[s], applied'[s], closing'[s],
            snapshot'[s], checkpoint'[s], refused'[s])
  BY <1>2, <1>3, <1>14, <1>15, Zenon DEF Past, a
<1> QED BY <1>3, <1>16, StepPast, Zenon

\* One round of KillSession's loop.
LEMMA KillNextPast ==
  ASSUME IInv, NEW h, Pasts(h), NEW s \in Server, NEW p \in closing[s].paths, KillNext(s, p)
  PROVE  Pasts(h)'
<1> DEFINE t == tree[s]
           N == t.nodes
           m == sessions[s]
           a == applied[s]
           K == closing[s].paths
           rest == closing[s].rest
           D == Dying(m, rest)
           u == RemoveNode(t, p, a)
           M == u.nodes
           L == K \cup Owned(N, D)
<1>1. /\ IsTree(t) /\ WellFormed(t, K) /\ Killable(t, m, K) /\ a \in Nat
      /\ closing[s] \in [rest : Seq(Fence), paths : SUBSET Path]
  <2>1. Replica(t, m, a, closing[s], snapshot[s], checkpoint[s], refused[s], Len(log))
    BY Zenon DEF IInv
  <2>2. a \in 0 .. Len(log)
    BY <2>1, Zenon DEF Replica
  <2> HIDE DEF a
  <2> QED BY <2>1, <2>2 DEF Replica
<1>2. Past(h, log, t, m, a, closing[s], snapshot[s], checkpoint[s], refused[s])
  BY Zenon DEF Pasts
<1>3. DeleteCode(t, p, -1) = "RC_OK"
  BY <1>1, KillNotRefused, Zenon
<1>4. /\ OthersUnchanged(s) /\ sessions' = sessions /\ applied' = applied
      /\ snapshot' = snapshot /\ checkpoint' = checkpoint /\ refused' = refused /\ log' = log
  BY Zenon DEF KillNext, OthersUnchanged, IInv
<1>5. tree'[s] = u
  BY <1>3, Zenon DEF KillNext, Delete, KillRequest, IInv
<1>6. closing'[s].rest = rest /\ closing'[s].paths = K \ {p}
  BY <1>1, Zenon DEF KillNext, IInv
<1>7. DOMAIN M = DOMAIN N \ {p} /\ \A q \in DOMAIN M : M[q].ephemeral_id = N[q].ephemeral_id
  <2>1. p \in Path
    BY <1>1, Zenon
  <2>2. DOMAIN u.nodes = DOMAIN t.nodes \ {p} /\ SameButFor(t, u, p)
    <3>1. PICK v : DeleteCode(t, p, v) = "RC_OK"
      BY <1>3, Zenon
    <3> QED BY <1>1, <2>1, <3>1, RemoveNodeOK, Zenon
  <2> HIDE DEF u, t
  <2> QED BY <2>2, Zenon DEF SameButFor
<1>8. \A x : Owned(M, x) = Owned(N, x) \ {p}
  <2> HIDE DEF M, N
  <2>1. \A x, q : q \in Owned(M, x) <=> q \in Owned(N, x) /\ q # p
    BY <1>7, Zenon DEF Owned
  <2> QED BY <2>1, Zenon
<1>9. (K \ {p}) \cup Owned(M, D) = L \ {p} /\ p \in L
  <2> HIDE DEF M, N, D
  <2> QED BY <1>8, Zenon
<1>10. \A q \in L : q \in DOMAIN N /\ IsEphemeral(N[q].type)
  <2>1. \A q \in K : q \in DOMAIN N /\ IsEphemeral(N[q].type)
    BY <1>1, Zenon DEF Killable
  <2>2. D \subseteq SessionId
    BY Zenon DEF Dying
  <2>3. \A q \in Owned(N, D) : q \in DOMAIN N /\ N[q].ephemeral_id # 0
    BY <2>2, SessionAssumption, Zenon DEF Owned
  <2>4. \A q \in Owned(N, D) : q \in DOMAIN N /\ IsEphemeral(N[q].type)
    BY <1>1, <2>3, Zenon DEF WellFormed, EphemeralsIndexed
  <2> HIDE DEF D, N
  <2> QED BY <2>1, <2>4, Zenon
<1>11. KillAll(M, L \ {p}, a) = KillAll(N, L, a)
  <2> HIDE DEF L, a, K, t
  <2> QED BY <1>1, <1>9, <1>10, KillOne, ZenonT(30)
<1> HIDE DEF L, M, N, u, D, t, m, a, rest
<1>12. Follows(h, u, m, a, closing'[s], refused[s])
  <2>1. Follows(h, t, m, a, closing[s], refused[s])
    BY <1>2, Zenon DEF Past
  <2>2. a > 0 /\ Submap(m, h[a - 1].sessions)
    BY <2>1, Zenon DEF Follows
  <2> QED BY <1>6, <1>9, <1>11, <2>1, <2>2, Zenon DEF Follows, M, N, L, D, rest
<1>13. DoneAt(log, u, m, a, closing'[s])
  <2>1. ASSUME NEW x, Owned(N, {x}) \subseteq K PROVE Owned(M, {x}) \subseteq K \ {p}
    BY <1>8, <2>1, Zenon
  <2>2. DoneAt(log, t, m, a, closing[s])
    BY <1>2, Zenon DEF Past
  <2> QED BY <1>6, <2>1, <2>2, Zenon DEF DoneAt, Done, M, N, rest
<1>14. Past(h, log, tree'[s], sessions'[s], applied'[s], closing'[s],
            snapshot'[s], checkpoint'[s], refused'[s])
  BY <1>2, <1>4, <1>5, <1>12, <1>13, Zenon DEF Past, a, m
<1> QED BY <1>4, <1>14, StepPast, Zenon

\* A checkpoint is taken between two instances and restores the nodes.
LEMMA MakeCheckpointPast ==
  ASSUME IInv, NEW h, Pasts(h), NEW s \in Server, MakeCheckpoint(s)
  PROVE  Pasts(h)'
<1> DEFINE t == tree[s]
           m == sessions[s]
           a == applied[s]
           ck == [instance_id |-> a, nodes |-> GetDataNodeList(t), sessions |-> m,
                  refused |-> refused[s]]
<1>1. /\ IsTree(t) /\ WellFormed(t, {}) /\ IsMap(m, SessionId, Nat)
      /\ closing[s].rest = << >> /\ closing[s].paths = {}
  BY Zenon DEF IInv, Replica, MakeCheckpoint, Idle
<1>2. Past(h, log, t, m, a, closing[s], snapshot[s], checkpoint[s], refused[s])
  BY Zenon DEF Pasts
<1>3. /\ OthersUnchanged(s) /\ tree' = tree /\ sessions' = sessions /\ applied' = applied
      /\ closing' = closing /\ checkpoint' = checkpoint /\ refused' = refused /\ log' = log
      /\ snapshot'[s] = ck
  BY Zenon DEF MakeCheckpoint, OthersUnchanged, IInv
<1>4. Recover(EmptyTree, GetDataNodeList(t)).nodes = t.nodes
  BY <1>1, RecoverParts, Zenon
<1>5. /\ ck.instance_id = a /\ ck.sessions = m /\ ck.refused = refused[s]
      /\ Recover(EmptyTree, ck.nodes).nodes = t.nodes
  BY <1>4, Zenon
<1> HIDE DEF ck, t, m, a
<1>6. m = h[a].sessions /\ (~refused[s] => t.nodes = h[a].nodes)
  <2>1. Follows(h, t, m, a, closing[s], refused[s])
    BY <1>2, Zenon DEF Past
  <2>2. Settled(closing[s])
    BY <1>1, Zenon DEF Settled
  <2>3. At(h, t, m, a, refused[s])
    BY <1>1, <2>1, <2>2, FollowsIdle, Zenon
  <2> QED BY <2>3, Zenon DEF At
<1>7. Records(h, ck)
  BY <1>5, <1>6, Zenon DEF Records
<1>8. DoneIn(log, ck)
  <2>1. DoneAt(log, t, m, a, closing[s])
    BY <1>2, Zenon DEF Past
  <2> QED BY <1>1, <1>5, <2>1, Zenon DEF DoneAt, DoneIn
<1>9. Past(h, log, tree'[s], sessions'[s], applied'[s], closing'[s],
           snapshot'[s], checkpoint'[s], refused'[s])
  BY <1>2, <1>3, <1>7, <1>8, Zenon DEF Past, t, m, a
<1> QED BY <1>3, <1>9, StepPast, Zenon

\* Before the first checkpoint a restart finds what the history starts with.
LEMMA NoCheckpointPast ==
  ASSUME NEW h, NEW l, History(h, l)
  PROVE  Records(h, NoCheckpoint) /\ DoneIn(l, NoCheckpoint)
<1>1. Recover(EmptyTree, {}) = EmptyTree
  BY Zenon DEF Recover, EmptyTree, EmptyMap, SetAt
<1>2. /\ NoCheckpoint.instance_id = 0 /\ NoCheckpoint.nodes = {}
      /\ NoCheckpoint.sessions = EmptyMap
  BY Zenon DEF NoCheckpoint
<1>3. ~(0 > 0)
  OBVIOUS
<1> QED BY <1>1, <1>2, <1>3, Zenon DEF Records, DoneIn, History

\* The loop finishes a checkpoint, or fails to.
LEMMA WriteCheckpointPast ==
  ASSUME IInv, NEW h, Pasts(h), NEW s \in Server, NEW success \in BOOLEAN,
         WriteCheckpoint(s, success)
  PROVE  Pasts(h)'
<1>1. /\ OthersUnchanged(s) /\ tree' = tree /\ sessions' = sessions /\ applied' = applied
      /\ closing' = closing /\ refused' = refused /\ log' = log
      /\ snapshot'[s] = NoCheckpoint
      /\ checkpoint'[s] \in {snapshot[s], checkpoint[s]}
  BY Zenon DEF WriteCheckpoint, OthersUnchanged, IInv
<1>2. Past(h, log, tree[s], sessions[s], applied[s], closing[s],
           snapshot[s], checkpoint[s], refused[s])
  BY Zenon DEF Pasts
<1>3. Records(h, NoCheckpoint) /\ DoneIn(log, NoCheckpoint)
  BY NoCheckpointPast, Zenon DEF Pasts
<1>4. Past(h, log, tree'[s], sessions'[s], applied'[s], closing'[s],
           snapshot'[s], checkpoint'[s], refused'[s])
  BY <1>1, <1>2, <1>3, Zenon DEF Past
<1> QED BY <1>1, <1>4, StepPast, Zenon

\* A crash, and the recovery from the last finished checkpoint.
LEMMA RestartPast ==
  ASSUME IInv, IInv', NEW h, Pasts(h), NEW s \in Server, Restart(s)
  PROVE  Pasts(h)'
<1> DEFINE ck == checkpoint[s]
           u == Recover(EmptyTree, ck.nodes)
<1>1. /\ OthersUnchanged(s) /\ log' = log /\ tree'[s] = u /\ sessions'[s] = ck.sessions
      /\ applied'[s] = ck.instance_id /\ closing'[s] = NotClosing
      /\ snapshot'[s] = NoCheckpoint /\ checkpoint'[s] = ck /\ refused'[s] = ck.refused
  BY Zenon DEF Restart, OthersUnchanged, IInv
<1>2. Records(h, ck) /\ DoneIn(log, ck)
  BY Zenon DEF Pasts, Past
<1>3. Records(h, NoCheckpoint) /\ DoneIn(log, NoCheckpoint)
  BY NoCheckpointPast, Zenon DEF Pasts
<1>4. NotClosing.rest = << >> /\ NotClosing.paths = {}
  BY Zenon DEF NotClosing
<1>5. IsTree(u) /\ IsMap(ck.sessions, SessionId, Nat)
  <2>1. IsTree(tree'[s]) /\ IsMap(sessions'[s], SessionId, Nat)
    BY Zenon DEF IInv, Replica
  <2> QED BY <1>1, <2>1, Zenon
<1>6. ck.sessions = h[ck.instance_id].sessions
      /\ (~ck.refused => u.nodes = h[ck.instance_id].nodes)
  BY <1>2, Zenon DEF Records
<1>7. DoneAt(log, u, ck.sessions, ck.instance_id, NotClosing)
  BY <1>2, <1>4, Zenon DEF DoneAt, DoneIn
<1> HIDE DEF u, ck
<1>8. Follows(h, u, ck.sessions, ck.instance_id, NotClosing, ck.refused)
  <2>1. Settled(NotClosing) /\ At(h, u, ck.sessions, ck.instance_id, ck.refused)
    BY <1>4, <1>6, Zenon DEF Settled, At
  <2> QED BY <1>5, <2>1, FollowsIdle, Zenon
<1>9. Past(h, log, tree'[s], sessions'[s], applied'[s], closing'[s],
           snapshot'[s], checkpoint'[s], refused'[s])
  BY <1>1, <1>2, <1>3, <1>7, <1>8, Zenon DEF Past
<1> QED BY <1>1, <1>9, StepPast, Zenon
-----------------------------------------------------------------------------
(* The versions of the sessions.                                           *)

\* The version of a session in the table of a replica is that of one of its
\* connects.
LEMMA TableSound ==
  ASSUME IInv, NEW h, Pasts(h), Fences(h), NEW s \in Server, NEW sid \in DOMAIN sessions[s]
  PROVE  LET v == sessions[s][sid]
         IN  /\ sid \in SessionId /\ v \in 1 .. applied[s] /\ v \in 1 .. Len(log)
             /\ log[v].type = "MT_CONNECT" /\ log[v].session_id = sid
             /\ \A i \in v + 1 .. applied[s] :
                  i < applied[s] \/ Idle(s) => ~CarriedBy(log[i], sid, v)
             /\ \A i \in 1 .. v - 1 : ~CarriedBy(log[i], sid, log[v].version)
<1> DEFINE m == sessions[s]
           a == applied[s]
           v == m[sid]
<1>1. /\ IsTree(tree[s]) /\ IsMap(m, SessionId, Nat) /\ a \in 0 .. Len(log)
      /\ Follows(h, tree[s], m, a, closing[s], refused[s])
  BY Zenon DEF IInv, Replica, Pasts, Past
<1>2. Len(log) \in Nat
  BY DEF IInv
<1>3. PICK n \in 0 .. a : /\ sid \in DOMAIN h[n].sessions /\ h[n].sessions[sid] = v
                          /\ n = a \/ (n = a - 1 /\ ~Idle(s))
  <2>1. CASE closing[s].rest = << >> /\ closing[s].paths = {}
    <3>1. m = h[a].sessions
      <4> HIDE DEF m, a
      <4>1. Settled(closing[s])
        BY <2>1, Zenon DEF Settled
      <4>2. At(h, tree[s], m, a, refused[s])
        BY <1>1, <4>1, FollowsIdle, Zenon
      <4> QED BY <4>2, Zenon DEF At
    <3>2. a \in 0 .. a
      <4> HIDE DEF a
      <4> QED BY <1>1, <1>2
    <3> HIDE DEF m, a
    <3> QED BY <3>1, <3>2, Zenon DEF m, v
  <2>2. CASE ~(closing[s].rest = << >> /\ closing[s].paths = {})
    <3>1. a > 0 /\ Submap(m, h[a - 1].sessions)
      BY <1>1, <2>2, Zenon DEF Follows
    <3>2. a - 1 \in 0 .. a
      <4> HIDE DEF a
      <4>1. a \in 0 .. Len(log)
        BY <1>1, Zenon
      <4> QED BY <1>2, <3>1, <4>1
    <3>3. sid \in DOMAIN h[a - 1].sessions /\ h[a - 1].sessions[sid] = v
      BY <3>1, Zenon DEF Submap
    <3> HIDE DEF a, v
    <3> QED BY <2>2, <3>2, <3>3, Zenon DEF Idle
  <2> QED BY <2>1, <2>2, Zenon
<1> HIDE DEF m, a, v
<1>4. n \in 0 .. Len(log)
  BY <1>1, <1>2, <1>3
<1>5. Fenced(log, h[n].sessions, n)
  BY <1>4, Zenon DEF Fences
<1>6. /\ sid \in SessionId /\ v \in 1 .. n
      /\ log[v].type = "MT_CONNECT" /\ log[v].session_id = sid
      /\ \A i \in v + 1 .. n : ~CarriedBy(log[i], sid, v)
      /\ \A i \in 1 .. v - 1 : ~CarriedBy(log[i], sid, log[v].version)
  BY <1>3, <1>5, Zenon DEF Fenced
<1>7. v \in 1 .. a /\ v \in 1 .. Len(log)
  <2>1. a \in 0 .. Len(log) /\ n \in 0 .. a /\ v \in 1 .. n
    BY <1>1, <1>3, <1>6, Zenon
  <2> HIDE DEF v, a
  <2> QED BY <1>2, <2>1
<1>8. ASSUME NEW i \in v + 1 .. a, i < a \/ Idle(s) PROVE i \in v + 1 .. n
  <2>1. CASE n = a
    BY <2>1, Zenon
  <2>2. CASE n = a - 1 /\ ~Idle(s)
    <3>1. i < a
      BY <1>8, <2>2, Zenon
    <3>2. a \in 0 .. Len(log) /\ v \in 1 .. n
      BY <1>1, <1>6, Zenon
    <3> QED BY <1>2, <2>2, <3>1, <3>2, SMTT(30)
  <2> QED BY <1>3, <2>1, <2>2, Zenon
<1>9. \A i \in v + 1 .. a : i < a \/ Idle(s) => ~CarriedBy(log[i], sid, v)
  BY <1>6, <1>8, Zenon
<1> QED BY <1>6, <1>7, <1>9, Zenon DEF m, a, v

\* A proposal with sound versions, whose new session, if it is for one, has not
\* been drawn before.
LEMMA ProposeFences ==
  ASSUME NEW h, Fences(h), NEW v, log' = log, proposed' \subseteq proposed \cup {v},
         Sound(log, v, Len(log) + 1),
         \A i \in 1 .. Len(log) : \A sid :
           ~(CarriedBy(v, sid, 0) /\ CarriedBy(log[i], sid, 0))
  PROVE  Fences(h)'
<1>1. \A w \in proposed' : w \in proposed \/ w = v
  BY Zenon
<1>2. \A w \in proposed' : Sound(log, w, Len(log) + 1)
  BY <1>1, Zenon DEF Fences
<1>3. \A w \in proposed' : \A i \in 1 .. Len(log) : \A sid :
        ~(CarriedBy(w, sid, 0) /\ CarriedBy(log[i], sid, 0))
  BY <1>1, Zenon DEF Fences
<1> QED BY <1>2, <1>3, Zenon DEF Fences

\* The values of the writes, and a step that proposes at most this value.
Write(v) == v.type \in {"MT_CREATE", "MT_DELETE", "MT_SETDATA"}

Proposes(v) == log' = log /\ proposed' \subseteq proposed \cup {v}

\* A write carries no version.
LEMMA WriteFences ==
  ASSUME NEW h, Fences(h), NEW v, Write(v), Proposes(v)
  PROVE  Fences(h)'
<1>2. v.type # "MT_CONNECT" /\ v.type # "MT_CLOSE"
  BY DEF Write
<1>3. \A x, version : ~CarriedBy(v, x, version)
  BY <1>2, Zenon DEF CarriedBy
<1>4. Sound(log, v, Len(log) + 1)
  BY <1>3, Zenon DEF Sound
<1> QED BY <1>3, <1>4, ProposeFences, Zenon DEF Proposes

\* A connect carries the version of the table, or is the first of its session.
LEMMA ConnectFences ==
  ASSUME IInv, NEW h, Pasts(h), Fences(h), NEW s \in Server, NEW sid \in SessionId,
         ProposeConnect(s, sid)
  PROVE  Fences(h)'
<1> DEFINE ver == IF sid \in DOMAIN sessions[s] THEN sessions[s][sid] ELSE 0
           v == ConnectValue(sid, ver)
<1>1. proposed' = proposed \cup {v} /\ log' = log
  BY Zenon DEF ProposeConnect, Propose
<1>2. v.type = "MT_CONNECT" /\ v.session_id = sid /\ v.version = ver
  BY Zenon DEF ConnectValue
<1>3. Len(log) \in Nat
  BY DEF IInv
<1>4. CASE sid \in DOMAIN sessions[s]
  <2>1. /\ ver \in 1 .. Len(log)
        /\ log[ver].type = "MT_CONNECT" /\ log[ver].session_id = sid
    BY <1>4, TableSound, Zenon
  <2> HIDE DEF ver, v
  <2>2. \A x, y : CarriedBy(v, x, y) => x = sid /\ y = ver
    BY <1>2 DEF CarriedBy
  <2>3. ver # 0 /\ ver \in 0 .. (Len(log) + 1) - 1
    BY <1>3, <2>1
  <2>4. Sound(log, v, Len(log) + 1)
    BY <2>1, <2>2, <2>3, Zenon DEF Sound
  <2>5. \A x : ~CarriedBy(v, x, 0)
    BY <2>2, <2>3, Zenon
  <2> QED BY <1>1, <2>4, <2>5, ProposeFences, Zenon
<1>5. CASE sid \notin DOMAIN sessions[s]
  <2>1. ver = 0 /\ ~Drawn(sid)
    BY <1>5, Zenon DEF ProposeConnect
  <2> HIDE DEF ver, v
  <2>2. \A x, y : CarriedBy(v, x, y) => x = sid /\ y = 0
    BY <1>2, <2>1, ConnectCarries, Zenon
  <2>3. 0 \in 0 .. (Len(log) + 1) - 1
    BY <1>3
  <2>4. Sound(log, v, Len(log) + 1)
    BY <1>2, <2>2, <2>3, Zenon DEF Sound
  <2>5. ASSUME NEW i \in 1 .. Len(log), NEW x,
               CarriedBy(v, x, 0), CarriedBy(log[i], x, 0)
        PROVE  FALSE
    <3>1. x = sid
      BY <2>2, <2>5, Zenon
    <3>2. Sound(log, log[i], i)
      BY Zenon DEF Fences
    <3>3. log[i].type = "MT_CONNECT"
      BY <2>5, <3>2, Zenon DEF Sound
    <3>4. log[i].session_id = sid
      BY <2>5, <3>1, <3>3, ConnectCarries, Zenon
    <3> QED BY <2>1, <3>3, <3>4, Zenon DEF Drawn
  <2> QED BY <1>1, <2>4, <2>5, ProposeFences, Zenon
<1> QED BY <1>4, <1>5, Zenon

\* A close carries the versions of the table.
LEMMA CloseFences ==
  ASSUME IInv, NEW h, Pasts(h), Fences(h), NEW s \in Server, NEW list \in CloseLists(s),
         ProposeClose(s, list)
  PROVE  Fences(h)'
<1> DEFINE v == CloseValue(list)
<1>1. proposed' = proposed \cup {v} /\ log' = log
  BY Zenon DEF ProposeClose, Propose
<1>2. v.type = "MT_CLOSE" /\ v.list = list
  BY Zenon DEF CloseValue
<1>3. Len(log) \in Nat
  BY DEF IInv
<1>4. \A j \in DOMAIN list : \E x \in DOMAIN sessions[s] :
        list[j] = [session_id |-> x, version |-> sessions[s][x]]
  <2> DEFINE live == {[session_id |-> x, version |-> sessions[s][x]] : x \in DOMAIN sessions[s]}
  <2>1. PICK n \in 1 .. Cardinality(live) : list \in [1 .. n -> live]
    BY Zenon DEF CloseLists
  <2>2. \A j \in DOMAIN list : list[j] \in live
    <3> HIDE DEF live
    <3> QED BY <2>1, Zenon
  <2> QED BY <2>2, Zenon
<1> HIDE DEF v
<1>5. ASSUME NEW x, NEW y, CarriedBy(v, x, y)
      PROVE  x \in DOMAIN sessions[s] /\ y = sessions[s][x]
  <2>1. PICK j \in DOMAIN list : list[j] = [session_id |-> x, version |-> y]
    BY <1>2, <1>5, SMTT(30) DEF CarriedBy
  <2>2. PICK z \in DOMAIN sessions[s] :
          list[j] = [session_id |-> z, version |-> sessions[s][z]]
    BY <1>4, Zenon
  <2>3. /\ [session_id |-> x, version |-> y].session_id = x
        /\ [session_id |-> x, version |-> y].version = y
        /\ [session_id |-> z, version |-> sessions[s][z]].session_id = z
        /\ [session_id |-> z, version |-> sessions[s][z]].version = sessions[s][z]
    BY Zenon
  <2> QED BY <2>1, <2>2, <2>3, Zenon
<1>6. ASSUME NEW x, NEW y, CarriedBy(v, x, y)
      PROVE  /\ y \in 0 .. (Len(log) + 1) - 1 /\ y # 0
             /\ log[y].type = "MT_CONNECT" /\ log[y].session_id = x
  <2>1. /\ y \in 1 .. Len(log)
        /\ log[y].type = "MT_CONNECT" /\ log[y].session_id = x
    <3>1. x \in DOMAIN sessions[s] /\ y = sessions[s][x]
      BY <1>5, <1>6, Zenon
    <3>2. LET z == sessions[s][x]
          IN  /\ z \in 1 .. Len(log)
              /\ log[z].type = "MT_CONNECT" /\ log[z].session_id = x
      BY <3>1, TableSound, Zenon
    <3> QED BY <3>1, <3>2, Zenon
  <2> QED BY <1>3, <2>1
<1>7. Sound(log, v, Len(log) + 1)
  BY <1>6, Zenon DEF Sound
<1>8. \A x : ~CarriedBy(v, x, 0)
  BY <1>6, Zenon
<1> QED BY <1>1, <1>7, <1>8, ProposeFences, Zenon
-----------------------------------------------------------------------------
(* The log grows.                                                          *)

\* The fences of the next table, when value v becomes instance n + 1.
LEMMA FencedNext ==
  ASSUME NEW l, NEW n \in Nat, NEW m, Fenced(l, m, n), NEW v, l[n + 1] = v,
         v \in Value,
         Sound(l, v, n + 1), \A i \in 1 .. n : Sound(l, l[i], i),
         \A i \in 1 .. n : \A sid : ~(CarriedBy(v, sid, 0) /\ CarriedBy(l[i], sid, 0))
  PROVE  Fenced(l, AfterSessions(m, v, n + 1), n + 1)
<1> DEFINE k == AfterSessions(m, v, n + 1)
           Good(sid, ver) ==
             /\ ver \in 1 .. n + 1
             /\ l[ver].type = "MT_CONNECT" /\ l[ver].session_id = sid
             /\ \A i \in ver + 1 .. n + 1 : ~CarriedBy(l[i], sid, ver)
             /\ \A i \in 1 .. ver - 1 : ~CarriedBy(l[i], sid, l[ver].version)
<1>1. ASSUME NEW sid \in DOMAIN m, ~CarriedBy(v, sid, m[sid])
      PROVE  Good(sid, m[sid])
  <2> DEFINE ver == m[sid]
  <2>1. /\ ver \in 1 .. n
        /\ l[ver].type = "MT_CONNECT" /\ l[ver].session_id = sid
        /\ \A i \in ver + 1 .. n : ~CarriedBy(l[i], sid, ver)
        /\ \A i \in 1 .. ver - 1 : ~CarriedBy(l[i], sid, l[ver].version)
    BY Zenon DEF Fenced
  <2> HIDE DEF ver
  <2>2. ver \in 1 .. n + 1 /\ \A i \in ver + 1 .. n + 1 : i = n + 1 \/ i \in ver + 1 .. n
    BY <2>1
  <2>3. ~CarriedBy(l[n + 1], sid, ver)
    BY <1>1, Zenon DEF ver
  <2> QED BY <2>1, <2>2, <2>3, Zenon DEF ver
<1> SUFFICES /\ DOMAIN k \subseteq SessionId
             /\ \A sid \in DOMAIN k : Good(sid, k[sid])
  BY Zenon DEF Fenced
<1>2. DOMAIN m \subseteq SessionId
  BY Zenon DEF Fenced
<1>3. CASE v.type = "MT_CONNECT"
  <2> DEFINE id == v.session_id
             old == v.version
  <2>1. k = CreateSession(m, id, n + 1, old)
    BY <1>3 DEF AfterSessions
  <2>2. id \in SessionId /\ CarriedBy(v, id, old)
    BY <1>3, ValueOK, Zenon DEF CarriedBy
  <2>3. \A x, y : CarriedBy(v, x, y) => x = id /\ y = old
    BY <1>3 DEF CarriedBy
  <2>4. CASE CreateSessionOK(m, id, old)
    <3>1. k = Put(m, id, n + 1)
      BY <2>1, <2>4, Zenon DEF CreateSession
    <3>2. DOMAIN k = DOMAIN m \cup {id} /\ k[id] = n + 1 /\ \A x \in DOMAIN m \ {id} : k[x] = m[x]
      <4> HIDE DEF k, id
      <4> QED BY <3>1, Zenon DEF Put
    <3>3. Good(id, n + 1)
      <4>1. n + 1 \in 1 .. n + 1 /\ \A i \in (n + 1) + 1 .. n + 1 : FALSE
        OBVIOUS
      <4>2. ASSUME NEW i \in 1 .. (n + 1) - 1 PROVE ~CarriedBy(l[i], id, old)
        <5>1. i \in 1 .. n
          BY <4>2
        <5>2. CASE old = 0
          BY <2>2, <5>1, <5>2, Zenon
        <5>3. CASE old # 0
          <6>1. id \in DOMAIN m /\ m[id] = old
            BY <2>4, <5>3, Zenon DEF CreateSessionOK
          <6>2. old \in 1 .. n /\ \A j \in old + 1 .. n : ~CarriedBy(l[j], id, old)
            BY <6>1, Zenon DEF Fenced
          <6>3. CarriedBy(l[i], id, old) => old \in 0 .. i - 1
            BY <5>1, Zenon DEF Sound
          <6> HIDE DEF old, id
          <6>4. old \in 0 .. i - 1 => i \in old + 1 .. n
            BY <5>1, <6>2
          <6> QED BY <6>2, <6>3, <6>4, Zenon
        <5> QED BY <5>2, <5>3, Zenon
      <4> QED BY <1>3, <4>1, <4>2, Zenon
    <3>4. ASSUME NEW x \in DOMAIN m \ {id} PROVE Good(x, m[x])
      <4>1. ~CarriedBy(v, x, m[x])
        BY <2>3, Zenon
      <4> QED BY <1>1, <4>1, Zenon
    <3> HIDE DEF k, id, Good
    <3> QED BY <1>2, <2>2, <3>2, <3>3, <3>4, Zenon
  <2>5. CASE ~CreateSessionOK(m, id, old)
    <3>1. k = m
      BY <2>1, <2>5, Zenon DEF CreateSession
    <3>2. ASSUME NEW x \in DOMAIN m PROVE Good(x, m[x])
      <4>1. ~CarriedBy(v, x, m[x])
        BY <2>3, <2>5, Zenon DEF CreateSessionOK
      <4> QED BY <1>1, <4>1, Zenon
    <3> HIDE DEF k, Good
    <3> QED BY <1>2, <3>1, <3>2, Zenon
  <2> QED BY <2>4, <2>5, Zenon
<1>4. CASE v.type = "MT_CLOSE"
  <2> DEFINE D == Dying(m, v.list)
  <2>1. k = Without(m, D)
    BY <1>4 DEF AfterSessions
  <2>2. DOMAIN k = DOMAIN m \ D /\ \A x \in DOMAIN m \ D : k[x] = m[x]
    <3> HIDE DEF k, D
    <3> QED BY <2>1, Zenon DEF Without
  <2>3. ASSUME NEW x \in DOMAIN m \ D PROVE ~CarriedBy(v, x, m[x])
    <3> SUFFICES ASSUME CarriedBy(v, x, m[x]) PROVE FALSE
      BY Zenon
    <3>1. PICK j \in DOMAIN v.list : v.list[j] = [session_id |-> x, version |-> m[x]]
      BY <1>4 DEF CarriedBy
    <3>2. v.list[j].session_id = x /\ v.list[j].version = m[x]
      <4>1. /\ [session_id |-> x, version |-> m[x]].session_id = x
            /\ [session_id |-> x, version |-> m[x]].version = m[x]
        BY Zenon
      <4> QED BY <3>1, <4>1, Zenon
    <3>3. CloseSessionOK(m, x, v.list[j].version)
      BY <3>2, Zenon DEF CloseSessionOK
    <3>4. x \in D
      BY <1>2, <3>2, <3>3, Zenon DEF Dying
    <3> QED BY <3>4, Zenon
  <2> HIDE DEF k, D, Good
  <2> QED BY <1>1, <1>2, <2>2, <2>3, Zenon
<1>5. CASE v.type # "MT_CONNECT" /\ v.type # "MT_CLOSE"
  <2>1. k = m
    BY <1>5, Zenon DEF AfterSessions
  <2>2. \A x, y : ~CarriedBy(v, x, y)
    BY <1>5, Zenon DEF CarriedBy
  <2> HIDE DEF k, Good
  <2> QED BY <1>1, <1>2, <2>1, <2>2, Zenon
<1> QED BY <1>3, <1>4, <1>5, Zenon

\* A longer log says the same of its beginning.
LEMMA LogGrows ==
  ASSUME NEW l, NEW k, NEW n \in Nat, \A i \in 1 .. n : k[i] = l[i]
  PROVE  /\ \A v : Sound(l, v, n + 1) => Sound(k, v, n + 1) /\ Sound(k, v, n + 2)
         /\ \A i \in 1 .. n : Sound(l, l[i], i) => Sound(k, k[i], i)
         /\ \A m : \A i \in 0 .. n : Fenced(l, m, i) => Fenced(k, m, i)
<1>1. ASSUME NEW v, Sound(l, v, n + 1) PROVE Sound(k, v, n + 1) /\ Sound(k, v, n + 2)
  <2>1. \A y \in 0 .. (n + 1) - 1 : y \in 0 .. (n + 2) - 1 /\ (y # 0 => k[y] = l[y])
    OBVIOUS
  <2>2. ASSUME NEW sid, NEW y, CarriedBy(v, sid, y)
        PROVE  /\ y \in 0 .. (n + 1) - 1 /\ y \in 0 .. (n + 2) - 1
               /\ y = 0 => v.type = "MT_CONNECT"
               /\ y # 0 => k[y].type = "MT_CONNECT" /\ k[y].session_id = sid
    <3>1. /\ y \in 0 .. (n + 1) - 1
          /\ y = 0 => v.type = "MT_CONNECT"
          /\ y # 0 => l[y].type = "MT_CONNECT" /\ l[y].session_id = sid
      BY <1>1, <2>2, Zenon DEF Sound
    <3> QED BY <2>1, <3>1, Zenon
  <2> QED BY <2>2, Zenon DEF Sound
<1>2. ASSUME NEW i \in 1 .. n, Sound(l, l[i], i) PROVE Sound(k, k[i], i)
  <2>1. \A y \in 0 .. i - 1 : y # 0 => k[y] = l[y]
    OBVIOUS
  <2>2. k[i] = l[i]
    BY Zenon
  <2>3. ASSUME NEW sid, NEW y, CarriedBy(k[i], sid, y)
        PROVE  /\ y \in 0 .. i - 1
               /\ y = 0 => k[i].type = "MT_CONNECT"
               /\ y # 0 => k[y].type = "MT_CONNECT" /\ k[y].session_id = sid
    <3>1. /\ y \in 0 .. i - 1
          /\ y = 0 => l[i].type = "MT_CONNECT"
          /\ y # 0 => l[y].type = "MT_CONNECT" /\ l[y].session_id = sid
      <4>1. CarriedBy(l[i], sid, y)
        BY <2>2, <2>3, Zenon
      <4> QED BY <1>2, <4>1, Zenon DEF Sound
    <3> QED BY <2>1, <2>2, <3>1, Zenon
  <2> QED BY <2>3, Zenon DEF Sound
<1>3. ASSUME NEW m, NEW i \in 0 .. n, Fenced(l, m, i) PROVE Fenced(k, m, i)
  <2>1. ASSUME NEW sid \in DOMAIN m
        PROVE  /\ m[sid] \in 1 .. i /\ k[m[sid]] = l[m[sid]]
               /\ \A j \in m[sid] + 1 .. i : k[j] = l[j]
               /\ \A j \in 1 .. m[sid] - 1 : k[j] = l[j]
    <3>1. m[sid] \in 1 .. i
      BY <1>3, Zenon DEF Fenced
    <3> QED BY <3>1
  <2> QED BY <1>3, <2>1, Zenon DEF Fenced
<1> QED BY <1>1, <1>2, <1>3, Zenon

\* The log k is l, of length n, and one more value; g is a history of k that
\* continues a history h of l.
Longer(l, k, n) == Len(l) = n /\ Len(k) = n + 1 /\ \A i \in 1 .. n : k[i] = l[i]

Continues(g, h, k, n) ==
  /\ History(g, k)
  /\ \A i \in 0 .. n : g[i] = h[i]
  /\ g[n + 1].sessions = AfterSessions(h[n].sessions, k[n + 1], n + 1)

\* A history can be continued when a value is chosen.
LEMMA HistoryGrows ==
  ASSUME NEW h, NEW l, NEW k, NEW n \in Nat, Longer(l, k, n), History(h, l)
  PROVE  \E g : Continues(g, h, k, n)
<1> DEFINE new == [nodes |-> AfterNodes(h[n].nodes, h[n].sessions, k[n + 1], n + 1),
                   sessions |-> AfterSessions(h[n].sessions, k[n + 1], n + 1)]
           g == [i \in 0 .. n + 1 |-> IF i = n + 1 THEN new ELSE h[i]]
<1>1. g[n + 1] = new /\ \A i \in 0 .. n : g[i] = h[i]
  <2> HIDE DEF new
  <2> QED OBVIOUS
<1>2. /\ new.nodes = AfterNodes(h[n].nodes, h[n].sessions, k[n + 1], n + 1)
      /\ new.sessions = AfterSessions(h[n].sessions, k[n + 1], n + 1)
  BY Zenon
<1> HIDE DEF g, new
<1>3. ASSUME NEW i \in 1 .. n + 1
      PROVE  /\ g[i].nodes = AfterNodes(g[i - 1].nodes, g[i - 1].sessions, k[i], i)
             /\ g[i].sessions = AfterSessions(g[i - 1].sessions, k[i], i)
  <2>1. CASE i = n + 1
    <3>1. (n + 1) - 1 = n /\ n \in 0 .. n
      OBVIOUS
    <3>2. g[n] = h[n]
      BY <1>1, <3>1, Zenon
    <3> QED BY <1>1, <1>2, <2>1, <3>1, <3>2, Zenon
  <2>2. CASE i # n + 1
    <3>1. i \in 1 .. n /\ i \in 0 .. n /\ i - 1 \in 0 .. n
      BY <2>2
    <3>2. g[i] = h[i] /\ g[i - 1] = h[i - 1] /\ k[i] = l[i]
      BY <1>1, <3>1, Zenon DEF Longer
    <3> QED BY <3>1, <3>2, Zenon DEF History, Longer
  <2> QED BY <2>1, <2>2, Zenon
<1>4. g[0] = h[0]
  BY <1>1
<1>5. History(g, k)
  BY <1>3, <1>4, Zenon DEF History, Longer
<1> QED BY <1>1, <1>2, <1>5, Zenon DEF Continues

\* A value is chosen.
LEMMA ChoosePast ==
  ASSUME IInv, NEW h, Pasts(h), Fences(h), NEW v \in proposed, Choose(v)
  PROVE  HInv'
<1> DEFINE n == Len(log)
<1>1. /\ log' = Append(log, v) /\ proposed' = proposed \ {v}
      /\ UNCHANGED <<tree, sessions, applied, closing, snapshot, checkpoint, refused>>
  BY Zenon DEF Choose
<1>2. /\ n \in Nat /\ Len(log') = n + 1 /\ log'[n + 1] = v
      /\ \A i \in 1 .. n : log'[i] = log[i]
  <2>1. log \in Seq(Value) /\ v \in Value
    BY Zenon DEF IInv
  <2> QED BY <1>1, <2>1
<1>3. PICK g : /\ History(g, log')
               /\ \A i \in 0 .. n : g[i] = h[i]
               /\ g[n + 1].sessions = AfterSessions(h[n].sessions, log'[n + 1], n + 1)
  <2>1. PICK l, k : l = log /\ k = log'
    BY Zenon
  <2> HIDE DEF n
  <2>2. Longer(l, k, n) /\ History(h, l)
    BY <1>2, <2>1, Zenon DEF Pasts, Longer, n
  <2>3. \E g : Continues(g, h, k, n)
    BY <1>2, <2>2, HistoryGrows, Zenon
  <2> QED BY <2>1, <2>3, Zenon DEF Continues
<1> HIDE DEF n
<1>4. ASSUME NEW s \in Server
      PROVE  Past(g, log', tree[s], sessions[s], applied[s], closing[s],
                  snapshot[s], checkpoint[s], refused[s])
  <2>1. Past(h, log, tree[s], sessions[s], applied[s], closing[s],
             snapshot[s], checkpoint[s], refused[s])
    BY Zenon DEF Pasts
  <2>2. /\ applied[s] \in 0 .. n /\ snapshot[s].instance_id \in 0 .. n
        /\ checkpoint[s].instance_id \in 0 .. n
    BY Zenon DEF IInv, Replica, IsCheckpoint, n
  <2>3. ASSUME NEW i \in 0 .. n
        PROVE  /\ g[i] = h[i]
               /\ i > 0 => log'[i] = log[i] /\ g[i - 1] = h[i - 1]
    <3>1. g[i] = h[i]
      BY <1>3, Zenon
    <3>2. i > 0 => i \in 1 .. n /\ i - 1 \in 0 .. n
      BY <1>2
    <3> QED BY <1>2, <1>3, <3>1, <3>2, Zenon
  <2>4. Follows(g, tree[s], sessions[s], applied[s], closing[s], refused[s])
        /\ DoneAt(log', tree[s], sessions[s], applied[s], closing[s])
    <3>1. /\ g[applied[s]] = h[applied[s]]
          /\ applied[s] > 0 => /\ log'[applied[s]] = log[applied[s]]
                               /\ g[applied[s] - 1] = h[applied[s] - 1]
      BY <2>2, <2>3, Zenon
    <3> QED BY <2>1, <3>1, Zenon DEF Past, Follows, DoneAt
  <2>5. ASSUME NEW ck, ck.instance_id \in 0 .. n, Records(h, ck), DoneIn(log, ck)
        PROVE  Records(g, ck) /\ DoneIn(log', ck)
    <3>1. /\ g[ck.instance_id] = h[ck.instance_id]
          /\ ck.instance_id > 0 => log'[ck.instance_id] = log[ck.instance_id]
      BY <2>3, <2>5, Zenon
    <3> QED BY <2>5, <3>1, Zenon DEF Records, DoneIn
  <2> QED BY <2>1, <2>2, <2>4, <2>5, Zenon DEF Past
<1>5. Pasts(g)'
  BY <1>1, <1>3, <1>4, Zenon DEF Pasts
<1>6. Fences(g)'
  <2>1. /\ \A w : Sound(log, w, n + 1) => Sound(log', w, n + 1) /\ Sound(log', w, n + 2)
        /\ \A i \in 1 .. n : Sound(log, log[i], i) => Sound(log', log'[i], i)
        /\ \A m : \A i \in 0 .. n : Fenced(log, m, i) => Fenced(log', m, i)
    <3>1. PICK l, k : l = log /\ k = log'
      BY Zenon
    <3>2. \A i \in 1 .. n : k[i] = l[i]
      BY <1>2, <3>1, Zenon
    <3>3. /\ \A w : Sound(l, w, n + 1) => Sound(k, w, n + 1) /\ Sound(k, w, n + 2)
          /\ \A i \in 1 .. n : Sound(l, l[i], i) => Sound(k, k[i], i)
          /\ \A m : \A i \in 0 .. n : Fenced(l, m, i) => Fenced(k, m, i)
      BY <1>2, <3>2, LogGrows, Zenon
    <3> QED BY <3>1, <3>3, Zenon
  <2>2. (n + 1) + 1 = n + 2 /\ (\A i \in 1 .. n + 1 : i = n + 1 \/ i \in 1 .. n)
        /\ (\A i \in 0 .. n + 1 : i = n + 1 \/ i \in 0 .. n) /\ n \in 0 .. n
    BY <1>2
  <2>3. \A w \in proposed' : Sound(log', w, (n + 1) + 1)
    BY <1>1, <2>1, <2>2, Zenon DEF Fences, n
  <2>4. \A i \in 1 .. n + 1 : Sound(log', log'[i], i)
    <3>1. Sound(log', v, n + 1)
      BY <2>1, Zenon DEF Fences, n
    <3>2. \A i \in 1 .. n : Sound(log', log'[i], i)
      BY <2>1, Zenon DEF Fences, n
    <3> QED BY <1>2, <2>2, <3>1, <3>2, Zenon
  <2>5. ASSUME NEW w \in proposed', NEW i \in 1 .. n + 1, NEW sid,
               CarriedBy(w, sid, 0), CarriedBy(log'[i], sid, 0)
        PROVE  FALSE
    <3>1. CASE i \in 1 .. n
      BY <1>1, <1>2, <2>5, <3>1, Zenon DEF Fences, n
    <3>2. CASE i = n + 1
      <4>1. w \in Value /\ v \in Value /\ w # v /\ w \in proposed
        BY <1>1, Zenon DEF IInv
      <4>2. CarriedBy(v, sid, 0) /\ CarriedBy(w, sid, 0)
        BY <1>2, <2>5, <3>2, Zenon
      <4>3. w.type = "MT_CONNECT" /\ v.type = "MT_CONNECT"
        BY <4>1, <4>2, Zenon DEF Fences, Sound
      <4>4. ASSUME NEW x \in Value, x.type = "MT_CONNECT"
            PROVE  x = [type |-> "MT_CONNECT", session_id |-> x.session_id, version |-> x.version]
        BY <4>4, Zenon DEF Value
      <4>5. w.session_id = sid /\ w.version = 0 /\ v.session_id = sid /\ v.version = 0
        BY <4>2, <4>3, ConnectCarries, Zenon
      <4> QED BY <4>1, <4>3, <4>4, <4>5, Zenon
    <3> QED BY <2>2, <3>1, <3>2, Zenon
  <2>6. \A i \in 0 .. n + 1 : Fenced(log', g[i].sessions, i)
    <3>1. ASSUME NEW i \in 0 .. n PROVE Fenced(log', g[i].sessions, i)
      <4>1. Fenced(log, h[i].sessions, i) /\ g[i] = h[i]
        BY <1>3, Zenon DEF Fences, n
      <4> QED BY <2>1, <4>1, Zenon
    <3>2. Fenced(log', g[n + 1].sessions, n + 1)
      <4>1. Fenced(log', h[n].sessions, n)
        BY <1>3, <2>2, <3>1, Zenon
      <4>2. Sound(log', v, n + 1) /\ v \in Value
        BY <2>1, Zenon DEF Fences, n, IInv
      <4>3. \A i \in 1 .. n : Sound(log', log'[i], i)
        BY <2>1, Zenon DEF Fences, n
      <4>4. \A i \in 1 .. n : \A sid : ~(CarriedBy(v, sid, 0) /\ CarriedBy(log'[i], sid, 0))
        BY <1>2, Zenon DEF Fences, n
      <4>5. PICK k : k = log'
        BY Zenon
      <4>6. Fenced(k, AfterSessions(h[n].sessions, v, n + 1), n + 1)
        <5>1. /\ Fenced(k, h[n].sessions, n) /\ k[n + 1] = v /\ Sound(k, v, n + 1)
              /\ v \in Value
              /\ \A i \in 1 .. n : Sound(k, k[i], i)
              /\ \A i \in 1 .. n : \A sid : ~(CarriedBy(v, sid, 0) /\ CarriedBy(k[i], sid, 0))
          BY <1>2, <4>1, <4>2, <4>3, <4>4, <4>5, Zenon
        <5> QED BY <1>2, <5>1, FencedNext, Zenon
      <4> QED BY <1>2, <1>3, <4>5, <4>6, Zenon
    <3> QED BY <2>2, <3>1, <3>2, Zenon
  <2> QED BY <1>2, <2>3, <2>4, <2>5, <2>6, Zenon DEF Fences
<1> QED BY <1>5, <1>6, Zenon DEF HInv
-----------------------------------------------------------------------------
\* A new group has no history yet.
LEMMA InitPast == Init => HInv
<1> SUFFICES ASSUME Init PROVE HInv
  BY Zenon
<1>1. IInv
  BY InitOK, Zenon
<1>2. PICK h : h = [n \in {0} |-> [nodes |-> EmptyTree.nodes, sessions |-> EmptyMap]]
  BY Zenon
<1>3. h[0].nodes = EmptyTree.nodes /\ h[0].sessions = EmptyMap
  BY <1>2, Zenon
<1>4. Len(log) = 0 /\ proposed = {} /\ (\A n \in 1 .. 0 : FALSE) /\ (\A n \in 0 .. 0 : n = 0)
  BY DEF Init
<1>5. History(h, log)
  BY <1>3, <1>4, Zenon DEF History
<1>6. ASSUME NEW s \in Server
      PROVE  Past(h, log, tree[s], sessions[s], applied[s], closing[s],
                  snapshot[s], checkpoint[s], refused[s])
  <2>1. /\ tree[s] = EmptyTree /\ sessions[s] = EmptyMap /\ applied[s] = 0
        /\ closing[s] = NotClosing /\ snapshot[s] = NoCheckpoint
        /\ checkpoint[s] = NoCheckpoint
    BY Zenon DEF Init
  <2>2. /\ IsTree(tree[s]) /\ IsMap(sessions[s], SessionId, Nat)
        /\ closing[s].rest = << >> /\ closing[s].paths = {}
    <3>1. NotClosing.rest = << >> /\ NotClosing.paths = {}
      BY Zenon DEF NotClosing
    <3> QED BY <1>1, <2>1, <3>1, Zenon DEF IInv, Replica
  <2>3. sessions[s] = h[applied[s]].sessions /\ tree[s].nodes = h[applied[s]].nodes
    BY <1>3, <2>1, Zenon
  <2>4. Follows(h, tree[s], sessions[s], applied[s], closing[s], refused[s])
    <3>1. /\ Settled(closing[s])
          /\ At(h, tree[s], sessions[s], applied[s], refused[s])
      BY <2>2, <2>3, Zenon DEF Settled, At
    <3> QED BY <2>2, <3>1, FollowsIdle, Zenon
  <2>5. ~(applied[s] > 0)
    BY <2>1
  <2>6. DoneAt(log, tree[s], sessions[s], applied[s], closing[s])
    BY <2>5, Zenon DEF DoneAt
  <2>7. Records(h, NoCheckpoint) /\ DoneIn(log, NoCheckpoint)
    BY <1>5, NoCheckpointPast, Zenon
  <2> QED BY <2>1, <2>4, <2>6, <2>7, Zenon DEF Past
<1>7. Pasts(h)
  BY <1>5, <1>6, Zenon DEF Pasts
<1>8. \A n \in 0 .. 0 : Fenced(log, h[n].sessions, n)
  BY <1>3, <1>4, Zenon DEF Fenced, EmptyMap
<1>9. Fences(h)
  BY <1>4, <1>8, Zenon DEF Fences
<1> QED BY <1>7, <1>9, Zenon DEF HInv

\* A step that proposes, chooses and loses nothing says nothing new of the
\* versions.
LEMMA QuietFences ==
  ASSUME NEW h, Fences(h), log' = log, proposed' \subseteq proposed
  PROVE  Fences(h)'
<1>1. \A w \in proposed' : w \in proposed
  BY Zenon
<1> QED BY <1>1, Zenon DEF Fences

\* Every step keeps to the history.
LEMMA NextPast == IInv /\ IInv' /\ HInv /\ [Next]_vars => HInv'
<1> SUFFICES ASSUME IInv, IInv', HInv, [Next]_vars PROVE HInv'
  BY Zenon
<1>1. PICK h : Pasts(h) /\ Fences(h)
  BY Zenon DEF HInv
<1>2. ASSUME UNCHANGED <<tree, sessions, applied, closing, snapshot, checkpoint, log, refused>>
      PROVE  Pasts(h)'
  BY <1>1, <1>2, Zenon DEF Pasts
<1>3. CASE UNCHANGED vars
  BY <1>1, <1>2, <1>3, QuietFences, Zenon DEF vars, HInv
<1>4. ASSUME NEW v \in proposed, Choose(v) PROVE HInv'
  BY <1>1, <1>4, ChoosePast, Zenon
<1>5. ASSUME NEW v \in proposed, Lose(v) PROVE HInv'
  <2>1. log' = log /\ proposed' \subseteq proposed
    BY <1>5, Zenon DEF Lose
  <2>2. Pasts(h)'
    BY <1>2, <1>5, Zenon DEF Lose
  <2> QED BY <1>1, <2>1, <2>2, QuietFences, Zenon DEF HInv
<1>6. ASSUME NEW s \in Server, ProposeStep(s) PROVE HInv'
  <2>1. ASSUME NEW sid \in SessionId, NEW args \in CreateArgs, ProposeCreate(s, sid, args)
        PROVE  HInv'
    <3>1. Write(WriteValue("MT_CREATE", sid, args)) /\ Proposes(WriteValue("MT_CREATE", sid, args))
      BY <2>1, Zenon DEF ProposeCreate, Propose, Write, WriteValue, Proposes
    <3>2. Fences(h)'
      BY <1>1, <3>1, WriteFences, Zenon
    <3> QED BY <1>1, <2>1, <3>2, ProposeCreatePast, Zenon DEF HInv
  <2>2. ASSUME NEW sid \in SessionId, NEW args \in DeleteArgs, ProposeDelete(s, sid, args)
        PROVE  HInv'
    <3>1. Write(WriteValue("MT_DELETE", sid, args)) /\ Proposes(WriteValue("MT_DELETE", sid, args))
      BY <2>2, Zenon DEF ProposeDelete, Propose, Write, WriteValue, Proposes
    <3>2. Fences(h)'
      BY <1>1, <3>1, WriteFences, Zenon
    <3> QED BY <1>2, <2>2, <3>2, Zenon DEF ProposeDelete, HInv
  <2>3. ASSUME NEW sid \in SessionId, NEW args \in SetDataArgs, ProposeSetData(s, sid, args)
        PROVE  HInv'
    <3>1. Write(WriteValue("MT_SETDATA", sid, args)) /\ Proposes(WriteValue("MT_SETDATA", sid, args))
      BY <2>3, Zenon DEF ProposeSetData, Propose, Write, WriteValue, Proposes
    <3>2. Fences(h)'
      BY <1>1, <3>1, WriteFences, Zenon
    <3> QED BY <1>2, <2>3, <3>2, Zenon DEF ProposeSetData, HInv
  <2>4. ASSUME NEW sid \in SessionId, ProposeConnect(s, sid) PROVE HInv'
    BY <1>1, <1>2, <2>4, ConnectFences, Zenon DEF ProposeConnect, HInv
  <2>5. ASSUME NEW list \in CloseLists(s), ProposeClose(s, list) PROVE HInv'
    BY <1>1, <1>2, <2>5, CloseFences, Zenon DEF ProposeClose, HInv
  <2> QED BY <1>6, <2>1, <2>2, <2>3, <2>4, <2>5, Zenon DEF ProposeStep
<1>7. ASSUME NEW s \in Server, ExecuteStep(s) PROVE HInv'
  <2>1. log' = log /\ proposed' \subseteq proposed
    BY <1>7, Zenon DEF ExecuteStep, ExecuteConnect, ExecuteCreate, ExecuteDelete,
                       ExecuteSetData, ExecuteClose, Begin, CloseNext, KillNext
  <2>2. Pasts(h)'
    BY <1>1, <1>7, ExecuteConnectPast, ExecuteWritePast, ExecuteClosePast, CloseNextPast,
       KillNextPast, Zenon DEF ExecuteStep
  <2> QED BY <1>1, <2>1, <2>2, QuietFences, Zenon DEF HInv
<1>8. ASSUME NEW s \in Server, CheckpointStep(s) PROVE HInv'
  <2>1. log' = log /\ proposed' \subseteq proposed
    BY <1>8, Zenon DEF CheckpointStep, MakeCheckpoint, WriteCheckpoint, Restart
  <2>2. Pasts(h)'
    BY <1>1, <1>8, MakeCheckpointPast, WriteCheckpointPast, RestartPast, Zenon
       DEF CheckpointStep
  <2> QED BY <1>1, <2>1, <2>2, QuietFences, Zenon DEF HInv
<1> QED BY <1>3, <1>4, <1>5, <1>6, <1>7, <1>8, Zenon DEF Next

\* The replicas follow the history in every reachable state.
LEMMA SpecHInv == Spec => []HInv
<1>1. Init => HInv
  BY InitPast, Zenon
<1>2. IInv /\ IInv' /\ HInv /\ [Next]_vars => HInv'
  BY NextPast, Zenon
<1> QED BY <1>1, <1>2, SpecIInv, PTL DEF Spec

\* Replicas that have executed the same prefix of the log have the same
\* sessions and, unless one of them refused to delete a node without children,
\* the same tree (saber_db.cc:108-181), whatever checks, kills, checkpoints and
\* restarts happened on each.
THEOREM ReplicasFollow == Spec => []AgreeUnlessRefused
<1>1. IInv /\ HInv => AgreeUnlessRefused
  <2> SUFFICES ASSUME IInv, HInv, NEW s \in Server, NEW r \in Server, SamePosition(s, r)
               PROVE  /\ sessions[s] = sessions[r]
                      /\ ~refused[s] /\ ~refused[r] => SameTree(tree[s], tree[r])
    BY Zenon DEF AgreeUnlessRefused
  <2>1. PICK h : Pasts(h)
    BY Zenon DEF HInv
  <2>2. ASSUME NEW x \in Server, Idle(x)
        PROVE  /\ IsTree(tree[x]) /\ WellFormed(tree[x], {})
               /\ sessions[x] = h[applied[x]].sessions
               /\ ~refused[x] => tree[x].nodes = h[applied[x]].nodes
    <3>1. /\ IsTree(tree[x]) /\ WellFormed(tree[x], {}) /\ IsMap(sessions[x], SessionId, Nat)
          /\ closing[x].rest = << >> /\ closing[x].paths = {}
      BY <2>2, Zenon DEF IInv, Replica, Idle
    <3>2. Follows(h, tree[x], sessions[x], applied[x], closing[x], refused[x])
      BY <2>1, Zenon DEF Pasts, Past
    <3>3. Settled(closing[x])
      BY <3>1, Zenon DEF Settled
    <3>4. At(h, tree[x], sessions[x], applied[x], refused[x])
      BY <3>1, <3>2, <3>3, FollowsIdle, Zenon
    <3> QED BY <3>1, <3>4, Zenon DEF At
  <2>3. Idle(s) /\ Idle(r) /\ applied[s] = applied[r]
    BY Zenon DEF SamePosition
  <2>4. sessions[s] = sessions[r]
    BY <2>2, <2>3, Zenon
  <2>5. ASSUME ~refused[s], ~refused[r] PROVE SameTree(tree[s], tree[r])
    <3>1. tree[s].nodes = tree[r].nodes
      BY <2>2, <2>3, <2>5, Zenon
    <3>2. /\ IsTree(tree[s]) /\ WellFormed(tree[s], {})
          /\ IsTree(tree[r]) /\ WellFormed(tree[r], {})
      BY <2>2, <2>3, Zenon
    <3>3. tree[s].ephemerals = tree[r].ephemerals
      BY <3>1, <3>2, SameEphemerals, Zenon
    <3>4. ASSUME NEW p PROVE SetAt(tree[s].childrens, p) = SetAt(tree[r].childrens, p)
      <4>1. SetAt(tree[s].childrens, p) = Kids(tree[s].nodes, p)
        BY <3>2, KidsOK, Zenon
      <4>2. SetAt(tree[r].childrens, p) = Kids(tree[r].nodes, p)
        BY <3>2, KidsOK, Zenon
      <4> QED BY <3>1, <4>1, <4>2, Zenon
    <3> QED BY <3>1, <3>3, <3>4, Zenon DEF SameTree
  <2> QED BY <2>4, <2>5, Zenon
<1> QED BY <1>1, SpecIInv, SpecHInv, PTL

\* SessionManager's versions let only the first of the connects and closes of a
\* session take effect that race with the same version (session_manager.cc:26-62).
THEOREM FirstTakesEffect == Spec => []SessionsFenced
<1>1. IInv /\ HInv => SessionsFenced
  <2> SUFFICES ASSUME IInv, HInv, NEW s \in Server, NEW sid \in DOMAIN sessions[s]
               PROVE  LET v == sessions[s][sid]
                      IN  /\ v \in 1 .. applied[s]
                          /\ log[v].type = "MT_CONNECT" /\ log[v].session_id = sid
                          /\ \A i \in v + 1 .. applied[s] :
                               i < applied[s] \/ Idle(s) => ~Carries(i, sid, v)
                          /\ \A i \in 1 .. v - 1 : ~Carries(i, sid, log[v].version)
    BY Zenon DEF SessionsFenced
  <2>1. PICK h : Pasts(h) /\ Fences(h)
    BY Zenon DEF HInv
  <2>2. \A i, x, y : Carries(i, x, y) <=> CarriedBy(log[i], x, y)
    BY Zenon DEF Carries, CarriedBy
  <2>3. LET v == sessions[s][sid]
        IN  /\ v \in 1 .. applied[s]
            /\ log[v].type = "MT_CONNECT" /\ log[v].session_id = sid
            /\ \A i \in v + 1 .. applied[s] :
                 i < applied[s] \/ Idle(s) => ~CarriedBy(log[i], sid, v)
            /\ \A i \in 1 .. v - 1 : ~CarriedBy(log[i], sid, log[v].version)
    BY <2>1, TableSound, Zenon
  <2> QED BY <2>2, <2>3, Zenon
<1> QED BY <1>1, SpecIInv, SpecHInv, PTL

\* Execute of an MT_CLOSE, with the KillSession of each session that it ends
\* (saber_db.cc:158-166), leaves no node of those sessions behind.
THEOREM CloseIsComplete == Spec => []CloseLeavesNothing
<1>1. IInv /\ HInv => CloseLeavesNothing
  <2> SUFFICES ASSUME IInv, HInv, NEW s \in Server, Idle(s), applied[s] > 0,
                      log[applied[s]].type = "MT_CLOSE",
                      NEW i \in DOMAIN log[applied[s]].list,
                      log[applied[s]].list[i].session_id \notin DOMAIN sessions[s],
                      NEW p \in DOMAIN tree[s].nodes
               PROVE  tree[s].nodes[p].ephemeral_id # log[applied[s]].list[i].session_id
    BY Zenon DEF CloseLeavesNothing
  <2>1. PICK h : Pasts(h)
    BY Zenon DEF HInv
  <2>2. DoneAt(log, tree[s], sessions[s], applied[s], closing[s])
    BY <2>1, Zenon DEF Pasts, Past
  <2>3. closing[s].rest = << >> /\ closing[s].paths = {} /\ DOMAIN << >> = {}
    BY DEF Idle
  <2>4. Owned(tree[s].nodes, {log[applied[s]].list[i].session_id}) \subseteq {}
    BY <2>2, <2>3, Zenon DEF DoneAt, Done
  <2> QED BY <2>4, Zenon DEF Owned
<1> QED BY <1>1, SpecIInv, SpecHInv, PTL
=============================================================================
