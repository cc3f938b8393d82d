----------------------------- MODULE AccountsProofs -----------------------------
(***************************************************************************)
(* Proofs about Accounts, for account trees of every shape and size: type  *)
(* correctness, that a ready account can be used, and that a guarded       *)
(* AccountInfo goes after the accounts and the binding of its workspace.   *)
(***************************************************************************)
EXTENDS Accounts, TLAPS

-----------------------------------------------------------------------------
(* Type correctness.                                                       *)

LEMMA AccountTypes ==
  /\ NoAccount \in AccountObject
  /\ \A o \in AccountObject : Deleted(o) \in AccountObject /\ CollectAccount(o) \in AccountObject
  /\ \A o \in AccountObject, f \in SUBSET {"type", "workspace"} : PatchedFins(o, f) \in AccountObject
  /\ \A o \in AccountObject, r \in BOOLEAN : [o EXCEPT !.ready = r] \in AccountObject
  /\ \A o \in AccountObject : [o EXCEPT !.state = "live"] \in AccountObject
  /\ \A a : OwnFinalizers(a) \subseteq {"type", "workspace"}
<1>1. \A o \in AccountObject : CollectAccount(o) \in AccountObject
  BY DEF AccountObject, CollectAccount, NoAccount
<1>2. \A o \in AccountObject : [o EXCEPT !.state = "deleting"] \in AccountObject
  BY DEF AccountObject
<1>3. \A o \in AccountObject : Deleted(o) \in AccountObject
  BY <1>1, <1>2 DEF Deleted
<1>4. \A o \in AccountObject, f \in SUBSET {"type", "workspace"} : PatchedFins(o, f) \in AccountObject
  BY DEF AccountObject, PatchedFins, Present
<1>5. \A o \in AccountObject, r \in BOOLEAN : [o EXCEPT !.ready = r] \in AccountObject
  BY DEF AccountObject
<1>6. \A o \in AccountObject : [o EXCEPT !.state = "live"] \in AccountObject
  BY DEF AccountObject
<1> QED
  BY <1>1, <1>3, <1>4, <1>5, <1>6 DEF NoAccount, AccountObject, OwnFinalizers

LEMMA InfoTypes ==
  /\ NoInfo \in InfoObject
  /\ \A o \in InfoObject : CollectInfo(o) \in InfoObject
  /\ \A o \in InfoObject, f \in SUBSET Engines : PatchedFins(o, f) \in InfoObject
  /\ \A o \in InfoObject : [o EXCEPT !.oidc = TRUE] \in InfoObject
  /\ \A o \in InfoObject : DeletedInfo(o) \in InfoObject
<1>1. \A o \in InfoObject, f \in SUBSET Engines : PatchedFins(o, f) \in InfoObject
  BY DEF InfoObject, PatchedFins, Present
<1>2. \A o \in InfoObject :
        [o EXCEPT !.state = "deleting", !.guarded = @ \/ o.fins = Engines] \in InfoObject
  BY DEF InfoObject
<1>3. \A o \in InfoObject : CollectInfo(o) \in InfoObject
  BY DEF InfoObject, NoInfo, CollectInfo
<1>4. \A o \in InfoObject : DeletedInfo(o) \in InfoObject
  BY <1>2, <1>3 DEF DeletedInfo
<1> QED
  BY <1>1, <1>3, <1>4 DEF InfoObject, NoInfo

LEMMA WorkspaceTypes ==
  /\ NoWorkspace \in WorkspaceObject
  /\ \A o \in WorkspaceObject, p \in Phase : [o EXCEPT !.phase = p] \in WorkspaceObject
BY DEF NoWorkspace, WorkspaceObject, Phase

LEMMA WorkspaceMoves ==
  ASSUME AccountsTypeOK, NEW a \in Account, NEW p \in Phase
  PROVE  [ws EXCEPT ![a].phase = p] \in [Account -> WorkspaceObject]
<1>1. ws[a] \in WorkspaceObject
  BY DEF AccountsTypeOK
<1>2. [ws[a] EXCEPT !.phase = p] \in WorkspaceObject
  BY <1>1, WorkspaceTypes
<1> QED
  BY <1>2 DEF AccountsTypeOK

LEMMA TableMoves ==
  ASSUME NEW A, NEW B, NEW S, NEW f \in [A -> [B -> S]], NEW a, NEW b \in B, NEW v \in S
  PROVE  [f EXCEPT ![a][b] = v] \in [A -> [B -> S]]
<1>1. a \in A => [f[a] EXCEPT ![b] = v] \in [B -> S]
  OBVIOUS
<1> QED
  BY <1>1

LEMMA PendingSets ==
  /\ {"idle"} \in Pending
  /\ \A f \in SUBSET Engines : f \in Pending
  /\ \A f \in Pending : f # {"idle"} => f \in SUBSET Engines
<1>1. \A f : f \in Pending <=> f \in SUBSET Engines \/ f = {"idle"}
  BY Zenon DEF Pending
<1> QED
  BY ONLY <1>1, Zenon

LEMMA PendMoves ==
  ASSUME AccountsTypeOK, NEW a \in Account, NEW e \in Engines, NEW v \in Pending
  PROVE  [pend EXCEPT ![a][e] = v] \in [Account -> [Engines -> Pending]]
BY TableMoves DEF AccountsTypeOK

LEMMA ResMoves ==
  ASSUME AccountsTypeOK, NEW a, NEW r \in Resources,
         NEW v \in {"none", "pending", "ready", "deleting"}
  PROVE  [res EXCEPT ![a][r] = v] \in
           [Orgs -> [Resources -> {"none", "pending", "ready", "deleting"}]]
BY TableMoves DEF AccountsTypeOK

LEMMA PhaseNames ==
  {"none", "scheduling", "initializing", "ready", "terminating", "emptying"} \subseteq Phase
BY DEF Phase

LEMMA LabelNames ==
  {"idle", "fins", "orgType", "accountType", "workspace", "info", "ready", "finalizeWorkspace",
   "finalizeOrgType", "finalizeAccountType", "release"} \subseteq PassLabel
BY DEF PassLabel

LEMMA ParentType == \A a \in Account : ~IsOrg(a) => Parent[a] \in Account
BY AccountsAssumption DEF IsOrg

LEMMA desiredInfoType ==
  ASSUME AccountsTypeOK, NEW a \in Account
  PROVE  desiredInfo(a, info[a]) \in InfoObject
<1>1. info[a] \in InfoObject /\ (~IsOrg(a) => info[Parent[a]] \in InfoObject)
  BY ParentType DEF AccountsTypeOK
<1>2. /\ IsOrg(a) \in BOOLEAN
      /\ ~IsOrg(a) => info[Parent[a]].org \in BOOLEAN /\ info[Parent[a]].oidc \in BOOLEAN
  BY <1>1 DEF InfoObject, IsOrg
<1> QED
  BY <1>1, <1>2 DEF desiredInfo, InfoObject

LEMMA PassTypes ==
  ASSUME AccountsTypeOK, NEW a \in Account, NEW ready \in BOOLEAN
  PROVE  /\ Rest(a) => /\ where' \in [Account -> PassLabel]
                       /\ read' \in [Account -> SUBSET {"type", "workspace"}]
         /\ \A l \in PassLabel : Goto(a, l) =>
                       /\ where' \in [Account -> PassLabel]
                       /\ read' \in [Account -> SUBSET {"type", "workspace"}]
         /\ EndOfPass(a, ready) => /\ accounts' \in [Account -> AccountObject]
                                   /\ where' \in [Account -> PassLabel]
                                   /\ read' \in [Account -> SUBSET {"type", "workspace"}]
<1>1. Rest(a) => /\ where' \in [Account -> PassLabel]
                 /\ read' \in [Account -> SUBSET {"type", "workspace"}]
  BY LabelNames DEF Rest, AccountsTypeOK
<1>2. \A l \in PassLabel : Goto(a, l) =>
        /\ where' \in [Account -> PassLabel]
        /\ read' \in [Account -> SUBSET {"type", "workspace"}]
  BY DEF Goto, AccountsTypeOK
<1>3. EndOfPass(a, ready) => accounts' \in [Account -> AccountObject]
  BY AccountTypes DEF EndOfPass, AccountsTypeOK
<1> QED
  BY <1>1, <1>2, <1>3 DEF EndOfPass

LEMMA TypeKcp ==
  ASSUME AccountsTypeOK, NEW a \in Account,
         \/ CreateAccount(a) \/ DeleteAccount(a) \/ BindAPI(a) \/ SyncWorkspace(a)
         \/ Schedule(a) \/ GarbageCollect(a)
  PROVE  AccountsTypeOK'
<1> USE DEF objects, orgObjects, pass
<1>1. CASE CreateAccount(a)
  BY <1>1, AccountTypes DEF CreateAccount, AccountsTypeOK
<1>2. CASE DeleteAccount(a)
  BY <1>2, AccountTypes DEF DeleteAccount, AccountsTypeOK
<1>3. CASE BindAPI(a)
  BY <1>3 DEF BindAPI, AccountsTypeOK
<1>4. CASE SyncWorkspace(a)
  <2>1. ws[a].phase \in Phase
    BY DEF AccountsTypeOK, WorkspaceObject
  <2> QED
    BY <1>4, <2>1 DEF SyncWorkspace, AccountsTypeOK
<1>5. CASE Schedule(a) \/ GarbageCollect(a)
  <2>1. /\ [ws EXCEPT ![a].phase = "initializing"] \in [Account -> WorkspaceObject]
        /\ [ws EXCEPT ![a].phase = "terminating"] \in [Account -> WorkspaceObject]
    BY WorkspaceMoves, PhaseNames
  <2> QED
    BY <1>5, <2>1 DEF Schedule, GarbageCollect, AccountsTypeOK
<1> QED
  BY <1>1, <1>2, <1>3, <1>4, <1>5

LEMMA TypeEmpty ==
  ASSUME AccountsTypeOK, NEW a \in Account, Empty(a)
  PROVE  AccountsTypeOK'
<1>1. accounts' \in [Account -> AccountObject]
  BY AccountTypes DEF Empty, AccountsTypeOK
<1>2. info' \in [Account -> InfoObject]
  BY InfoTypes DEF Empty, AccountsTypeOK
<1>3. binding' \in [Account -> {"none", "live", "deleting"}]
  BY DEF Empty, AccountsTypeOK
<1>4. ws' \in [Account -> WorkspaceObject]
  BY WorkspaceTypes DEF Empty, AccountsTypeOK
<1> QED
  BY <1>1, <1>2, <1>3, <1>4 DEF Empty, AccountsTypeOK, orgObjects, pass

LEMMA TypeForward ==
  ASSUME AccountsTypeOK, NEW a \in Account,
         \/ AccountStart(a) \/ AddFinalizers(a) \/ WorkspaceTypeProcess(a)
         \/ WorkspaceProcess(a) \/ ManageAccountInfoProcess(a) \/ WorkspaceReadyProcess(a)
  PROVE  AccountsTypeOK'
<1> USE DEF objects, orgObjects, pass
<1>1. accounts[a] \in AccountObject /\ read[a] \in SUBSET {"type", "workspace"}
  BY DEF AccountsTypeOK
<1>2. CASE AccountStart(a)
  <2>1. PICK l \in PassLabel : where' = [where EXCEPT ![a] = l]
    BY <1>2, LabelNames DEF AccountStart
  <2>2. accounts[a].fins \in SUBSET {"type", "workspace"}
    BY <1>1 DEF AccountObject
  <2> QED
    BY <1>2, <2>1, <2>2 DEF AccountStart, AccountsTypeOK
<1>3. CASE AddFinalizers(a)
  <2>1. read[a] \cup OwnFinalizers(a) \in SUBSET {"type", "workspace"}
    BY <1>1, AccountTypes
  <2>2. PatchedFins(accounts[a], read[a] \cup OwnFinalizers(a)) \in AccountObject
    BY <1>1, <2>1, AccountTypes
  <2> QED
    BY <1>3, <2>2, PassTypes DEF AddFinalizers, AccountsTypeOK
<1>4. CASE WorkspaceTypeProcess(a)
  <2>1. PICK k \in Kinds :
          /\ types' = [types EXCEPT ![a][k] = createOrPatchWorkspaceType(@)]
          /\ Goto(a, IF k = "org" THEN "accountType" ELSE "workspace")
    BY <1>4 DEF WorkspaceTypeProcess
  <2>2. \A t \in TypeObject : createOrPatchWorkspaceType(t) \in TypeObject
    BY DEF createOrPatchWorkspaceType, TypeObject
  <2>3. a \in Orgs => createOrPatchWorkspaceType(types[a][k]) \in TypeObject
    BY <2>2 DEF AccountsTypeOK
  <2>4. types' \in [Orgs -> [Kinds -> TypeObject]]
    BY <2>1, <2>3 DEF AccountsTypeOK
  <2> QED
    BY <1>4, <2>1, <2>4, PassTypes, LabelNames DEF WorkspaceTypeProcess, AccountsTypeOK
<1>5. CASE WorkspaceProcess(a)
  <2> DEFINE new == [phase |-> "scheduling", auth |-> types[OrgOf[a]][Kind(a)].auth]
  <2>1. new \in WorkspaceObject
    <3>1. OrgOf[a] \in Orgs /\ Kind(a) \in Kinds
      BY TreeAssumption DEF Kind, Kinds
    <3>2. types[OrgOf[a]][Kind(a)] \in TypeObject
      BY <3>1 DEF AccountsTypeOK
    <3> QED
      BY <3>2 DEF TypeObject, WorkspaceObject, Phase
  <2> HIDE DEF new
  <2>2. \/ (ws' = ws \/ ws' = [ws EXCEPT ![a] = new]) /\ Goto(a, "info") /\ accounts' = accounts
        \/ EndOfPass(a, FALSE) /\ ws' = ws
    BY <1>5 DEF WorkspaceProcess, new
  <2>3. ws' \in [Account -> WorkspaceObject]
    BY <2>1, <2>2 DEF AccountsTypeOK
  <2> QED
    BY <1>5, <2>2, <2>3, PassTypes, LabelNames DEF WorkspaceProcess, AccountsTypeOK
<1>6. CASE ManageAccountInfoProcess(a)
  <2>1. [info EXCEPT ![a] = desiredInfo(a, @)] \in [Account -> InfoObject]
    BY desiredInfoType DEF AccountsTypeOK
  <2> QED
    BY <1>6, <2>1, PassTypes, LabelNames DEF ManageAccountInfoProcess, AccountsTypeOK
<1>7. CASE WorkspaceReadyProcess(a)
  <2>1. WorkspaceIsReady(a) \in BOOLEAN
    BY DEF WorkspaceIsReady
  <2> QED
    BY <1>7, <2>1, PassTypes DEF WorkspaceReadyProcess, AccountsTypeOK
<1> QED
  BY <1>2, <1>3, <1>4, <1>5, <1>6, <1>7

LEMMA TypeBackward ==
  ASSUME AccountsTypeOK, NEW a \in Account,
         \/ WorkspaceFinalize(a) \/ WorkspaceTypeFinalize(a) \/ ReleaseAccount(a)
         \/ PassFails(a) \/ (\E e \in Engines : InfoRead(a, e) \/ InfoWrite(a, e))
         \/ FinalizeBinding(a)
  PROVE  AccountsTypeOK'
<1> USE DEF objects, orgObjects, pass
<1>1. accounts[a] \in AccountObject /\ read[a] \in SUBSET {"type", "workspace"}
  BY DEF AccountsTypeOK
<1>2. CASE WorkspaceFinalize(a)
  <2>1. [ws EXCEPT ![a].phase = "terminating"] \in [Account -> WorkspaceObject]
    BY WorkspaceMoves, PhaseNames
  <2> QED
    BY <1>2, <2>1, PassTypes, LabelNames DEF WorkspaceFinalize, AccountsTypeOK
<1>3. CASE WorkspaceTypeFinalize(a)
  <2>1. PICK k \in Kinds :
          /\ types' = [types EXCEPT ![a][k] = NoType]
          /\ Goto(a, IF k = "org" THEN "finalizeAccountType" ELSE "release")
    BY <1>3 DEF WorkspaceTypeFinalize
  <2>2. types' \in [Orgs -> [Kinds -> TypeObject]]
    BY <2>1 DEF AccountsTypeOK, NoType, TypeObject
  <2> QED
    BY <1>3, <2>1, <2>2, PassTypes, LabelNames DEF WorkspaceTypeFinalize, AccountsTypeOK
<1>4. CASE ReleaseAccount(a)
  <2>1. read[a] \ OwnFinalizers(a) \in SUBSET {"type", "workspace"}
    BY <1>1
  <2>2. CollectAccount(PatchedFins(accounts[a], read[a] \ OwnFinalizers(a))) \in AccountObject
    BY <1>1, <2>1, AccountTypes
  <2> QED
    BY <1>4, <2>2, PassTypes DEF ReleaseAccount, AccountsTypeOK
<1>5. CASE PassFails(a)
  <2>1. faults' \in 0..MaxAccountFaults
    BY <1>5, AccountsAssumption DEF PassFails, Fault, AccountsTypeOK
  <2> QED
    BY <1>5, <2>1, PassTypes DEF PassFails, AccountsTypeOK
<1>6. ASSUME NEW e \in Engines, InfoRead(a, e)
      PROVE  AccountsTypeOK'
  <2>1. info[a].fins \in SUBSET Engines
    BY DEF AccountsTypeOK, InfoObject
  <2>2. \/ pend' = [pend EXCEPT ![a][e] = info[a].fins \cup {e}]
        \/ pend' = [pend EXCEPT ![a][e] = info[a].fins \ {e}]
    BY <1>6 DEF InfoRead
  <2>3. info[a].fins \cup {e} \in SUBSET Engines /\ info[a].fins \ {e} \in SUBSET Engines
    BY <2>1
  <2>4. pend' \in [Account -> [Engines -> Pending]]
    BY <2>2, <2>3, PendingSets, PendMoves
  <2> QED
    BY <1>6, <2>4 DEF InfoRead, AccountsTypeOK
<1>7. ASSUME NEW e \in Engines, InfoWrite(a, e)
      PROVE  AccountsTypeOK'
  <2>1. pend[a][e] \in SUBSET Engines /\ info[a] \in InfoObject
    <3>1. pend[a][e] \in Pending /\ pend[a][e] # {"idle"}
      BY <1>7 DEF InfoWrite, AccountsTypeOK
    <3> QED
      BY <3>1, PendingSets DEF AccountsTypeOK
  <2>2. CollectInfo(PatchedFins(info[a], pend[a][e])) \in InfoObject
    BY <2>1, InfoTypes
  <2>3. [pend EXCEPT ![a][e] = {"idle"}] \in [Account -> [Engines -> Pending]]
    BY PendingSets, PendMoves
  <2> QED
    BY <1>7, <2>2, <2>3 DEF InfoWrite, AccountsTypeOK
<1>8. CASE FinalizeBinding(a)
  BY <1>8 DEF FinalizeBinding, AccountsTypeOK
<1> QED
  BY <1>2, <1>3, <1>4, <1>5, <1>6, <1>7, <1>8

LEMMA TypeInitializer ==
  ASSUME AccountsTypeOK, NEW a \in Account,
         \/ InitStart(a) \/ InitEnd(a) \/ InitProgress(a) \/ Terminator(a)
         \/ (a \in Orgs /\ \E r \in Resources : Settle(a, r))
         \/ (a \in Orgs /\ \E k \in Kinds : TypeBecomesReady(a, k))
  PROVE  AccountsTypeOK'
<1> USE DEF objects, orgObjects, pass
<1>1. /\ [ws EXCEPT ![a].phase = "ready"] \in [Account -> WorkspaceObject]
      /\ [ws EXCEPT ![a].phase = "emptying"] \in [Account -> WorkspaceObject]
  BY WorkspaceMoves, PhaseNames
<1>2. CASE InitStart(a) \/ InitEnd(a)
  BY <1>2 DEF InitStart, InitEnd, AccountsTypeOK
<1>3. CASE InitResource(a)
  <2>1. Awaited(a) \in Resources
    BY DEF Awaited, Resources
  <2>2. res' \in [Orgs -> [Resources -> {"none", "pending", "ready", "deleting"}]]
    BY <1>3, <2>1 DEF InitResource, AccountsTypeOK
  <2> QED
    BY <1>3, <2>2 DEF InitResource, AccountsTypeOK
<1>4. CASE patchAccountInfo(a)
  BY <1>4, InfoTypes DEF patchAccountInfo, AccountsTypeOK
<1>5. CASE InitAuthConfig(a)
  <2>1. \A t \in TypeObject : [t EXCEPT !.auth = TRUE] \in TypeObject
    BY DEF TypeObject
  <2>2. \A k \in Kinds : [types EXCEPT ![a][k].auth = TRUE] \in [Orgs -> [Kinds -> TypeObject]]
    BY <1>5, <2>1 DEF InitAuthConfig, IsOrg, AccountsTypeOK
  <2>3. types' = types \/ \E k \in Kinds : types' = [types EXCEPT ![a][k].auth = TRUE]
    BY <1>5 DEF InitAuthConfig, Unauthenticated
  <2>4. types' \in [Orgs -> [Kinds -> TypeObject]]
    BY <2>2, <2>3 DEF AccountsTypeOK
  <2>5. conf' \subseteq Orgs
    BY <1>5 DEF InitAuthConfig, IsOrg, AccountsTypeOK
  <2> QED
    BY <1>5, <2>4, <2>5 DEF InitAuthConfig, AccountsTypeOK
<1>6. CASE ReleaseOrg(a)
  BY <1>1, <1>6 DEF ReleaseOrg, AccountsTypeOK
<1>7. CASE InitTuples(a)
  <2>1. tuples' \subseteq Account \ Orgs
    BY <1>7 DEF InitTuples, IsOrg, AccountsTypeOK
  <2> QED
    BY <1>1, <1>7, <2>1 DEF InitTuples, AccountsTypeOK
<1>8. CASE TerminateTuples(a)
  BY <1>1, <1>8 DEF TerminateTuples, AccountsTypeOK
<1>9. CASE TerminateOrg(a)
  <2>1. res' = res \/ \E r \in Resources : res' = [res EXCEPT ![a][r] = "deleting"]
    BY <1>9 DEF TerminateOrg, Resources
  <2>2. res' \in [Orgs -> [Resources -> {"none", "pending", "ready", "deleting"}]]
    <3>1. \A r \in Resources : [res EXCEPT ![a][r] = "deleting"] \in
            [Orgs -> [Resources -> {"none", "pending", "ready", "deleting"}]]
      BY ResMoves
    <3> QED
      BY <2>1, <3>1 DEF AccountsTypeOK
  <2>3. ws' \in [Account -> WorkspaceObject]
    BY <1>1, <1>9 DEF TerminateOrg, AccountsTypeOK
  <2> QED
    BY <1>9, <2>2, <2>3 DEF TerminateOrg, AccountsTypeOK
<1>10. ASSUME a \in Orgs, NEW r \in Resources, Settle(a, r)
       PROVE  AccountsTypeOK'
  <2>1. \/ res' = [res EXCEPT ![a][r] = "ready"]
        \/ res' = [res EXCEPT ![a][r] = "none"]
    BY <1>10 DEF Settle, AccountsTypeOK
  <2>2. res' \in [Orgs -> [Resources -> {"none", "pending", "ready", "deleting"}]]
    BY <1>10, <2>1, ResMoves
  <2>3. tuples' \subseteq Account \ Orgs
    BY <1>10 DEF Settle, AccountsTypeOK
  <2> QED
    BY <1>10, <2>2, <2>3 DEF Settle, AccountsTypeOK
<1>11. ASSUME a \in Orgs, NEW k \in Kinds, TypeBecomesReady(a, k)
       PROVE  AccountsTypeOK'
  <2>1. \A t \in TypeObject : [t EXCEPT !.state = "ready"] \in TypeObject
    BY DEF TypeObject
  <2>2. types' \in [Orgs -> [Kinds -> TypeObject]]
    BY <1>11, <2>1 DEF TypeBecomesReady, AccountsTypeOK
  <2> QED
    BY <1>11, <2>2 DEF TypeBecomesReady, AccountsTypeOK
<1> QED
  BY <1>2, <1>3, <1>4, <1>5, <1>6, <1>7, <1>8, <1>9, <1>10, <1>11 DEF InitProgress, Terminator

(* One step is one action of one account.                                  *)
LEMMA StepCases ==
  ASSUME Step
  PROVE  \E a \in Account :
           \/ CreateAccount(a) \/ DeleteAccount(a) \/ BindAPI(a) \/ SyncWorkspace(a)
           \/ Schedule(a) \/ GarbageCollect(a) \/ Empty(a)
           \/ AccountOperator(a) \/ PassFails(a) \/ InfoEngines(a) \/ FinalizeBinding(a)
           \/ InitStart(a) \/ InitEnd(a) \/ InitProgress(a) \/ Terminator(a)
           \/ (a \in Orgs /\ \E r \in Resources : Settle(a, r))
           \/ (a \in Orgs /\ \E k \in Kinds : TypeBecomesReady(a, k))
BY AccountsAssumption DEF Step, TreeStep, GuardStep, Background, Users, Kcp

LEMMA AccountsTypeStep == AccountsTypeOK /\ [Step]_accountVars => AccountsTypeOK'
<1> SUFFICES ASSUME AccountsTypeOK, [Step]_accountVars
             PROVE  AccountsTypeOK'
  OBVIOUS
<1>1. CASE UNCHANGED accountVars
  BY <1>1 DEF AccountsTypeOK, accountVars, objects, orgObjects, pass
<1>2. CASE Step
  BY <1>2, StepCases, TypeKcp, TypeEmpty, TypeForward, TypeBackward, TypeInitializer
     DEF AccountOperator, InfoEngines
<1> QED
  BY <1>1, <1>2

LEMMA AccountsTypeInit == AccountsInit => AccountsTypeOK
<1> SUFFICES ASSUME AccountsInit PROVE AccountsTypeOK
  OBVIOUS
<1>1. /\ NoAccount \in AccountObject /\ NoInfo \in InfoObject /\ NoWorkspace \in WorkspaceObject
      /\ "none" \in Phase /\ "idle" \in PassLabel /\ NoType \in TypeObject
  BY AccountTypes, InfoTypes, WorkspaceTypes, PhaseNames, LabelNames DEF NoType, TypeObject
<1>2. pend \in [Account -> [Engines -> Pending]]
  BY PendingSets DEF AccountsInit
<1>3. /\ types \in [Orgs -> [Kinds -> TypeObject]]
      /\ res \in [Orgs -> [Resources -> {"none", "pending", "ready", "deleting"}]]
  BY <1>1 DEF AccountsInit
<1>4. faults \in 0..MaxAccountFaults
  BY AccountsAssumption DEF AccountsInit
<1> QED
  BY <1>1, <1>2, <1>3, <1>4 DEF AccountsInit, AccountsTypeOK

(* Every variable keeps its type.                                          *)
THEOREM AccountsTypeCorrect == AccountsSpec => []AccountsTypeOK
BY AccountsTypeInit, AccountsTypeStep, PTL DEF AccountsSpec

-----------------------------------------------------------------------------
(* The invariant that both safety properties follow from.  An account is   *)
(* early while it has not been created, lives, or a pass that read it      *)
(* alive still makes things for it; once it is not, it never is again.     *)

Forward(a) == where[a] \in {"orgType", "accountType", "workspace", "info", "ready"}
Backward(a) ==
  where[a] \in {"finalizeWorkspace", "finalizeOrgType", "finalizeAccountType", "release"}
Early(a) == a \notin born \/ accounts[a].state = "live" \/ Forward(a)
Rising == {"none", "scheduling", "initializing", "ready"}
Gone(a) == ~Early(a) /\ ws[a].phase \in {"none", "terminating", "emptying"}
Waits(a, e) == pend[a][e] # {"idle"}

(* Finalizers are on an account before anything is made for it.            *)
AccountOk(a) ==
  /\ a \notin born => accounts[a] = NoAccount /\ where[a] = "idle" /\ ws[a].phase = "none"
  /\ accounts[a].state = "none" => accounts[a] = NoAccount
  /\ Forward(a) => Present(accounts[a]) /\ OwnFinalizers(a) \subseteq accounts[a].fins
  /\ accounts[a].state = "live" => ~Backward(a)

(* The workspace of an early account only rises, so that what the cache    *)
(* shows of it stays true.                                                 *)
WorkspaceOk(a) ==
  /\ Early(a) =>
       /\ ws[a].phase \in Rising
       /\ wseen[a] = "ready" => ws[a].phase = "ready"
       /\ info[a].state = "none" => \A e \in Engines : ~Waits(a, e)
       /\ ws[a].phase = "none" => info[a] = NoInfo /\ a \notin init /\ wseen[a] = "none"
  /\ ws[a].phase = "scheduling" => a \notin init
  /\ accounts[a].state = "live" /\ accounts[a].ready => ws[a].phase = "ready"

(* The AccountInfo is complete when the workspace becomes ready and        *)
(* outlasts it until it is emptied.                                        *)
InfoOk(a) ==
  /\ info[a].state = "none" => info[a] = NoInfo
  /\ Present(info[a]) => info[a].org /\ (~IsOrg(a) => info[a].oidc)
  /\ info[a].state = "deleting" => ws[a].phase = "emptying"
  /\ a \in init /\ ws[a].phase = "initializing" => Present(info[a])
  /\ ws[a].phase = "ready" => Present(info[a]) /\ info[a].oidc

(* What a child copies is complete, and only its org's end takes the       *)
(* tuples of a child with a usable workspace.                              *)
ChildOk(a) ==
  ~IsOrg(a) =>
    /\ Present(accounts[a]) =>
         /\ ws[Parent[a]].phase \in {"ready", "terminating", "emptying"}
         /\ Present(info[Parent[a]]) => info[Parent[a]].oidc
    /\ ws[a].phase = "ready" => a \in tuples \/ Gone(OrgOf[a])

ResOk(a) ==
  IsOrg(a) => \A r \in Resources : res[a][r] = "deleting" => ws[a].phase = "terminating"

(* A guarded AccountInfo loses a finalizer only after what that finalizer  *)
(* waits for is gone, and what an engine is about to write was read after  *)
(* that too.                                                               *)
GuardOk(a) ==
  /\ info[a].guarded =>
       /\ info[a].state = "deleting"
       /\ \A x \in Engines : x \notin info[a].fins => MayFinalize(a, x)
       /\ \A e, x \in Engines : Waits(a, e) /\ x \notin pend[a][e] => MayFinalize(a, x)
  /\ info[a].state = "live" =>
       \A e \in Engines : Waits(a, e) =>
         e \in pend[a][e] /\ e \notin info[a].fins /\ pend[a][e] \ {e} \subseteq info[a].fins

AccountsInv ==
  /\ AccountsTypeOK
  /\ \A a \in Account : AccountOk(a) /\ WorkspaceOk(a) /\ InfoOk(a)
  /\ \A a \in Account : ChildOk(a) /\ ResOk(a) /\ GuardOk(a)

LEMMA Points ==
  ASSUME AccountsTypeOK, NEW b \in Account
  PROVE  /\ accounts[b] \in AccountObject /\ ws[b] \in WorkspaceObject
         /\ info[b] \in InfoObject /\ wseen[b] \in Phase /\ where[b] \in PassLabel
         /\ read[b] \in SUBSET {"type", "workspace"}
BY DEF AccountsTypeOK

(* A move of one account's own object and pass.                            *)
Passes(a) ==
  /\ a \in born
  /\ \A b \in Account : b # a => accounts'[b] = accounts[b] /\ where'[b] = where[b]
  /\ accounts'[a].state = "none" => accounts'[a] = NoAccount
  /\ accounts'[a].state # "none" => accounts[a].state # "none"
  /\ accounts'[a].state = "live" => accounts[a].state = "live" /\ ~Backward(a)'
  /\ Forward(a)' => /\ Forward(a) \/ accounts[a].state = "live"
                    /\ Present(accounts'[a]) /\ OwnFinalizers(a) \subseteq accounts'[a].fins
  /\ accounts'[a].state = "live" /\ accounts'[a].ready => accounts[a].ready \/ ws[a].phase = "ready"

PassFrame == <<ws, info, binding, res, tuples, wseen, pend, init, born>>

LEMMA PassesKeep ==
  ASSUME AccountsInv, AccountsTypeOK', NEW a \in Account, Passes(a), UNCHANGED PassFrame
  PROVE  AccountsInv'
<1>1. \A b \in Account : Early(b)' => Early(b)
  BY DEF Passes, PassFrame, Early, Forward
<1>2. \A b \in Account : Present(accounts'[b]) => Present(accounts[b])
  BY DEF Passes, Present
<1>3. \A b \in Account : Gone(b) => Gone(b)'
  BY <1>1 DEF PassFrame, Gone
<1>4. \A b \in Account : AccountOk(b)'
  BY DEF AccountsInv, AccountOk, Passes, PassFrame, Forward, Backward
<1>5. \A b \in Account : WorkspaceOk(b)'
  <2> SUFFICES ASSUME NEW b \in Account
               PROVE  WorkspaceOk(b)'
    OBVIOUS
  <2>1. accounts'[b].state = "live" /\ accounts'[b].ready => ws[b].phase = "ready"
    BY DEF AccountsInv, WorkspaceOk, Passes
  <2> QED
    BY <1>1, <2>1 DEF AccountsInv, WorkspaceOk, PassFrame, Waits
<1>6. \A b \in Account : InfoOk(b)'
  BY DEF AccountsInv, InfoOk, PassFrame, Present
<1>7. \A b \in Account : ChildOk(b)'
  BY <1>2, <1>3, TreeAssumption, AccountsAssumption DEF AccountsInv, ChildOk, PassFrame, IsOrg
<1>8. \A b \in Account : ResOk(b)'
  BY DEF AccountsInv, ResOk, PassFrame
<1>9. \A b \in Account : GuardOk(b)'
  <2>1. \A b \in Account, x \in Engines : MayFinalize(b, x) => MayFinalize(b, x)'
    BY <1>2 DEF PassFrame, MayFinalize, NoAccountsListed, NoBindingFinalizer, Children
  <2> QED
    BY <2>1 DEF AccountsInv, GuardOk, PassFrame, Waits
<1> QED
  BY <1>4, <1>5, <1>6, <1>7, <1>8, <1>9 DEF AccountsInv

LEMMA EndOfPassIsPass ==
  ASSUME AccountsInv, NEW a \in Account, NEW ready \in BOOLEAN, EndOfPass(a, ready),
         where[a] # "idle", born' = born,
         ready => ws[a].phase = "ready"
  PROVE  Passes(a)
<1>1. accounts[a] \in AccountObject /\ a \in born /\ AccountOk(a)
  BY Points DEF AccountsInv, AccountOk
<1>2. \A b \in Account : b # a => accounts'[b] = accounts[b] /\ where'[b] = where[b]
  BY DEF EndOfPass, Rest, AccountsInv, AccountsTypeOK
<1>3. where'[a] = "idle"
  BY DEF EndOfPass, Rest, AccountsInv, AccountsTypeOK
<1>4. accounts'[a] = IF Present(accounts[a]) THEN [accounts[a] EXCEPT !.ready = ready]
                     ELSE accounts[a]
  BY DEF EndOfPass, AccountsInv, AccountsTypeOK
<1> QED
  BY <1>1, <1>2, <1>3, <1>4
     DEF Passes, Present, AccountObject, AccountOk, Forward, Backward, NoAccount

LEMMA PassActions ==
  ASSUME AccountsInv, NEW a \in Account,
         \/ DeleteAccount(a) \/ AccountStart(a) \/ AddFinalizers(a) \/ WorkspaceTypeProcess(a)
         \/ WorkspaceReadyProcess(a) \/ WorkspaceTypeFinalize(a) \/ ReleaseAccount(a)
         \/ PassFails(a)
  PROVE  Passes(a) /\ UNCHANGED PassFrame
<1> USE DEF objects, orgObjects, pass
<1>1. /\ accounts[a] \in AccountObject /\ AccountOk(a) /\ WorkspaceOk(a)
      /\ read[a] \in SUBSET {"type", "workspace"}
  BY Points DEF AccountsInv
<1>2. UNCHANGED PassFrame
  BY DEF PassFrame, DeleteAccount, AccountStart, AddFinalizers, WorkspaceTypeProcess,
         WorkspaceReadyProcess, WorkspaceTypeFinalize, ReleaseAccount, PassFails
<1>3. /\ accounts[a].state # "none" => a \in born
      /\ where[a] # "idle" => a \in born
  BY <1>1 DEF AccountOk, NoAccount
<1>4. \A to : Present(accounts[a]) =>
        LET o == PatchedFins(accounts[a], to)
        IN  /\ o.state = accounts[a].state /\ o.ready = accounts[a].ready
            /\ o.fins \in {accounts[a].fins, to}
  BY <1>1 DEF PatchedFins, AccountObject, Present
<1>5. CASE DeleteAccount(a)
  <2>1. accounts'[a] = Deleted(accounts[a])
    BY <1>5 DEF DeleteAccount, AccountsInv, AccountsTypeOK
  <2>2. /\ accounts'[a].fins = {} => accounts'[a] = NoAccount
        /\ accounts'[a].state \in {"none", "deleting"}
        /\ accounts'[a].fins # {} => Present(accounts'[a]) /\ accounts'[a].fins = accounts[a].fins
        /\ accounts[a].fins # {} => Present(accounts'[a]) /\ accounts'[a].fins = accounts[a].fins
    BY <1>1, <2>1 DEF Deleted, CollectAccount, NoAccount, AccountObject, Present
  <2>3. \A b \in Account : b # a => accounts'[b] = accounts[b]
    BY <1>5 DEF DeleteAccount, AccountsInv, AccountsTypeOK
  <2>4. OwnFinalizers(a) # {}
    BY DEF OwnFinalizers
  <2>5. where' = where /\ accounts[a].state = "live"
    BY <1>5 DEF DeleteAccount
  <2>6. accounts'[a].state = "none" => accounts'[a] = NoAccount
    BY <2>2 DEF Present
  <2> QED
    BY <1>1, <1>2, <1>3, <2>2, <2>3, <2>4, <2>5, <2>6 DEF Passes, AccountOk, Forward
<1>6. CASE AccountStart(a)
  <2>1. /\ accounts' = accounts /\ Present(accounts[a])
        /\ \A b \in Account : b # a => where'[b] = where[b]
    BY <1>6 DEF AccountStart, AccountsInv, AccountsTypeOK
  <2>2. \/ accounts[a].state = "deleting" /\ where'[a] = "finalizeWorkspace"
        \/ accounts[a].state = "live" /\ where'[a] = "fins"
        \/ /\ accounts[a].state = "live" /\ OwnFinalizers(a) \subseteq accounts[a].fins
           /\ where'[a] \in {"orgType", "workspace"}
    BY <1>1, <1>6 DEF AccountStart, AccountsInv, AccountsTypeOK, AccountObject, Present
  <2> QED
    BY <1>1, <1>2, <1>3, <2>1, <2>2 DEF Passes, AccountOk, Forward, Backward, Present
<1>7. CASE AddFinalizers(a)
  <2>1. /\ where'[a] = "idle" /\ where[a] = "fins"
        /\ \A b \in Account : b # a => accounts'[b] = accounts[b] /\ where'[b] = where[b]
        /\ accounts'[a] = PatchedFins(accounts[a], read[a] \cup OwnFinalizers(a))
    BY <1>7 DEF AddFinalizers, Rest, AccountsInv, AccountsTypeOK
  <2>2. ~Present(accounts[a]) => accounts'[a] = accounts[a]
    BY <2>1 DEF PatchedFins
  <2> QED
    BY <1>1, <1>2, <1>3, <1>4, <2>1, <2>2
       DEF Passes, AccountOk, Forward, Backward, Present, NoAccount
<1>8. CASE WorkspaceTypeProcess(a) \/ WorkspaceTypeFinalize(a)
  <2>1. /\ accounts' = accounts
        /\ \A b \in Account : b # a => where'[b] = where[b]
        /\ Forward(a)' => Forward(a)
        /\ where[a] # "idle"
        /\ Backward(a)' => Backward(a)
    BY <1>8, LabelNames DEF WorkspaceTypeProcess, WorkspaceTypeFinalize, Goto, Kinds, Forward, Backward,
               AccountsInv, AccountsTypeOK
  <2> QED
    BY <1>1, <1>2, <1>3, <2>1 DEF Passes, AccountOk, Present
<1>9. CASE WorkspaceReadyProcess(a)
  <2>1. WorkspaceIsReady(a) => ws[a].phase = "ready"
    BY <1>1, <1>9 DEF WorkspaceReadyProcess, WorkspaceIsReady, WorkspaceOk, Early, Forward
  <2> QED
    BY <1>2, <1>9, <2>1, EndOfPassIsPass DEF WorkspaceReadyProcess, WorkspaceIsReady
<1>10. CASE ReleaseAccount(a)
  <2> DEFINE o == PatchedFins(accounts[a], read[a] \ OwnFinalizers(a))
  <2>1. /\ where'[a] = "idle" /\ where[a] = "release"
        /\ \A b \in Account : b # a => accounts'[b] = accounts[b] /\ where'[b] = where[b]
        /\ accounts'[a] = CollectAccount(o)
    BY <1>10 DEF ReleaseAccount, Rest, AccountsInv, AccountsTypeOK
  <2>2. ~Present(accounts[a]) => o = accounts[a]
    BY DEF PatchedFins
  <2>3. accounts'[a] = o \/ accounts'[a] = NoAccount
    BY <2>1 DEF CollectAccount
  <2> HIDE DEF o
  <2>4. /\ accounts'[a].state = "none" => accounts'[a] = NoAccount
        /\ accounts'[a].state # "none" => accounts'[a] = o /\ Present(accounts[a])
    BY <1>1, <1>4, <2>2, <2>3 DEF o, Present, AccountOk, NoAccount
  <2> QED
    BY <1>1, <1>2, <1>3, <1>4, <2>1, <2>4
       DEF o, Passes, AccountOk, Forward, Backward, Present
<1>11. CASE PassFails(a)
  <2>1. /\ where'[a] = "idle" /\ where[a] # "idle" /\ accounts' = accounts
        /\ \A b \in Account : b # a => where'[b] = where[b]
    BY <1>11 DEF PassFails, Rest, AccountsInv, AccountsTypeOK
  <2> QED
    BY <1>1, <1>2, <1>3, <2>1 DEF Passes, AccountOk, Forward, Backward, Present
<1> QED
  BY <1>5, <1>6, <1>7, <1>8, <1>9, <1>10, <1>11

(* A move that brings a workspace on, or leaves it and ends a pass of the  *)
(* initializer.                                                            *)
Rises(a) ==
  /\ \A b \in Account : b # a => ws'[b] = ws[b] /\ where'[b] = where[b]
  /\ Forward(a)' => Forward(a)
  /\ Backward(a)' => Backward(a)
  /\ where'[a] # where[a] => Forward(a)
  /\ init' \subseteq init /\ tuples \subseteq tuples'
  /\ \/ ws'[a] = ws[a]
     \/ ws[a].phase = "none" /\ ws'[a].phase = "scheduling" /\ Forward(a) /\ wseen[a] = "none"
     \/ ws[a].phase = "scheduling" /\ ws'[a].phase = "initializing"
     \/ /\ ws[a].phase = "initializing" /\ ws'[a].phase = "ready"
        /\ Present(info[a]) /\ info[a].oidc /\ (IsOrg(a) \/ a \in tuples')

RiseFrame == <<accounts, info, binding, res, wseen, pend, born>>

LEMMA RisesKeep ==
  ASSUME AccountsInv, AccountsTypeOK', NEW a \in Account, Rises(a), UNCHANGED RiseFrame
  PROVE  AccountsInv'
<1>1. \A b \in Account : Early(b)' => Early(b)
  BY DEF Rises, RiseFrame, Early, Forward
<1>2. \A b \in Account : Gone(b) => Gone(b)'
  <2> SUFFICES ASSUME NEW b \in Account, Gone(b)
               PROVE  Gone(b)'
    OBVIOUS
  <2>1. ws'[b] = ws[b]
    BY DEF Rises, Gone, Early
  <2> QED
    BY <1>1, <2>1 DEF Gone
<1>3. \A b \in Account : AccountOk(b)'
  <2> SUFFICES ASSUME NEW b \in Account
               PROVE  AccountOk(b)'
    OBVIOUS
  <2>1. AccountOk(b) /\ where[b] # "idle" => b \in born
    BY DEF AccountsInv, AccountOk
  <2>2. b \notin born => where'[b] = where[b] /\ ws'[b].phase = "none"
    BY <2>1 DEF Rises, AccountsInv, AccountOk, Forward
  <2> QED
    BY <2>1, <2>2 DEF Rises, RiseFrame, AccountsInv, AccountOk, Forward, Backward
<1>4. \A b \in Account : WorkspaceOk(b)'
  <2> SUFFICES ASSUME NEW b \in Account
               PROVE  WorkspaceOk(b)'
    OBVIOUS
  <2>1. CASE ws'[b] = ws[b]
    BY <1>1, <2>1 DEF Rises, RiseFrame, AccountsInv, WorkspaceOk, Waits
  <2>2. CASE b = a /\ ws'[a] # ws[a]
    BY <1>1, <2>2 DEF Rises, RiseFrame, AccountsInv, WorkspaceOk, Waits, Early, Rising
  <2> QED
    BY <2>1, <2>2 DEF Rises
<1>5. \A b \in Account : InfoOk(b)'
  BY DEF Rises, RiseFrame, AccountsInv, InfoOk, WorkspaceOk, Present
<1>6. \A b \in Account : ChildOk(b)'
  <2> SUFFICES ASSUME NEW b \in Account, ~IsOrg(b)
               PROVE  ChildOk(b)'
    BY DEF ChildOk, IsOrg
  <2>1. Parent[b] \in Account /\ OrgOf[b] \in Account
    BY ParentType, TreeAssumption, AccountsAssumption
  <2>2. ws'[b].phase = "ready" => b \in tuples' \/ Gone(OrgOf[b])'
    BY <1>2, <2>1 DEF Rises, AccountsInv, ChildOk
  <2>3. Present(accounts[b]) => ws'[Parent[b]] = ws[Parent[b]]
    BY <2>1 DEF Rises, AccountsInv, ChildOk
  <2> QED
    BY <2>1, <2>2, <2>3 DEF RiseFrame, AccountsInv, ChildOk
<1>7. \A b \in Account : ResOk(b)'
  BY DEF Rises, RiseFrame, AccountsInv, ResOk
<1>8. \A b \in Account : GuardOk(b)'
  <2>1. \A b \in Account, x \in Engines : MayFinalize(b, x) => MayFinalize(b, x)'
    BY DEF RiseFrame, MayFinalize, NoAccountsListed, NoBindingFinalizer
  <2> QED
    BY <2>1 DEF AccountsInv, GuardOk, RiseFrame, Waits
<1> QED
  BY <1>3, <1>4, <1>5, <1>6, <1>7, <1>8 DEF AccountsInv

LEMMA RiseActions ==
  ASSUME AccountsInv, NEW a \in Account,
         \/ Schedule(a) \/ InitEnd(a) \/ InitAuthConfig(a) \/ ReleaseOrg(a) \/ InitTuples(a)
         \/ (\E k \in Kinds : TypeBecomesReady(a, k))
         \/ (WorkspaceProcess(a) /\ Goto(a, "info") /\ accounts' = accounts)
  PROVE  Rises(a) /\ UNCHANGED RiseFrame
<1> USE DEF objects, orgObjects, pass
<1>1. UNCHANGED RiseFrame
  BY DEF RiseFrame, Schedule, InitEnd, InitAuthConfig, ReleaseOrg, InitTuples,
         TypeBecomesReady, WorkspaceProcess
<1>2. ws \in [Account -> WorkspaceObject] /\ InfoOk(a) /\ AccountOk(a)
  BY DEF AccountsInv, AccountsTypeOK
<1>3. \A p \in Phase : LET f == [ws EXCEPT ![a].phase = p]
                       IN  f[a].phase = p /\ \A b \in Account : b # a => f[b] = ws[b]
  BY <1>2 DEF WorkspaceObject
<1>4. /\ where' = where => /\ \A b \in Account : b # a => where'[b] = where[b]
                           /\ Forward(a)' => Forward(a)
                           /\ Backward(a)' => Backward(a)
                           /\ where'[a] # where[a] => Forward(a)
      /\ ws' = ws => /\ \A b \in Account : b # a => ws'[b] = ws[b]
                     /\ ws'[a] = ws[a]
  BY DEF Forward, Backward
<1>5. CASE Schedule(a)
  <2>1. /\ where' = where /\ init' \subseteq init /\ tuples \subseteq tuples'
        /\ ws[a].phase = "scheduling" /\ ws' = [ws EXCEPT ![a].phase = "initializing"]
    BY <1>5 DEF Schedule
  <2> QED
    BY <1>1, <1>3, <1>4, <2>1, PhaseNames DEF Rises
<1>6. CASE InitEnd(a) \/ InitAuthConfig(a) \/ (\E k \in Kinds : TypeBecomesReady(a, k))
  <2>1. where' = where /\ init' \subseteq init /\ tuples \subseteq tuples' /\ ws' = ws
    BY <1>6 DEF InitEnd, InitAuthConfig, TypeBecomesReady
  <2> QED
    BY <1>1, <1>4, <2>1 DEF Rises
<1>7. CASE ReleaseOrg(a) \/ InitTuples(a)
  <2>1. /\ where' = where /\ init' \subseteq init /\ tuples \subseteq tuples'
        /\ a \in init /\ (IsOrg(a) \/ a \in tuples') /\ (IsOrg(a) => info[a].oidc)
        /\ ws' = IF ws[a].phase = "initializing" THEN [ws EXCEPT ![a].phase = "ready"] ELSE ws
    BY <1>7 DEF ReleaseOrg, InitTuples
  <2>2. CASE ws[a].phase = "initializing"
    BY <1>1, <1>2, <1>3, <1>4, <2>1, <2>2, PhaseNames DEF Rises, InfoOk
  <2>3. CASE ws[a].phase # "initializing"
    BY <1>1, <1>4, <2>1, <2>3 DEF Rises
  <2> QED
    BY <2>2, <2>3
<1>8. CASE WorkspaceProcess(a) /\ Goto(a, "info") /\ accounts' = accounts
  <2>1. /\ where[a] = "workspace" /\ where'[a] = "info"
        /\ \A b \in Account : b # a => where'[b] = where[b]
        /\ init' \subseteq init /\ tuples \subseteq tuples'
    BY <1>8 DEF WorkspaceProcess, Goto, AccountsInv, AccountsTypeOK
  <2> DEFINE new == [phase |-> "scheduling", auth |-> types[OrgOf[a]][Kind(a)].auth]
  <2>2. /\ new.phase = "scheduling"
        /\ \/ ws' = ws
           \/ ws[a].phase = "none" /\ wseen[a] = "none" /\ ws' = [ws EXCEPT ![a] = new]
    BY <1>8 DEF WorkspaceProcess, EndOfPass, Rest, Goto, AccountsInv, AccountsTypeOK
  <2> HIDE DEF new
  <2>3. \/ ws' = ws
        \/ /\ ws[a].phase = "none" /\ wseen[a] = "none" /\ ws'[a].phase = "scheduling"
           /\ \A b \in Account : b # a => ws'[b] = ws[b]
    BY <1>2, <2>2
  <2>4. Forward(a) /\ Forward(a)' /\ ~Backward(a)'
    BY <2>1 DEF Forward, Backward
  <2> QED
    BY <1>1, <1>4, <2>1, <2>3, <2>4 DEF Rises
<1> QED
  BY <1>1, <1>5, <1>6, <1>7, <1>8

(* A move that ends a workspace nobody makes things for any more.          *)
Falls(a) ==
  /\ ~Early(a)
  /\ \A b \in Account : b # a => /\ ws'[b] = ws[b] /\ where'[b] = where[b]
                                 /\ b \in tuples => b \in tuples'
  /\ ~Forward(a)'
  /\ \/ ws[a].phase \in {"scheduling", "initializing", "ready"} /\ ws'[a].phase = "terminating"
     \/ /\ ws[a].phase = "terminating" /\ ws'[a].phase = "emptying"
        /\ IsOrg(a) => \A r \in Resources : res[a][r] # "deleting"

FallFrame == <<accounts, info, binding, res, wseen, pend, init, born>>

LEMMA FallsKeep ==
  ASSUME AccountsInv, AccountsTypeOK', NEW a \in Account, Falls(a), UNCHANGED FallFrame
  PROVE  AccountsInv'
<1>1. \A b \in Account : Early(b)' => Early(b)
  BY DEF Falls, FallFrame, Early, Forward
<1>2. \A b \in Account : Gone(b) => Gone(b)'
  BY <1>1 DEF Falls, Gone
<1>3. \A b \in Account : AccountOk(b)'
  BY DEF Falls, FallFrame, AccountsInv, AccountOk, Forward, Backward, Early
<1>4. \A b \in Account : WorkspaceOk(b)'
  BY <1>1 DEF Falls, FallFrame, AccountsInv, WorkspaceOk, Waits, Early
<1>5. \A b \in Account : InfoOk(b)'
  BY DEF Falls, FallFrame, AccountsInv, InfoOk, Present
<1>6. \A b \in Account : ChildOk(b)'
  <2> SUFFICES ASSUME NEW b \in Account, ~IsOrg(b)
               PROVE  ChildOk(b)'
    BY DEF ChildOk, IsOrg
  <2>1. Parent[b] \in Account /\ OrgOf[b] \in Account
    BY ParentType, TreeAssumption, AccountsAssumption
  <2>2. ws'[b].phase = "ready" => b \in tuples' \/ Gone(OrgOf[b])'
    BY <1>2, <2>1 DEF Falls, AccountsInv, ChildOk
  <2>3. Present(accounts[b]) => ws'[Parent[b]].phase \in {"ready", "terminating", "emptying"}
    BY <2>1 DEF Falls, AccountsInv, ChildOk
  <2> QED
    BY <2>1, <2>2, <2>3 DEF FallFrame, AccountsInv, ChildOk
<1>7. \A b \in Account : ResOk(b)'
  BY DEF Falls, FallFrame, AccountsInv, ResOk
<1>8. \A b \in Account : GuardOk(b)'
  <2>1. \A b \in Account, x \in Engines : MayFinalize(b, x) => MayFinalize(b, x)'
    BY DEF FallFrame, MayFinalize, NoAccountsListed, NoBindingFinalizer
  <2> QED
    BY <2>1 DEF AccountsInv, GuardOk, FallFrame, Waits
<1> QED
  BY <1>3, <1>4, <1>5, <1>6, <1>7, <1>8 DEF AccountsInv

LEMMA FallActions ==
  ASSUME AccountsInv, NEW a \in Account,
         \/ GarbageCollect(a) \/ TerminateTuples(a)
         \/ TerminateOrg(a) /\ res[a] = [r \in Resources |-> "none"]
         \/ WorkspaceFinalize(a) /\ ws' # ws
  PROVE  Falls(a) /\ UNCHANGED FallFrame
<1> USE DEF objects, orgObjects, pass
<1>1. UNCHANGED FallFrame
  BY DEF FallFrame, GarbageCollect, TerminateTuples, TerminateOrg, WorkspaceFinalize
<1>2. ws \in [Account -> WorkspaceObject] /\ AccountOk(a) /\ WorkspaceOk(a)
  BY DEF AccountsInv, AccountsTypeOK
<1>3. \A p \in Phase : LET f == [ws EXCEPT ![a].phase = p]
                       IN  f[a].phase = p /\ \A b \in Account : b # a => f[b] = ws[b]
  BY <1>2 DEF WorkspaceObject
<1>4. ws[a].phase = "terminating" => ~Early(a)
  BY <1>2 DEF WorkspaceOk, Rising
<1>5. CASE GarbageCollect(a)
  <2>1. /\ where' = where /\ tuples' = tuples /\ accounts[a] = NoAccount
        /\ ws[a].phase \in {"scheduling", "initializing", "ready"}
        /\ ws' = [ws EXCEPT ![a].phase = "terminating"]
    BY <1>5 DEF GarbageCollect
  <2>2. ~Early(a)
    BY <1>2, <2>1 DEF AccountOk, Early, NoAccount, Present
  <2>3. \A b \in Account : b # a => /\ ws'[b] = ws[b] /\ where'[b] = where[b]
                                    /\ b \in tuples => b \in tuples'
    BY <1>3, <2>1, PhaseNames
  <2>4. ws'[a].phase = "terminating" /\ ~Forward(a)'
    BY <1>3, <2>1, <2>2, PhaseNames DEF Early, Forward
  <2> QED
    BY <1>1, <2>1, <2>2, <2>3, <2>4 DEF Falls
<1>6. CASE TerminateTuples(a) \/ (TerminateOrg(a) /\ res[a] = [r \in Resources |-> "none"])
  <2>1. /\ where' = where /\ \A b \in Account : b # a /\ b \in tuples => b \in tuples'
        /\ ws[a].phase = "terminating"
        /\ ws' = [ws EXCEPT ![a].phase = "emptying"]
        /\ IsOrg(a) => \A r \in Resources : res[a][r] # "deleting"
    BY <1>6 DEF TerminateTuples, TerminateOrg
  <2>2. \A b \in Account : b # a => /\ ws'[b] = ws[b] /\ where'[b] = where[b]
                                    /\ b \in tuples => b \in tuples'
    BY <1>3, <2>1, PhaseNames
  <2>3. ws'[a].phase = "emptying" /\ ~Forward(a)'
    BY <1>3, <1>4, <2>1, PhaseNames DEF Early, Forward
  <2> QED
    BY <1>1, <1>4, <2>1, <2>2, <2>3 DEF Falls
<1>7. CASE WorkspaceFinalize(a) /\ ws' # ws
  <2>1. /\ where[a] = "finalizeWorkspace" /\ Rest(a) /\ tuples' = tuples
        /\ ws[a].phase \in {"scheduling", "initializing", "ready"}
        /\ ws' = [ws EXCEPT ![a].phase = "terminating"]
    BY <1>7 DEF WorkspaceFinalize
  <2>2. where'[a] = "idle" /\ \A b \in Account : b # a => where'[b] = where[b]
    BY <2>1 DEF Rest, AccountsInv, AccountsTypeOK
  <2>3. ~Early(a) /\ ~Forward(a)'
    BY <1>2, <2>1, <2>2 DEF AccountOk, Early, Forward, Backward
  <2>4. ws'[a].phase = "terminating" /\ \A b \in Account : b # a => ws'[b] = ws[b]
    BY <1>3, <2>1, PhaseNames
  <2> QED
    BY <1>1, <2>1, <2>2, <2>3, <2>4 DEF Falls
<1> QED
  BY <1>5, <1>6, <1>7

(* A pass of the account-operator that leaves workspace and AccountInfo    *)
(* alone.                                                                  *)
LEMMA IdlePasses ==
  ASSUME AccountsInv, NEW a \in Account,
         \/ WorkspaceFinalize(a) /\ ws' = ws
         \/ WorkspaceProcess(a) /\ EndOfPass(a, FALSE) /\ ws' = ws
         \/ ManageAccountInfoProcess(a) /\ EndOfPass(a, FALSE) /\ info' = info
  PROVE  Passes(a) /\ UNCHANGED PassFrame
<1> USE DEF objects, orgObjects, pass
<1>1. UNCHANGED PassFrame
  BY DEF PassFrame, WorkspaceFinalize, WorkspaceProcess, ManageAccountInfoProcess
<1>2. CASE WorkspaceFinalize(a)
  <2>1. AccountOk(a)
    BY DEF AccountsInv
  <2>2. /\ accounts' = accounts /\ where[a] = "finalizeWorkspace"
        /\ where'[a] \in {"idle", "finalizeOrgType", "release"}
        /\ \A b \in Account : b # a => where'[b] = where[b]
    BY <1>2 DEF WorkspaceFinalize, Goto, Rest, AccountsInv, AccountsTypeOK
  <2> QED
    BY <1>1, <2>1, <2>2 DEF Passes, AccountOk, Forward, Backward, Present
<1>3. CASE EndOfPass(a, FALSE) /\ where[a] \in {"workspace", "info"}
  BY <1>1, <1>3, EndOfPassIsPass DEF PassFrame
<1> QED
  BY <1>2, <1>3 DEF WorkspaceProcess, ManageAccountInfoProcess

(* A move of the Store or the identity provider of an org.                 *)
Resource(o) ==
  /\ \A b \in Account, r \in Resources :
       IsOrg(b) /\ res'[b][r] = "deleting" => res[b][r] = "deleting" \/ ws[b].phase = "terminating"
  /\ init' \subseteq init
  /\ \A b \in tuples : b \in tuples' \/ ws[OrgOf[b]].phase = "terminating"

ResourceFrame == <<accounts, ws, info, binding, wseen, where, pend, born>>

LEMMA ResourceKeeps ==
  ASSUME AccountsInv, AccountsTypeOK', NEW o, Resource(o), UNCHANGED ResourceFrame
  PROVE  AccountsInv'
<1>1. \A b \in Account : (Early(b) <=> Early(b)') /\ (Gone(b) <=> Gone(b)')
  BY DEF ResourceFrame, Early, Gone, Forward
<1>2. \A b \in Account : AccountOk(b)' /\ WorkspaceOk(b)' /\ InfoOk(b)'
  BY <1>1 DEF Resource, ResourceFrame, AccountsInv, AccountOk, WorkspaceOk, InfoOk, Waits, Forward,
              Backward, Present
<1>3. \A b \in Account : ResOk(b)'
  BY DEF Resource, ResourceFrame, AccountsInv, ResOk
<1>4. \A b \in Account : ChildOk(b)'
  <2> SUFFICES ASSUME NEW b \in Account, ~IsOrg(b)
               PROVE  ChildOk(b)'
    BY DEF ChildOk, IsOrg
  <2>1. OrgOf[b] \in Account
    BY TreeAssumption, AccountsAssumption
  <2>2. ws[OrgOf[b]].phase = "terminating" => Gone(OrgOf[b])
    BY <2>1 DEF AccountsInv, WorkspaceOk, Gone, Rising
  <2>3. ws'[b].phase = "ready" => b \in tuples' \/ Gone(OrgOf[b])'
    BY <1>1, <2>1, <2>2 DEF Resource, ResourceFrame, AccountsInv, ChildOk
  <2> QED
    BY <2>3 DEF ResourceFrame, AccountsInv, ChildOk, Present
<1>5. \A b \in Account : GuardOk(b)'
  <2>1. \A b \in Account, x \in Engines : MayFinalize(b, x) => MayFinalize(b, x)'
    BY DEF ResourceFrame, MayFinalize, NoAccountsListed, NoBindingFinalizer
  <2> QED
    BY <2>1 DEF AccountsInv, GuardOk, ResourceFrame, Waits
<1> QED
  BY <1>2, <1>3, <1>4, <1>5 DEF AccountsInv

LEMMA ResourceActions ==
  ASSUME AccountsInv, NEW a \in Account,
         \/ InitResource(a) \/ (a \in Orgs /\ \E r \in Resources : Settle(a, r))
         \/ TerminateOrg(a) /\ res[a] # [r \in Resources |-> "none"]
  PROVE  Resource(a) /\ UNCHANGED ResourceFrame
<1> USE DEF objects, orgObjects, pass
<1>1. CASE InitResource(a)
  <2>1. UNCHANGED ResourceFrame /\ init' \subseteq init /\ tuples' = tuples
    BY <1>1 DEF InitResource, ResourceFrame
  <2>2. \A b \in Orgs, r \in Resources : res'[b][r] = res[b][r] \/ res'[b][r] = "pending"
    BY <1>1 DEF InitResource, Awaited, Resources, AccountsInv, AccountsTypeOK
  <2> QED
    BY <2>1, <2>2 DEF Resource, IsOrg
<1>2. ASSUME NEW r \in Resources, a \in Orgs, Settle(a, r)
      PROVE  Resource(a) /\ UNCHANGED ResourceFrame
  <2>1. UNCHANGED ResourceFrame /\ init' \subseteq init
    BY <1>2 DEF Settle, ResourceFrame
  <2>2. \A b \in Orgs, s \in Resources : res'[b][s] = res[b][s] \/ res'[b][s] \in {"ready", "none"}
    BY <1>2 DEF Settle, AccountsInv, AccountsTypeOK
  <2>3. res[a][r] = "deleting" => ws[a].phase = "terminating"
    BY <1>2 DEF AccountsInv, ResOk, IsOrg
  <2>4. \A b \in tuples : b \in tuples' \/ ws[OrgOf[b]].phase = "terminating"
    BY <1>2, <2>3 DEF Settle
  <2> QED
    BY <2>1, <2>2, <2>4 DEF Resource, IsOrg
<1>3. CASE TerminateOrg(a) /\ res[a] # [r \in Resources |-> "none"]
  <2>1. UNCHANGED ResourceFrame /\ init' = init /\ tuples' = tuples /\ ws[a].phase = "terminating"
    BY <1>3 DEF TerminateOrg, ResourceFrame
  <2>2. \A b \in Orgs, s \in Resources : b # a => res'[b][s] = res[b][s]
    BY <1>3 DEF TerminateOrg, AccountsInv, AccountsTypeOK
  <2> QED
    BY <2>1, <2>2 DEF Resource, IsOrg
<1> QED
  BY <1>1, <1>2, <1>3

LEMMA CreateKeeps ==
  ASSUME AccountsInv, AccountsTypeOK', NEW a \in Account, CreateAccount(a)
  PROVE  AccountsInv'
<1> USE DEF objects, orgObjects, pass
<1>1. /\ a \notin born /\ born' = born \cup {a} /\ accounts[a] = NoAccount /\ where[a] = "idle"
      /\ ~IsOrg(a) => ws[Parent[a]].phase = "ready"
      /\ \A b \in Account : b # a => accounts'[b] = accounts[b]
      /\ accounts'[a].state = "live" /\ accounts'[a].ready = FALSE
      /\ UNCHANGED <<ws, info, binding, res, tuples, wseen, where, pend, init>>
  BY DEF CreateAccount, AccountsInv, AccountsTypeOK, AccountOk, NoAccount
<1>2. \A b \in Account : (Early(b) <=> Early(b)') /\ (Gone(b) <=> Gone(b)')
  BY <1>1 DEF Early, Gone, Forward
<1>3. \A b \in Account : AccountOk(b)'
  BY <1>1 DEF AccountsInv, AccountOk, Forward, Backward, Present
<1>4. \A b \in Account : WorkspaceOk(b)' /\ InfoOk(b)' /\ ResOk(b)'
  BY <1>1, <1>2 DEF AccountsInv, WorkspaceOk, InfoOk, ResOk, Waits, Present
<1>5. \A b \in Account : ChildOk(b)'
  <2> SUFFICES ASSUME NEW b \in Account, ~IsOrg(b)
               PROVE  ChildOk(b)'
    BY DEF ChildOk, IsOrg
  <2>1. Parent[b] \in Account /\ OrgOf[b] \in Account
    BY ParentType, TreeAssumption, AccountsAssumption
  <2>2. b = a => ws[Parent[b]].phase = "ready" /\ info[Parent[b]].oidc
    BY <1>1, <2>1 DEF AccountsInv, InfoOk
  <2>3. ws'[b].phase = "ready" => b \in tuples' \/ Gone(OrgOf[b])'
    BY <1>1, <1>2, <2>1 DEF AccountsInv, ChildOk
  <2> QED
    BY <1>1, <2>2, <2>3 DEF AccountsInv, ChildOk, Present
<1>6. \A b \in Account : GuardOk(b)'
  <2> SUFFICES ASSUME NEW b \in Account
               PROVE  GuardOk(b)'
    OBVIOUS
  <2>1. info[b].guarded => ws[b].phase = "emptying"
    BY DEF AccountsInv, GuardOk, InfoOk
  <2>2. info[b].guarded => \A x \in Engines : MayFinalize(b, x) => MayFinalize(b, x)'
    BY <1>1, <2>1
       DEF MayFinalize, NoAccountsListed, NoBindingFinalizer, Children, IsOrg, Present
  <2> QED
    BY <1>1, <2>2 DEF AccountsInv, GuardOk, Waits
<1> QED
  BY <1>3, <1>4, <1>5, <1>6 DEF AccountsInv

LEMMA BindingKeeps ==
  ASSUME AccountsInv, AccountsTypeOK', NEW a \in Account, BindAPI(a) \/ FinalizeBinding(a)
  PROVE  AccountsInv'
<1> USE DEF objects, orgObjects, pass
<1>1. UNCHANGED <<accounts, ws, info, res, tuples, wseen, where, pend, init, born>>
  BY DEF BindAPI, FinalizeBinding
<1>2. \A b \in Account : (Early(b) <=> Early(b)') /\ (Gone(b) <=> Gone(b)')
  BY <1>1 DEF Early, Gone, Forward
<1>3. \A b \in Account : AccountOk(b)' /\ WorkspaceOk(b)' /\ InfoOk(b)' /\ ResOk(b)'
  BY <1>1, <1>2 DEF AccountsInv, AccountOk, WorkspaceOk, InfoOk, ResOk, Waits, Forward, Backward,
                    Present
<1>4. \A b \in Account : ChildOk(b)'
  BY <1>1, <1>2, TreeAssumption, AccountsAssumption DEF AccountsInv, ChildOk, IsOrg, Present
<1>5. \A b \in Account : GuardOk(b)'
  <2> SUFFICES ASSUME NEW b \in Account
               PROVE  GuardOk(b)'
    OBVIOUS
  <2>1. info[b].guarded => ws[b].phase = "emptying"
    BY DEF AccountsInv, GuardOk, InfoOk
  <2>2. info[b].guarded => (binding[b] = "none" => binding'[b] = "none")
    BY <2>1 DEF BindAPI, FinalizeBinding, AccountsInv, AccountsTypeOK
  <2>3. info[b].guarded => \A x \in Engines : MayFinalize(b, x) => MayFinalize(b, x)'
    BY <1>1, <2>2 DEF MayFinalize, NoAccountsListed, NoBindingFinalizer
  <2> QED
    BY <1>1, <2>3 DEF AccountsInv, GuardOk, Waits
<1> QED
  BY <1>3, <1>4, <1>5 DEF AccountsInv

LEMMA ViewKeeps ==
  ASSUME AccountsInv, AccountsTypeOK', NEW a \in Account, SyncWorkspace(a) \/ InitStart(a)
  PROVE  AccountsInv'
<1> USE DEF objects, orgObjects, pass
<1>1. UNCHANGED <<accounts, ws, info, binding, res, tuples, where, pend, born>>
  BY DEF SyncWorkspace, InitStart
<1>2. \A b \in Account : (Early(b) <=> Early(b)') /\ (Gone(b) <=> Gone(b)')
  BY <1>1 DEF Early, Gone, Forward
<1>3. \A b \in Account : wseen'[b] = wseen[b] \/ wseen'[b] = ws[b].phase
  BY DEF SyncWorkspace, InitStart, AccountsInv, AccountsTypeOK
<1>4. \A b \in Account : b \in init' => b \in init \/ (ws[b].phase = "initializing" /\ Present(info[b]))
  BY DEF SyncWorkspace, InitStart
<1>5. \A b \in Account : AccountOk(b)' /\ ResOk(b)'
  BY <1>1 DEF AccountsInv, AccountOk, ResOk, Forward, Backward, Present
<1>6. \A b \in Account : WorkspaceOk(b)' /\ InfoOk(b)'
  BY <1>1, <1>2, <1>3, <1>4 DEF AccountsInv, WorkspaceOk, InfoOk, Waits, Present
<1>7. \A b \in Account : ChildOk(b)'
  BY <1>1, <1>2, TreeAssumption, AccountsAssumption DEF AccountsInv, ChildOk, IsOrg, Present
<1>8. \A b \in Account : GuardOk(b)'
  <2>1. \A b \in Account, x \in Engines : MayFinalize(b, x) => MayFinalize(b, x)'
    BY <1>1 DEF MayFinalize, NoAccountsListed, NoBindingFinalizer
  <2> QED
    BY <1>1, <2>1 DEF AccountsInv, GuardOk, Waits
<1> QED
  BY <1>5, <1>6, <1>7, <1>8 DEF AccountsInv

(* A move that completes the AccountInfo of a.                             *)
Completes(a) ==
  /\ \A b \in Account : b # a => info'[b] = info[b] /\ where'[b] = where[b]
  /\ Forward(a)' => Forward(a)
  /\ ~Backward(a)' \/ Backward(a)
  /\ where'[a] # "idle" => where[a] # "idle"
  /\ info'[a].fins = info[a].fins /\ info'[a].guarded = info[a].guarded
  /\ \/ info'[a].state = info[a].state /\ Present(info[a])
     \/ /\ info[a].state = "none" /\ info'[a].state = "live" /\ Early(a)
        /\ ws[a].phase # "none"
  /\ info'[a].org /\ (~IsOrg(a) => info'[a].oidc)
  /\ info[a].oidc => info'[a].oidc

InfoFrame == <<accounts, ws, binding, res, tuples, wseen, pend, init, born>>

LEMMA CompletesKeep ==
  ASSUME AccountsInv, AccountsTypeOK', NEW a \in Account, Completes(a), UNCHANGED InfoFrame
  PROVE  AccountsInv'
<1>1. \A b \in Account : (Early(b)' => Early(b)) /\ (Gone(b) => Gone(b)')
  BY DEF Completes, InfoFrame, Early, Gone, Forward
<1>2. \A b \in Account : AccountOk(b)' /\ ResOk(b)'
  BY DEF Completes, InfoFrame, AccountsInv, AccountOk, ResOk, Present, Forward, Backward
<1>3. \A b \in Account : InfoOk(b)'
  BY DEF Completes, InfoFrame, AccountsInv, InfoOk, Present
<1>4. \A b \in Account : WorkspaceOk(b)'
  <2>1. \A b \in Account : b # a => WorkspaceOk(b)'
    BY <1>1 DEF Completes, InfoFrame, AccountsInv, WorkspaceOk, Waits
  <2>2. Early(a) => ws[a].phase # "none"
    BY DEF Completes, AccountsInv, WorkspaceOk, Present, NoInfo
  <2>3. WorkspaceOk(a)'
    BY <1>1, <2>2 DEF Completes, InfoFrame, AccountsInv, WorkspaceOk, Waits, Present
  <2> QED
    BY <2>1, <2>3
<1>5. \A b \in Account : ChildOk(b)'
  <2> SUFFICES ASSUME NEW b \in Account, ~IsOrg(b)
               PROVE  ChildOk(b)'
    BY DEF ChildOk, IsOrg
  <2>1. Parent[b] \in Account /\ OrgOf[b] \in Account
    BY ParentType, TreeAssumption, AccountsAssumption
  <2>2. ws'[b].phase = "ready" => b \in tuples' \/ Gone(OrgOf[b])'
    BY <1>1, <2>1 DEF InfoFrame, AccountsInv, ChildOk
  <2>3. Present(accounts[b]) /\ Present(info'[Parent[b]]) => info'[Parent[b]].oidc
    <3>1. CASE Parent[b] # a
      BY <2>1, <3>1 DEF Completes, AccountsInv, ChildOk
    <3>2. CASE Parent[b] = a /\ Present(info[a])
      BY <2>1, <3>2 DEF Completes, AccountsInv, ChildOk
    <3>3. CASE Parent[b] = a /\ ~Present(info[a])
      <4>1. Early(a) /\ ws[a].phase \in Rising /\ ws[a].phase # "ready"
        BY <2>1, <3>3 DEF Completes, AccountsInv, WorkspaceOk, InfoOk, Present
      <4> QED
        BY <2>1, <3>3, <4>1 DEF AccountsInv, ChildOk, Rising
    <3> QED
      BY <3>1, <3>2, <3>3
  <2> QED
    BY <2>2, <2>3 DEF InfoFrame, AccountsInv, ChildOk, Present
<1>6. \A b \in Account : GuardOk(b)'
  <2>1. \A b \in Account, x \in Engines : MayFinalize(b, x) => MayFinalize(b, x)'
    BY DEF InfoFrame, MayFinalize, NoAccountsListed, NoBindingFinalizer
  <2>2. info[a].state = "none" /\ Early(a) => \A e \in Engines : ~Waits(a, e)
    BY DEF AccountsInv, WorkspaceOk
  <2>3. info[a].state = "none" => info[a].guarded = FALSE
    BY DEF AccountsInv, InfoOk, NoInfo
  <2>4. GuardOk(a)'
    BY <2>1, <2>2, <2>3 DEF Completes, InfoFrame, AccountsInv, GuardOk, Waits
  <2>5. \A b \in Account : b # a => GuardOk(b)'
    BY <2>1 DEF Completes, InfoFrame, AccountsInv, GuardOk, Waits
  <2> QED
    BY <2>4, <2>5
<1> QED
  BY <1>2, <1>3, <1>4, <1>5, <1>6 DEF AccountsInv

LEMMA CompleteActions ==
  ASSUME AccountsInv, NEW a \in Account,
         \/ patchAccountInfo(a)
         \/ ManageAccountInfoProcess(a) /\ Goto(a, "ready")
  PROVE  Completes(a) /\ UNCHANGED InfoFrame
<1> USE DEF objects, orgObjects, pass
<1>1. info[a] \in InfoObject /\ InfoOk(a) /\ (~IsOrg(a) => InfoOk(Parent[a]) /\ ChildOk(a))
  BY Points, ParentType DEF AccountsInv
<1>2. CASE patchAccountInfo(a)
  <2>1. /\ UNCHANGED InfoFrame /\ where' = where /\ Present(info[a]) /\ IsOrg(a)
        /\ info'[a] = [info[a] EXCEPT !.oidc = TRUE]
        /\ \A b \in Account : b # a => info'[b] = info[b]
    BY <1>2 DEF patchAccountInfo, InfoFrame, AccountsInv, AccountsTypeOK
  <2> QED
    BY <1>1, <2>1 DEF Completes, InfoObject, InfoOk, Forward, Backward
<1>3. CASE ManageAccountInfoProcess(a) /\ Goto(a, "ready")
  <2>1. /\ where[a] = "info" /\ where'[a] = "ready"
        /\ \A b \in Account : b # a => where'[b] = where[b]
    BY <1>3 DEF ManageAccountInfoProcess, Goto, AccountsInv, AccountsTypeOK
  <2>2. /\ UNCHANGED <<ws, binding, res, tuples, wseen, pend, init, born>>
        /\ ws[a].phase \in {"initializing", "ready"}
        /\ ~IsOrg(a) => Present(info[Parent[a]])
        /\ info' = [info EXCEPT ![a] = desiredInfo(a, @)] /\ accounts' = accounts
    BY <1>3, <2>1 DEF ManageAccountInfoProcess, EndOfPass, Rest, AccountsInv, AccountsTypeOK
  <2>3. /\ info'[a] = desiredInfo(a, info[a])
        /\ \A b \in Account : b # a => info'[b] = info[b]
    BY <2>2 DEF AccountsInv, AccountsTypeOK
  <2>4. ~IsOrg(a) => info[Parent[a]].org /\ info[Parent[a]].oidc
    BY <1>1, <2>1, <2>2 DEF InfoOk, ChildOk, AccountsInv, AccountOk, Forward
  <2>5. info'[a].org /\ (~IsOrg(a) => info'[a].oidc) /\ (info[a].oidc => info'[a].oidc)
    BY <1>1, <2>3, <2>4 DEF desiredInfo, InfoObject
  <2>6. /\ info'[a].fins = info[a].fins /\ info'[a].guarded = info[a].guarded
        /\ info'[a].state = IF info[a].state = "none" THEN "live" ELSE info[a].state
    BY <1>1, <2>3 DEF desiredInfo, InfoObject
  <2>7. Early(a) /\ Forward(a) /\ ~Backward(a)'
    BY <2>1 DEF Early, Forward, Backward
  <2> QED
    BY <2>1, <2>2, <2>3, <2>5, <2>6, <2>7 DEF Completes, InfoFrame, Present
<1> QED
  BY <1>2, <1>3

LEMMA ReadKeeps ==
  ASSUME AccountsInv, AccountsTypeOK', NEW a \in Account, NEW e \in Engines, InfoRead(a, e)
  PROVE  AccountsInv'
<1> USE DEF objects, orgObjects, pass
<1>1. UNCHANGED <<accounts, ws, info, binding, res, tuples, wseen, where, init, born>>
  BY DEF InfoRead
<1>2. \A b \in Account : (Early(b) <=> Early(b)') /\ (Gone(b) <=> Gone(b)')
  BY <1>1 DEF Early, Gone, Forward
<1>3. \A b \in Account, x \in Engines : b # a \/ x # e => pend'[b][x] = pend[b][x]
  BY DEF InfoRead, AccountsInv, AccountsTypeOK
<1>4. \/ /\ info[a].state = "live" /\ e \notin info[a].fins
         /\ pend'[a][e] = info[a].fins \cup {e}
      \/ /\ info[a].state = "deleting" /\ MayFinalize(a, e)
         /\ pend'[a][e] = info[a].fins \ {e}
  BY DEF InfoRead, AccountsInv, AccountsTypeOK
<1>5. \A b \in Account : AccountOk(b)' /\ ResOk(b)' /\ InfoOk(b)'
  BY <1>1 DEF AccountsInv, AccountOk, ResOk, InfoOk, Forward, Backward, Present
<1>6. \A b \in Account : WorkspaceOk(b)'
  BY <1>1, <1>2, <1>3, <1>4 DEF AccountsInv, WorkspaceOk, Waits
<1>7. \A b \in Account : ChildOk(b)'
  BY <1>1, <1>2, TreeAssumption, AccountsAssumption DEF AccountsInv, ChildOk, IsOrg, Present
<1>8. \A b \in Account : GuardOk(b)'
  <2>1. \A b \in Account, x \in Engines : MayFinalize(b, x) <=> MayFinalize(b, x)'
    BY <1>1 DEF MayFinalize, NoAccountsListed, NoBindingFinalizer
  <2>2. \A b \in Account : b # a => GuardOk(b)'
    BY <1>1, <1>3, <2>1 DEF AccountsInv, GuardOk, Waits
  <2>3. info[a].guarded =>
          \A d, x \in Engines : pend'[a][d] # {"idle"} /\ x \notin pend'[a][d] => MayFinalize(a, x)
    <3> SUFFICES ASSUME info[a].guarded, NEW d \in Engines, NEW x \in Engines,
                        pend'[a][d] # {"idle"}, x \notin pend'[a][d]
                 PROVE  MayFinalize(a, x)
      OBVIOUS
    <3>1. info[a].state = "deleting" /\ (x \notin info[a].fins => MayFinalize(a, x))
      BY DEF AccountsInv, GuardOk
    <3>2. CASE d = e
      BY <1>4, <3>1, <3>2
    <3>3. CASE d # e
      BY <1>3, <3>3 DEF AccountsInv, GuardOk, Waits
    <3> QED
      BY <3>2, <3>3
  <2>4. info[a].state = "live" =>
          \A d \in Engines : pend'[a][d] # {"idle"} =>
            d \in pend'[a][d] /\ d \notin info[a].fins /\ pend'[a][d] \ {d} \subseteq info[a].fins
    BY <1>3, <1>4 DEF AccountsInv, GuardOk, Waits
  <2>5. GuardOk(a)'
    BY <1>1, <2>1, <2>3, <2>4 DEF AccountsInv, GuardOk, Waits
  <2> QED
    BY <2>2, <2>5
<1> QED
  BY <1>5, <1>6, <1>7, <1>8 DEF AccountsInv

(* What a finalizer list, written over the one that is there, leaves.      *)
LEMMA WrittenInfo ==
  ASSUME NEW o \in InfoObject, NEW to \in SUBSET Engines
  PROVE  LET n == CollectInfo(PatchedFins(o, to))
         IN  \/ n = o
             \/ o.state = "live" /\ n = [o EXCEPT !.fins = to]
             \/ /\ o.state = "deleting" /\ to \subseteq o.fins /\ to # {}
                /\ n = [o EXCEPT !.fins = to]
             \/ o.state = "deleting" /\ to = {} /\ n = NoInfo
             \/ o.state = "deleting" /\ o.fins = {} /\ n = NoInfo
BY DEF InfoObject, CollectInfo, PatchedFins, Present

LEMMA WriteKeeps ==
  ASSUME AccountsInv, AccountsTypeOK', NEW a \in Account, NEW e \in Engines, InfoWrite(a, e)
  PROVE  /\ AccountsInv'
         /\ info[a].guarded /\ ~Present(info'[a]) => \A x \in Engines : MayFinalize(a, x)
<1> USE DEF objects, orgObjects, pass
<1> DEFINE to == pend[a][e]
           i == info[a]
           n == info'[a]
<1>1. UNCHANGED <<accounts, ws, binding, res, tuples, wseen, where, init, born>>
  BY DEF InfoWrite
<1>2. \A b \in Account : (Early(b) <=> Early(b)') /\ (Gone(b) <=> Gone(b)')
  BY <1>1 DEF Early, Gone, Forward
<1>3. \A b \in Account, x \in Engines : b # a \/ x # e => pend'[b][x] = pend[b][x]
  BY DEF InfoWrite, AccountsInv, AccountsTypeOK
<1>4. /\ to \in SUBSET Engines /\ to # {"idle"} /\ pend'[a][e] = {"idle"}
      /\ i \in InfoObject /\ n = CollectInfo(PatchedFins(i, to))
      /\ \A b \in Account : b # a => info'[b] = info[b]
  <2>1. pend[a][e] \in Pending /\ pend[a][e] # {"idle"}
    BY DEF InfoWrite, AccountsInv, AccountsTypeOK
  <2> QED
    BY <2>1, PendingSets DEF InfoWrite, AccountsInv, AccountsTypeOK
<1>5. \/ n = i
      \/ i.state = "live" /\ n = [i EXCEPT !.fins = to]
      \/ i.state = "deleting" /\ to \subseteq i.fins /\ n = [i EXCEPT !.fins = to]
      \/ i.state = "deleting" /\ (to = {} \/ i.fins = {}) /\ n = NoInfo
  BY <1>4, WrittenInfo
<1>6. /\ n.state = i.state \/ (n = NoInfo /\ i.state = "deleting")
      /\ Present(n) => n.org = i.org /\ n.oidc = i.oidc /\ n.guarded = i.guarded
  BY <1>4, <1>5 DEF InfoObject, NoInfo, Present
<1> HIDE DEF to, i, n
<1>7. InfoOk(a) /\ WorkspaceOk(a) /\ GuardOk(a)
  BY DEF AccountsInv
<1>8. i.state = "deleting" => ws[a].phase = "emptying" /\ ~Early(a)
  BY <1>7 DEF i, InfoOk, WorkspaceOk, Rising
<1>9. \A b \in Account : AccountOk(b)' /\ ResOk(b)'
  BY <1>1 DEF AccountsInv, AccountOk, ResOk, Forward, Backward, Present
<1>10. \A b \in Account : InfoOk(b)'
  <2>1. \A b \in Account : b # a => InfoOk(b)'
    BY <1>1, <1>4 DEF AccountsInv, InfoOk, Present
  <2>2. n.state = "none" => n = NoInfo
    BY <1>5, <1>6, <1>7 DEF i, InfoOk, NoInfo
  <2>3. InfoOk(a)'
    BY <1>1, <1>6, <1>7, <1>8, <2>2 DEF i, n, InfoOk, Present, NoInfo
  <2> QED
    BY <2>1, <2>3
<1>11. \A b \in Account : WorkspaceOk(b)'
  <2>1. \A b \in Account : b # a => WorkspaceOk(b)'
    BY <1>1, <1>2, <1>3, <1>4 DEF AccountsInv, WorkspaceOk, Waits
  <2>2. Early(a) => n.state = i.state /\ (i = NoInfo => n = NoInfo)
    BY <1>5, <1>6, <1>8 DEF NoInfo
  <2>3. WorkspaceOk(a)'
    BY <1>1, <1>2, <1>3, <1>4, <1>7, <2>2 DEF i, n, WorkspaceOk, Waits
  <2> QED
    BY <2>1, <2>3
<1>12. \A b \in Account : ChildOk(b)'
  <2> SUFFICES ASSUME NEW b \in Account, ~IsOrg(b)
               PROVE  ChildOk(b)'
    BY DEF ChildOk, IsOrg
  <2>1. Parent[b] \in Account /\ OrgOf[b] \in Account
    BY ParentType, TreeAssumption, AccountsAssumption
  <2>2. ws'[b].phase = "ready" => b \in tuples' \/ Gone(OrgOf[b])'
    BY <1>1, <1>2, <2>1 DEF AccountsInv, ChildOk
  <2>3. Present(info'[Parent[b]]) => Present(info[Parent[b]]) /\ info'[Parent[b]].oidc = info[Parent[b]].oidc
    BY <1>4, <1>6, <2>1 DEF i, n, Present, NoInfo
  <2> QED
    BY <1>1, <2>2, <2>3 DEF AccountsInv, ChildOk, Present
<1>13. i.guarded => \A x \in Engines : x \notin to \/ x \notin i.fins => MayFinalize(a, x)
  BY <1>4, <1>7 DEF i, to, GuardOk, Waits
<1>14. \A b \in Account : GuardOk(b)'
  <2>1. \A b \in Account, x \in Engines : MayFinalize(b, x) <=> MayFinalize(b, x)'
    BY <1>1 DEF MayFinalize, NoAccountsListed, NoBindingFinalizer
  <2>2. \A b \in Account : b # a => GuardOk(b)'
    BY <1>3, <1>4, <2>1 DEF AccountsInv, GuardOk, Waits
  <2>3. n.guarded =>
          /\ i.guarded /\ n.state = "deleting"
          /\ \A x \in Engines : x \notin n.fins => MayFinalize(a, x)
    BY <1>4, <1>5, <1>6, <1>7, <1>13 DEF i, GuardOk, InfoObject, NoInfo, Present
  <2>4. n.guarded =>
          \A d, x \in Engines : pend'[a][d] # {"idle"} /\ x \notin pend'[a][d] => MayFinalize(a, x)
    BY <1>3, <1>4, <1>7, <2>3 DEF i, GuardOk, Waits
  <2>5. ASSUME n.state = "live", NEW d \in Engines, pend'[a][d] # {"idle"}
        PROVE  d \in pend'[a][d] /\ d \notin n.fins /\ pend'[a][d] \ {d} \subseteq n.fins
    <3>1. i.state = "live" /\ d # e /\ pend'[a][d] = pend[a][d]
      BY <1>3, <1>4, <1>6, <2>5 DEF NoInfo
    <3>2. /\ d \in pend[a][d] /\ d \notin i.fins /\ pend[a][d] \ {d} \subseteq i.fins
          /\ e \in to /\ e \notin i.fins /\ to \ {e} \subseteq i.fins
      BY <1>4, <1>7, <2>5, <3>1 DEF i, to, GuardOk, Waits
    <3>3. Engines = {d, e}
      BY <3>1 DEF Engines
    <3>4. n = i \/ n.fins = to
      BY <1>4, <1>5, <3>1 DEF InfoObject, NoInfo
    <3>5. i.fins \subseteq Engines
      BY <1>4 DEF InfoObject
    <3> QED
      BY <3>1, <3>2, <3>3, <3>4, <3>5
  <2>6. GuardOk(a)'
    BY <2>1, <2>3, <2>4, <2>5 DEF n, GuardOk, Waits
  <2> QED
    BY <2>2, <2>6
<1>15. i.guarded /\ ~Present(n) => \A x \in Engines : MayFinalize(a, x)
  BY <1>5, <1>6, <1>7, <1>13 DEF i, GuardOk, Present, NoInfo
<1> QED
  BY <1>9, <1>10, <1>11, <1>12, <1>14, <1>15 DEF AccountsInv, i, n

LEMMA DeletedAccounts ==
  ASSUME NEW o \in AccountObject
  PROVE  /\ o.fins # {} => Present(Deleted(o)) /\ Deleted(o).fins = o.fins
         /\ Deleted(o).state \in {"none", "deleting"}
         /\ Deleted(o).state = "none" => Deleted(o) = NoAccount
BY DEF Deleted, CollectAccount, NoAccount, AccountObject, Present

LEMMA DeletedInfos ==
  ASSUME NEW o \in InfoObject, o.state = "live", o.guarded = FALSE
  PROVE  /\ DeletedInfo(o).state \in {"none", "deleting"}
         /\ DeletedInfo(o).state = "none" => DeletedInfo(o) = NoInfo
         /\ DeletedInfo(o).guarded => DeletedInfo(o).fins = Engines /\ o.fins = Engines
         /\ Present(DeletedInfo(o)) => /\ DeletedInfo(o).org = o.org /\ DeletedInfo(o).oidc = o.oidc
                                       /\ DeletedInfo(o).state = "deleting"
BY DEF DeletedInfo, CollectInfo, NoInfo, InfoObject, Present

LEMMA EmptyKeeps ==
  ASSUME AccountsInv, AccountsTypeOK', NEW a \in Account, Empty(a)
  PROVE  AccountsInv' /\ (info[a].guarded => info'[a] = info[a])
<1> USE DEF objects, orgObjects, pass
<1>1. /\ UNCHANGED <<res, tuples, wseen, where, pend, init, born>>
      /\ ws[a].phase = "emptying"
      /\ \A b \in Account : b # a => info'[b] = info[b] /\ ws'[b] = ws[b]
      /\ \A b \in Account : binding[b] = "none" => binding'[b] = "none"
  BY DEF Empty, AccountsInv, AccountsTypeOK
<1>2. \A b \in Account :
        \/ accounts'[b] = accounts[b]
        \/ accounts[b].state = "live" /\ accounts'[b] = Deleted(accounts[b])
  BY DEF Empty
<1>3. \/ info'[a] = info[a]
      \/ info[a].state = "live" /\ info'[a] = DeletedInfo(info[a])
  BY DEF Empty, AccountsInv, AccountsTypeOK
<1>4. \/ ws'[a] = ws[a]
      \/ /\ info[a] = NoInfo /\ (\A c \in Children(a) : accounts[c] = NoAccount)
         /\ ws'[a] = NoWorkspace
  BY DEF Empty, AccountsInv, AccountsTypeOK
<1>5. /\ info[a] \in InfoObject /\ \A b \in Account : accounts[b] \in AccountObject
      /\ AccountOk(a) /\ WorkspaceOk(a) /\ InfoOk(a) /\ GuardOk(a)
  BY Points DEF AccountsInv
<1>6. info[a].state = "live" => info[a].guarded = FALSE
  BY <1>5 DEF GuardOk, InfoObject
<1>7. /\ ~Early(a)
      /\ \A b \in Account : Early(b)' => Early(b)
      /\ \A b \in Account : Present(accounts'[b]) => Present(accounts[b])
      /\ \A b \in Account : accounts'[b].state = "live" => accounts'[b] = accounts[b]
  <2>1. ~Early(a)
    BY <1>1, <1>5 DEF WorkspaceOk, Rising
  <2>2. \A b \in Account : accounts'[b].state = "live" => accounts'[b] = accounts[b]
    BY <1>2, <1>5, DeletedAccounts
  <2>3. \A b \in Account : Early(b)' => Early(b)
    BY <1>1, <2>2 DEF Early, Forward
  <2> QED
    BY <1>2, <2>1, <2>2, <2>3 DEF Present
<1>8. ws'[a].phase \in {"none", "emptying"}
  BY <1>1, <1>4 DEF NoWorkspace
<1>9. \A b \in Account : Gone(b) => Gone(b)'
  BY <1>1, <1>7, <1>8 DEF Gone
<1>10. \A b \in Account : AccountOk(b)'
  <2> SUFFICES ASSUME NEW b \in Account
               PROVE  AccountOk(b)'
    OBVIOUS
  <2>1. AccountOk(b)
    BY DEF AccountsInv
  <2>2. a \in born
    BY <1>7 DEF Early
  <2>3. b \notin born => /\ accounts'[b] = NoAccount /\ where'[b] = "idle"
                         /\ ws'[b].phase = "none"
    BY <1>1, <1>2, <2>1, <2>2 DEF AccountOk, NoAccount
  <2>4. accounts'[b].state = "none" => accounts'[b] = NoAccount
    BY <1>2, <1>5, <2>1, DeletedAccounts DEF AccountOk
  <2>5. Forward(b) => Present(accounts'[b]) /\ OwnFinalizers(b) \subseteq accounts'[b].fins
    <3>1. OwnFinalizers(b) # {}
      BY DEF OwnFinalizers
    <3> QED
      BY <1>2, <1>5, <2>1, <3>1, DeletedAccounts DEF AccountOk
  <2> QED
    BY <1>1, <1>7, <2>1, <2>3, <2>4, <2>5 DEF AccountOk, Forward, Backward
<1>11. \A b \in Account : WorkspaceOk(b)'
  <2> SUFFICES ASSUME NEW b \in Account
               PROVE  WorkspaceOk(b)'
    OBVIOUS
  <2>1. WorkspaceOk(b)
    BY DEF AccountsInv
  <2>2. CASE b # a
    BY <1>1, <1>7, <2>1, <2>2 DEF WorkspaceOk, Waits
  <2>3. CASE b = a
    BY <1>7, <1>8, <2>3 DEF WorkspaceOk, Early
  <2> QED
    BY <2>2, <2>3
<1>12. \A b \in Account : InfoOk(b)'
  <2>1. \A b \in Account : b # a => InfoOk(b)'
    BY <1>1 DEF AccountsInv, InfoOk, Present
  <2>2. CASE info'[a] = info[a]
    BY <1>1, <1>4, <1>5, <1>8, <2>1, <2>2 DEF InfoOk, Present, NoInfo
  <2>3. CASE info[a].state = "live" /\ info'[a] = DeletedInfo(info[a])
    <3>1. ws'[a] = ws[a]
      BY <1>4, <2>3 DEF NoInfo
    <3>2. InfoOk(a)'
      BY <1>1, <1>5, <1>6, <2>3, <3>1, DeletedInfos DEF InfoOk, Present
    <3> QED
      BY <2>1, <3>2
  <2> QED
    BY <1>3, <2>2, <2>3
<1>13. \A b \in Account : ChildOk(b)'
  <2> SUFFICES ASSUME NEW b \in Account, ~IsOrg(b)
               PROVE  ChildOk(b)'
    BY DEF ChildOk, IsOrg
  <2>1. Parent[b] \in Account /\ OrgOf[b] \in Account /\ ChildOk(b)
    BY ParentType, TreeAssumption, AccountsAssumption DEF AccountsInv
  <2>2. ws'[b].phase = "ready" => b \in tuples' \/ Gone(OrgOf[b])'
    BY <1>1, <1>8, <1>9, <2>1 DEF ChildOk
  <2>3. Present(accounts[b]) => ws'[Parent[b]] = ws[Parent[b]]
    <3>1. Parent[b] = a => b \in Children(a)
      BY DEF Children, IsOrg
    <3> QED
      BY <1>1, <1>4, <2>1, <3>1 DEF Present, NoAccount
  <2>4. Present(info'[Parent[b]]) => Present(info[Parent[b]]) /\ info'[Parent[b]].oidc = info[Parent[b]].oidc
    <3>1. Present(info'[a]) => Present(info[a]) /\ info'[a].oidc = info[a].oidc
      <4>1. CASE info'[a] = info[a]
        BY <4>1
      <4>2. CASE info[a].state = "live" /\ info'[a] = DeletedInfo(info[a])
        BY <1>5, <1>6, <4>2, DeletedInfos DEF Present
      <4> QED
        BY <1>3, <4>1, <4>2
    <3> QED
      BY <1>1, <2>1, <3>1
  <2> QED
    BY <1>7, <2>1, <2>2, <2>3, <2>4 DEF ChildOk
<1>14. \A b \in Account : ResOk(b)'
  <2>1. \A r \in Resources : IsOrg(a) => res[a][r] # "deleting"
    BY <1>1 DEF AccountsInv, ResOk
  <2> QED
    BY <1>1, <2>1 DEF AccountsInv, ResOk
<1>15. \A b \in Account : GuardOk(b)'
  <2>1. \A b \in Account, x \in Engines : MayFinalize(b, x) => MayFinalize(b, x)'
    <3>1. \A b \in Account : NoAccountsListed(b) => NoAccountsListed(b)'
      BY <1>7 DEF NoAccountsListed, Children
    <3> QED
      BY <1>1, <3>1 DEF MayFinalize, NoBindingFinalizer
  <2>2. \A b \in Account : b # a => GuardOk(b)'
    BY <1>1, <2>1 DEF AccountsInv, GuardOk, Waits
  <2>3. CASE info'[a] = info[a]
    BY <1>1, <1>5, <2>1, <2>2, <2>3 DEF GuardOk, Waits
  <2>4. CASE info[a].state = "live" /\ info'[a] = DeletedInfo(info[a])
    <3>1. info'[a].state # "live"
      BY <1>5, <1>6, <2>4, DeletedInfos
    <3>2. info'[a].guarded => /\ info'[a].state = "deleting" /\ info'[a].fins = Engines
                              /\ \A d \in Engines : ~Waits(a, d)
      <4>1. info'[a].state \in {"none", "deleting"} /\ (info'[a].state = "none" => ~info'[a].guarded)
        <5>1. /\ info'[a].state \in {"none", "deleting"}
              /\ info'[a].state = "none" => info'[a] = NoInfo
          BY <1>5, <1>6, <2>4, DeletedInfos
        <5> QED
          BY <5>1 DEF NoInfo
      <4>2. info'[a].guarded => info'[a].fins = Engines /\ info[a].fins = Engines
        BY <1>5, <1>6, <2>4, DeletedInfos
      <4>3. info[a].fins = Engines => \A d \in Engines : ~Waits(a, d)
        BY <1>5, <2>4 DEF GuardOk
      <4> QED
        BY <4>1, <4>2, <4>3
    <3>3. GuardOk(a)'
      BY <1>1, <3>1, <3>2 DEF GuardOk, Waits
    <3> QED
      BY <2>2, <3>3
  <2> QED
    BY <1>3, <2>3, <2>4
<1>16. info[a].guarded => info'[a] = info[a]
  BY <1>3, <1>5 DEF GuardOk
<1> QED
  BY <1>10, <1>11, <1>12, <1>13, <1>14, <1>15, <1>16 DEF AccountsInv

-----------------------------------------------------------------------------
(* The invariant, and the two properties.                                  *)

LEMMA PassActionsKeep ==
  ASSUME AccountsInv, AccountsTypeOK', NEW a \in Account,
         AccountOperator(a) \/ DeleteAccount(a) \/ PassFails(a)
  PROVE  AccountsInv'
<1>1. CASE \/ DeleteAccount(a) \/ AccountStart(a) \/ AddFinalizers(a) \/ WorkspaceTypeProcess(a)
           \/ WorkspaceReadyProcess(a) \/ WorkspaceTypeFinalize(a) \/ ReleaseAccount(a)
           \/ PassFails(a)
  BY <1>1, PassActions, PassesKeep
<1>2. CASE WorkspaceProcess(a)
  <2>1. \/ Goto(a, "info") /\ accounts' = accounts
        \/ EndOfPass(a, FALSE) /\ ws' = ws
    BY <1>2 DEF WorkspaceProcess
  <2> QED
    BY <1>2, <2>1, RiseActions, RisesKeep, IdlePasses, PassesKeep
<1>3. CASE ManageAccountInfoProcess(a)
  <2>1. \/ Goto(a, "ready")
        \/ EndOfPass(a, FALSE) /\ info' = info
    BY <1>3 DEF ManageAccountInfoProcess
  <2> QED
    BY <1>3, <2>1, CompleteActions, CompletesKeep, IdlePasses, PassesKeep
<1>4. CASE WorkspaceFinalize(a)
  BY <1>4, FallActions, FallsKeep, IdlePasses, PassesKeep
<1> QED
  BY <1>1, <1>2, <1>3, <1>4 DEF AccountOperator

LEMMA AccountsInvStep ==
  ASSUME AccountsInv, [Step]_accountVars
  PROVE  AccountsInv'
<1>1. AccountsTypeOK'
  BY AccountsTypeStep DEF AccountsInv
<1>2. CASE UNCHANGED accountVars
  <2>1. \A b \in Account : (Early(b) <=> Early(b)') /\ (Gone(b) <=> Gone(b)')
    BY <1>2 DEF accountVars, objects, orgObjects, pass, Early, Gone, Forward
  <2>2. \A b \in Account, x \in Engines : MayFinalize(b, x) <=> MayFinalize(b, x)'
    BY <1>2 DEF accountVars, objects, MayFinalize, NoAccountsListed, NoBindingFinalizer
  <2>3. \A b \in Account : AccountOk(b)' /\ WorkspaceOk(b)' /\ InfoOk(b)' /\ ResOk(b)'
    BY <1>2, <2>1 DEF accountVars, objects, orgObjects, pass, AccountsInv, AccountOk, WorkspaceOk,
                      InfoOk, ResOk, Forward, Backward, Waits, Present
  <2>4. \A b \in Account : ChildOk(b)'
    BY <1>2, <2>1, TreeAssumption, AccountsAssumption
       DEF accountVars, objects, orgObjects, AccountsInv, ChildOk, IsOrg, Present
  <2>5. \A b \in Account : GuardOk(b)'
    BY <1>2, <2>2 DEF accountVars, objects, AccountsInv, GuardOk, Waits
  <2> QED
    BY <1>1, <2>3, <2>4, <2>5 DEF AccountsInv
<1>3. ASSUME NEW a \in Account,
             \/ CreateAccount(a) \/ BindAPI(a) \/ SyncWorkspace(a) \/ InitStart(a)
             \/ Empty(a) \/ InfoEngines(a) \/ FinalizeBinding(a)
      PROVE  AccountsInv'
  BY <1>1, <1>3, CreateKeeps, BindingKeeps, ViewKeeps, EmptyKeeps, ReadKeeps, WriteKeeps
     DEF InfoEngines
<1>4. ASSUME NEW a \in Account, AccountOperator(a) \/ DeleteAccount(a) \/ PassFails(a)
      PROVE  AccountsInv'
  BY <1>1, <1>4, PassActionsKeep
<1>5. ASSUME NEW a \in Account,
             \/ Schedule(a) \/ GarbageCollect(a) \/ InitEnd(a) \/ InitProgress(a) \/ Terminator(a)
             \/ (a \in Orgs /\ \E r \in Resources : Settle(a, r))
             \/ (a \in Orgs /\ \E k \in Kinds : TypeBecomesReady(a, k))
      PROVE  AccountsInv'
  <2>1. CASE \/ Schedule(a) \/ InitEnd(a) \/ InitAuthConfig(a) \/ ReleaseOrg(a) \/ InitTuples(a)
             \/ (\E k \in Kinds : TypeBecomesReady(a, k))
    BY <1>1, <2>1, RiseActions, RisesKeep
  <2>2. CASE \/ GarbageCollect(a) \/ TerminateTuples(a)
             \/ TerminateOrg(a) /\ res[a] = [r \in Resources |-> "none"]
    BY <1>1, <2>2, FallActions, FallsKeep
  <2>3. CASE \/ InitResource(a) \/ (a \in Orgs /\ \E r \in Resources : Settle(a, r))
             \/ TerminateOrg(a) /\ res[a] # [r \in Resources |-> "none"]
    BY <1>1, <2>3, ResourceActions, ResourceKeeps
  <2>4. CASE patchAccountInfo(a)
    BY <1>1, <2>4, CompleteActions, CompletesKeep
  <2> QED
    BY <1>5, <2>1, <2>2, <2>3, <2>4 DEF InitProgress, Terminator
<1> QED
  BY <1>2, <1>3, <1>4, <1>5, StepCases

LEMMA AccountsInvInit == AccountsInit => AccountsInv
<1> SUFFICES ASSUME AccountsInit PROVE AccountsInv
  OBVIOUS
<1>1. AccountsTypeOK
  BY AccountsTypeInit
<1>2. \A a \in Account : AccountOk(a) /\ WorkspaceOk(a) /\ InfoOk(a)
  BY DEF AccountsInit, AccountOk, WorkspaceOk, InfoOk, NoAccount, NoInfo, NoWorkspace, Forward,
         Backward, Rising, Waits, Present
<1>3. \A a \in Account : ChildOk(a) /\ ResOk(a) /\ GuardOk(a)
  BY DEF AccountsInit, ChildOk, ResOk, GuardOk, NoAccount, NoInfo, NoWorkspace, Present, IsOrg
<1> QED
  BY <1>1, <1>2, <1>3 DEF AccountsInv

LEMMA AccountsInvariant == AccountsSpec => []AccountsInv
BY AccountsInvInit, AccountsInvStep, PTL DEF AccountsSpec

(* What a ready account promises is there: workspace, AccountInfo and      *)
(* tuples, in trees of every depth.                                        *)
THEOREM ReadyUsable == AccountsSpec => []ReadyMeansUsable
<1>1. AccountsInv => ReadyMeansUsable
  <2> SUFFICES ASSUME AccountsInv, NEW a \in Account,
                      accounts[a].state = "live" /\ accounts[a].ready
               PROVE  /\ ws[a].phase = "ready" /\ info[a].state = "live"
                      /\ info[a].org /\ info[a].oidc
                      /\ IsOrg(a) \/ a \in tuples \/ ws[OrgOf[a]].phase # "ready"
    BY DEF ReadyMeansUsable
  <2>1. ws[a].phase = "ready"
    BY DEF AccountsInv, WorkspaceOk
  <2>2. Present(info[a]) /\ info[a].oidc /\ info[a].org /\ info[a].state # "deleting"
    BY <2>1 DEF AccountsInv, InfoOk
  <2>3. info[a].state \in {"none", "live", "deleting"}
    BY Points DEF AccountsInv, InfoObject
  <2>4. IsOrg(a) \/ a \in tuples \/ ws[OrgOf[a]].phase # "ready"
    BY <2>1 DEF AccountsInv, ChildOk, Gone
  <2> QED
    BY <2>1, <2>2, <2>3, <2>4 DEF Present
<1> QED
  BY <1>1, AccountsInvariant, PTL

(* However the two engines interleave their writes, the last finalizer of  *)
(* a guarded AccountInfo goes after the accounts and the binding.          *)
THEOREM InfoLast == AccountsSpec => InfoGoesLast
<1> DEFINE Last ==
      \A a \in Account :
        info[a].guarded /\ ~Present(info'[a]) =>
          binding[a] = "none" /\ (\A c \in Children(a) : ~Present(accounts[c]))
<1>1. AccountsInv /\ [Step]_accountVars => [Last]_accountVars
  <2> SUFFICES ASSUME AccountsInv, Step, NEW a \in Account, info[a].guarded, ~Present(info'[a])
               PROVE  binding[a] = "none" /\ (\A c \in Children(a) : ~Present(accounts[c]))
    BY DEF Last
  <2>1. Present(info[a])
    BY DEF AccountsInv, GuardOk, Present
  <2>2. info'[a] # info[a]
    BY <2>1 DEF Present
  <2>3. \A x \in Engines : MayFinalize(a, x)
    <3>1. PICK b \in Account :
             \/ \E e \in Engines : InfoWrite(b, e)
             \/ Empty(b) \/ (Completes(b) /\ UNCHANGED InfoFrame)
      <4> SUFFICES ASSUME \A b \in Account : /\ \A e \in Engines : ~InfoWrite(b, e)
                                             /\ ~Empty(b)
                                             /\ ~(Completes(b) /\ UNCHANGED InfoFrame)
                   PROVE  info' = info
        BY <2>2
      <4>1. PICK b \in Account :
              \/ CreateAccount(b) \/ DeleteAccount(b) \/ BindAPI(b) \/ SyncWorkspace(b)
              \/ Schedule(b) \/ GarbageCollect(b)
              \/ AccountOperator(b) \/ PassFails(b) \/ (\E e \in Engines : InfoRead(b, e))
              \/ FinalizeBinding(b)
              \/ InitStart(b) \/ InitEnd(b) \/ InitProgress(b) \/ Terminator(b)
              \/ (b \in Orgs /\ \E r \in Resources : Settle(b, r))
              \/ (b \in Orgs /\ \E k \in Kinds : TypeBecomesReady(b, k))
        BY StepCases DEF InfoEngines
      <4>2. ~patchAccountInfo(b) /\ ~(ManageAccountInfoProcess(b) /\ Goto(b, "ready"))
        BY CompleteActions
      <4>3. ManageAccountInfoProcess(b) => info' = info
        BY <4>2 DEF ManageAccountInfoProcess
      <4> QED
        BY <4>1, <4>2, <4>3
           DEF CreateAccount, DeleteAccount, BindAPI, SyncWorkspace, Schedule, GarbageCollect,
               AccountOperator, AccountStart, AddFinalizers, WorkspaceTypeProcess,
               WorkspaceProcess, WorkspaceReadyProcess, WorkspaceFinalize, WorkspaceTypeFinalize,
               ReleaseAccount, PassFails, InfoRead, FinalizeBinding, InitStart, InitEnd,
               InitProgress, InitResource, InitAuthConfig, ReleaseOrg, InitTuples, Terminator,
               TerminateTuples, TerminateOrg, Settle, TypeBecomesReady, objects
    <3>2. AccountsTypeOK'
      BY AccountsTypeStep DEF AccountsInv
    <3>3. b = a
      BY <2>2, <3>1 DEF InfoWrite, Empty, Completes, AccountsInv, AccountsTypeOK
    <3>4. ~(Completes(a) /\ UNCHANGED InfoFrame)
      BY <2>1 DEF Completes, Present
    <3> QED
      BY <2>2, <3>1, <3>2, <3>3, <3>4, EmptyKeeps, WriteKeeps
  <2> QED
    BY <2>3 DEF MayFinalize, Engines, NoBindingFinalizer, NoAccountsListed
<1> QED
  BY <1>1, AccountsInvariant, PTL DEF AccountsSpec, InfoGoesLast
=================================================================================
