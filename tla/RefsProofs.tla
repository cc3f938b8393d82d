------------------------------ MODULE RefsProofs ------------------------------
(***************************************************************************)
(* Proofs about StagingRefs, for any set of owners: type correctness, and  *)
(* that the kcp workspace is torn down only while nobody holds a reference *)
(* on the StagingWorkspace.                                                *)
(***************************************************************************)
EXTENDS StagingRefs, TLAPS

(* The operators on StagingWorkspaces return StagingWorkspaces.            *)
LEMMA NoWorkspaceType == NoWorkspace \in Workspace
BY DEF NoWorkspace, Workspace, Phase

LEMMA CollectType ==
  ASSUME NEW w \in Workspace
  PROVE  Collect(w) \in Workspace
BY NoWorkspaceType DEF Collect

LEMMA NewWorkspaceType ==
  ASSUME NEW o \in Owners
  PROVE  NewWorkspace(o) \in Workspace
BY DEF NewWorkspace, NoWorkspace, Workspace, Phase

Label == {"idle", "create", "add", "addUpdate", "release",
          "releaseUpdate", "delete", "copy", "Named", "Pending", "Bound"}

OwnerTypeOK ==
  want \subseteq Owners /\ asg \in [Owners -> Status]
    /\ pc \in [Owners -> Label] /\ read \in [Owners -> Workspace]

(* What a worker may do to its own state.                                  *)
LEMMA OwnerTypes ==
  ASSUME TypeOK, NEW o \in Owners
  PROVE  /\ \A l \in Label : Stay(o, l) \/ Remember(o, l) => OwnerTypeOK'
         /\ \A p \in {"Pending", "Bound"} : SetStatus(o, p) => OwnerTypeOK'
         /\ Error(o) => OwnerTypeOK'
         /\ Bound(o) => OwnerTypeOK'
         /\ Released(o) => OwnerTypeOK'
<1> USE NoWorkspaceType DEF TypeOK, OwnerTypeOK, Label
<1>1. ASSUME NEW l \in Label, Stay(o, l) PROVE OwnerTypeOK'
  BY <1>1 DEF Stay, Goto
<1>2. ASSUME NEW l \in Label, Remember(o, l) PROVE OwnerTypeOK'
  BY <1>2 DEF Remember, Goto
<1>3. ASSUME NEW p \in {"Pending", "Bound"}, SetStatus(o, p) PROVE OwnerTypeOK'
  BY <1>3 DEF SetStatus, Forget, Goto, After
<1>4. ASSUME Error(o) PROVE OwnerTypeOK'
  BY <1>4 DEF Error, Forget, Goto
<1>5. ASSUME Bound(o) PROVE OwnerTypeOK'
  BY <1>3, <1>5 DEF Bound
<1>6. ASSUME DeleteAssignment(o) PROVE OwnerTypeOK'
  BY <1>6 DEF DeleteAssignment, Forget, Goto, Status
<1>7. ASSUME Released(o) PROVE OwnerTypeOK'
  BY <1>3, <1>6, <1>7 DEF Released
<1> QED
  BY <1>1, <1>2, <1>3, <1>4, <1>5, <1>7

LEMMA RefsTypeInit == Init => TypeOK
BY NoWorkspaceType, RefsAssumption DEF Init, TypeOK, Status

LEMMA OwnerStepType ==
  ASSUME TypeOK, NEW o \in Owners, OwnerStep(o)
  PROVE  TypeOK'
<1>1. TypeOK <=> /\ OwnerTypeOK /\ sw \in Workspace /\ cache \in Workspace
                 /\ ws \in {"none", "creating", "ready", "deleting"}
                 /\ binding \in {"unset", "set", "bound"} /\ copies \subseteq Owners
                 /\ requests \in 0..MaxRequests /\ deletes \in 0..MaxDeletes
                 /\ changes \in 0..MaxChanges /\ fails \in 0..MaxFails
  BY DEF TypeOK, OwnerTypeOK, Label
<1>2. SUFFICES OwnerTypeOK' /\ sw' \in Workspace /\ copies' \subseteq Owners
  <2>1. UNCHANGED <<cache, ws, binding, bounds>>
    BY DEF OwnerStep, createAssignment, ensureBound, createStagingWorkspace, addRefGet,
           addRefUpdate, updateStatus, copyProcess, copyFinalize, assignmentFinalize,
           releaseGet, releaseUpdate, releaseDelete, kcp
  <2>2. TypeOK' <=> /\ OwnerTypeOK' /\ sw' \in Workspace /\ cache' \in Workspace
                    /\ ws' \in {"none", "creating", "ready", "deleting"}
                    /\ binding' \in {"unset", "set", "bound"} /\ copies' \subseteq Owners
                    /\ requests' \in 0..MaxRequests /\ deletes' \in 0..MaxDeletes
                    /\ changes' \in 0..MaxChanges /\ fails' \in 0..MaxFails
    BY DEF TypeOK, OwnerTypeOK, Label
  <2> QED
    BY <1>1, <2>1, <2>2 DEF bounds
<1>3. CASE createAssignment(o)
  BY <1>1, <1>3 DEF createAssignment, OwnerTypeOK, Status, kcp
<1>4. CASE ensureBound(o)
  <2>1. PICK l \in Label : Remember(o, l)
    BY <1>4 DEF ensureBound, Label
  <2> QED
    BY <1>1, <1>4, <2>1, OwnerTypes DEF ensureBound, kcp
<1>5. CASE createStagingWorkspace(o)
  <2>1. SetStatus(o, "Pending") \/ Error(o)
    BY <1>5 DEF createStagingWorkspace
  <2> QED
    BY <1>1, <1>5, <2>1, OwnerTypes, NewWorkspaceType DEF createStagingWorkspace, kcp
<1>6. CASE addRefGet(o)
  <2>1. CASE Error(o) \/ Bound(o)
    BY <1>1, <1>6, <2>1, OwnerTypes DEF addRefGet, kcp
  <2>2. CASE /\ read' = [read EXCEPT ![o] = [sw EXCEPT !.phase = read[o].phase]]
             /\ Goto(o, "addUpdate") /\ UNCHANGED <<want, asg>>
    <3>1. [sw EXCEPT !.phase = read[o].phase] \in Workspace
      BY <1>1 DEF OwnerTypeOK, Workspace
    <3> QED
      BY <1>1, <1>6, <2>2, <3>1 DEF addRefGet, OwnerTypeOK, Goto, Label, kcp
  <2> QED
    BY <1>6, <2>1, <2>2 DEF addRefGet
<1>7. CASE addRefUpdate(o)
  <2>1. sw' \in Workspace
    BY <1>1, <1>7 DEF addRefUpdate, Workspace
  <2>2. Bound(o) \/ Stay(o, "add") \/ Error(o)
    BY <1>7 DEF addRefUpdate
  <2>3. OwnerTypeOK'
    BY <2>2, OwnerTypes DEF Label
  <2> QED
    BY <1>1, <1>7, <2>1, <2>3 DEF addRefUpdate, kcp
<1>8. CASE updateStatus(o)
  BY <1>1, <1>8 DEF updateStatus, OwnerTypeOK, Status, Label, Goto, After, kcp
<1>9. CASE copyProcess(o)
  <2>1. Stay(o, "idle")
    BY <1>9 DEF copyProcess
  <2> QED
    BY <1>1, <1>9, <2>1, OwnerTypes DEF copyProcess, Label
<1>10. CASE copyFinalize(o)
  BY <1>1, <1>10 DEF copyFinalize, owner, OwnerTypeOK
<1>11. CASE assignmentFinalize(o)
  <2>1. OwnerTypeOK'
    <3>1. CASE asg[o] = "New"
      BY <1>1, <1>11, <3>1, NoWorkspaceType
         DEF assignmentFinalize, DeleteAssignment, Forget, Goto, OwnerTypeOK, Status, Label
    <3>2. CASE asg[o] # "New"
      BY <1>11, <3>2, OwnerTypes DEF assignmentFinalize, Label
    <3> QED
      BY <3>1, <3>2
  <2> QED
    BY <1>1, <1>11, <2>1 DEF assignmentFinalize, kcp
<1>12. CASE releaseGet(o)
  <2>1. Released(o) \/ Remember(o, "releaseUpdate") \/ Remember(o, "delete")
    BY <1>12 DEF releaseGet
  <2>2. OwnerTypeOK'
    BY <2>1, OwnerTypes DEF Label
  <2> QED
    BY <1>1, <1>12, <2>2 DEF releaseGet, kcp
<1>13. CASE releaseUpdate(o)
  <2>1. Released(o) \/ Stay(o, "delete") \/ Stay(o, "release")
    BY <1>13 DEF releaseUpdate
  <2>2. OwnerTypeOK'
    BY <2>1, OwnerTypes DEF Label
  <2>3. [sw EXCEPT !.refs = sw.refs \ {o}] \in Workspace
    BY <1>1 DEF Workspace
  <2>4. sw' \in Workspace
    BY <1>1, <1>13, <2>3, CollectType DEF releaseUpdate
  <2> QED
    BY <1>1, <1>13, <2>2, <2>4 DEF releaseUpdate, kcp
<1>14. CASE releaseDelete(o)
  <2>1. [sw EXCEPT !.deleting = TRUE] \in Workspace
    BY <1>1 DEF Workspace
  <2>2. sw' \in Workspace
    BY <1>1, <1>14, <2>1, CollectType DEF releaseDelete
  <2>3. OwnerTypeOK'
    BY <1>14, OwnerTypes DEF releaseDelete
  <2> QED
    BY <1>1, <1>14, <2>2, <2>3 DEF releaseDelete, kcp
<1> QED
  BY <1>3, <1>4, <1>5, <1>6, <1>7, <1>8, <1>9, <1>10, <1>11, <1>12, <1>13, <1>14
     DEF OwnerStep

LEMMA ReportType ==
  ASSUME TypeOK, NEW p \in Phase, Report(p)
  PROVE  sw' \in Workspace
BY DEF TypeOK, Report, Workspace

LEMMA ControllerStepType ==
  ASSUME TypeOK, ControllerStep
  PROVE  TypeOK'
<1> USE DEF owner, kcp, bounds
<1>1. CASE addFinalizers
  BY <1>1 DEF addFinalizers, TypeOK, Workspace
<1>2. CASE Process
  <2>1. sw' \in Workspace
    BY <1>2, ReportType DEF Process, Phase
  <2> QED
    BY <1>2, <2>1 DEF Process, TypeOK
<1>3. CASE FinalizeTeardown
  <2>1. sw' \in Workspace
    BY <1>3, ReportType DEF FinalizeTeardown, Phase
  <2> QED
    BY <1>3, <2>1 DEF FinalizeTeardown, TypeOK
<1>4. CASE FinalizeDone
  <2>1. [sw EXCEPT !.staging = FALSE, !.refs = {}] \in Workspace
    BY DEF TypeOK, Workspace
  <2>2. sw' \in Workspace
    BY <1>4, <2>1, CollectType DEF FinalizeDone, TypeOK
  <2> QED
    BY <1>4, <2>2 DEF FinalizeDone, TypeOK
<1> QED
  BY <1>1, <1>2, <1>3, <1>4 DEF ControllerStep

LEMMA RefsTypeStep == TypeOK /\ [Next]_vars => TypeOK'
<1> SUFFICES ASSUME TypeOK, [Next]_vars
             PROVE  TypeOK'
  OBVIOUS
<1> USE DEF owner, kcp, bounds
<1>1. CASE UNCHANGED vars
  BY <1>1 DEF vars, TypeOK
<1>2. ASSUME NEW o \in Owners, OwnerStep(o)
      PROVE  TypeOK'
  BY <1>2, OwnerStepType
<1>3. ASSUME NEW o \in Owners, Fail(o)
      PROVE  TypeOK'
  BY <1>3, NoWorkspaceType, RefsAssumption DEF Fail, Forget, Goto, TypeOK
<1>4. ASSUME NEW o \in Owners, ConsumerCreated(o) \/ ConsumerDeleted(o)
      PROVE  TypeOK'
  BY <1>4, RefsAssumption DEF ConsumerCreated, ConsumerDeleted, TypeOK
<1>5. CASE ControllerStep
  BY <1>5, ControllerStepType
<1>6. CASE Sync
  BY <1>6 DEF Sync, TypeOK
<1>7. CASE KcpStep
  BY <1>7 DEF KcpStep, WorkspaceBecomesReady, BindingBecomesBound, WorkspaceGone, TypeOK
<1>8. CASE ClaimsChange
  BY <1>8, RefsAssumption DEF ClaimsChange, TypeOK
<1> QED
  BY <1>1, <1>2, <1>3, <1>4, <1>5, <1>6, <1>7, <1>8 DEF Next

(* The state of workers, StagingWorkspace and kcp workspace has its type.  *)
THEOREM RefsTypeCorrect == Spec => []TypeOK
BY RefsTypeInit, RefsTypeStep, PTL DEF Spec

-------------------------------------------------------------------------------
(* A StagingWorkspace without references that waits for its teardown.      *)
Unreferenced(w) == w.live /\ w.deleting /\ w.staging /\ w.refs = {}

(* What the cache shows without references stays so on the server as long  *)
(* as there is a kcp workspace to tear down: a deleted object takes no new *)
(* finalizer, and it cannot go, and be created anew, before FinalizeDone   *)
(* finds the kcp workspace gone.                                           *)
TeardownInv ==
  TypeOK /\ (Unreferenced(cache) /\ ws # "none" => Unreferenced(sw))

LEMMA OwnerKeepsUnreferenced ==
  ASSUME TypeOK, NEW o \in Owners, OwnerStep(o), Unreferenced(sw)
  PROVE  Unreferenced(sw')
<1> USE DEF Unreferenced
<1>1. CASE releaseUpdate(o)
  BY <1>1 DEF releaseUpdate, Collect, TypeOK, Workspace
<1>2. CASE releaseDelete(o)
  BY <1>2 DEF releaseDelete, Collect, TypeOK, Workspace
<1>3. CASE ~releaseUpdate(o) /\ ~releaseDelete(o)
  BY <1>3 DEF OwnerStep, createAssignment, ensureBound, createStagingWorkspace, addRefGet,
         addRefUpdate, updateStatus, copyProcess, copyFinalize, assignmentFinalize, releaseGet
<1> QED
  BY <1>1, <1>2, <1>3

LEMMA TeardownStep == TeardownInv /\ [Next]_vars => TeardownInv'
<1> SUFFICES ASSUME TeardownInv, [Next]_vars, Unreferenced(cache)', ws' # "none"
             PROVE  Unreferenced(sw)'
  BY RefsTypeStep DEF TeardownInv
<1> USE DEF TeardownInv, owner, kcp, bounds
<1>1. CASE UNCHANGED <<sw, cache, ws>>
  BY <1>1 DEF Unreferenced
<1>2. ASSUME NEW o \in Owners, OwnerStep(o)
      PROVE  Unreferenced(sw)'
  <2>1. UNCHANGED <<cache, ws>>
    BY <1>2 DEF OwnerStep, createAssignment, ensureBound, createStagingWorkspace, addRefGet,
           addRefUpdate, updateStatus, copyProcess, copyFinalize, assignmentFinalize,
           releaseGet, releaseUpdate, releaseDelete
  <2>2. Unreferenced(sw)
    BY <2>1 DEF Unreferenced
  <2> QED
    BY <1>2, <2>2, OwnerKeepsUnreferenced DEF Unreferenced
<1>3. CASE Sync
  BY <1>3 DEF Sync, Unreferenced
<1>4. CASE ControllerStep
  <2>1. cache' = cache /\ FinalizeTeardown
    BY <1>4 DEF ControllerStep, addFinalizers, Process, FinalizeTeardown, FinalizeDone,
           Unreferenced
  <2>2. ws # "none"
    BY <2>1 DEF FinalizeTeardown
  <2>3. Unreferenced(sw)
    BY <2>1, <2>2 DEF Unreferenced
  <2> QED
    BY <2>1, <2>3 DEF FinalizeTeardown, Report, Unreferenced, TypeOK, Workspace
<1>5. CASE WorkspaceBecomesReady
  BY <1>5 DEF WorkspaceBecomesReady, Unreferenced
<1>6. CASE WorkspaceGone
  BY <1>6 DEF WorkspaceGone
<1>7. ASSUME NEW o \in Owners, Fail(o) \/ ConsumerCreated(o) \/ ConsumerDeleted(o)
      PROVE  UNCHANGED <<sw, cache, ws>>
  BY <1>7 DEF Fail, ConsumerCreated, ConsumerDeleted
<1>8. ASSUME BindingBecomesBound \/ ClaimsChange
      PROVE  UNCHANGED <<sw, cache, ws>>
  BY <1>8 DEF BindingBecomesBound, ClaimsChange
<1> QED
  BY <1>1, <1>2, <1>3, <1>4, <1>5, <1>6, <1>7, <1>8 DEF Next, vars, KcpStep

(* The controller tears the kcp workspace down only while the StagingWork- *)
(* space has no references, although it decides on its cached copy.        *)
THEOREM TornDownUnreferenced == Spec => TeardownUnreferenced
<1>1. Init => TeardownInv
  BY RefsTypeInit DEF Init, TeardownInv, Unreferenced, NoWorkspace
<1>2. TeardownInv /\ [Next]_vars => [ws # "deleting" /\ ws' = "deleting" => sw.refs = {}]_vars
  <2> SUFFICES ASSUME TeardownInv, Next, ws # "deleting", ws' = "deleting"
               PROVE  sw.refs = {}
    OBVIOUS
  <2>1. FinalizeTeardown
    <3> USE DEF kcp
    <3>1. ASSUME NEW o \in Owners
          PROVE  ~(OwnerStep(o) \/ Fail(o) \/ ConsumerCreated(o) \/ ConsumerDeleted(o))
      BY DEF OwnerStep, createAssignment, ensureBound, createStagingWorkspace, addRefGet,
             addRefUpdate, updateStatus, copyProcess, copyFinalize, assignmentFinalize,
             releaseGet, releaseUpdate, releaseDelete, Fail, ConsumerCreated, ConsumerDeleted
    <3>2. ~(addFinalizers \/ Process \/ FinalizeDone \/ Sync \/ KcpStep \/ ClaimsChange)
      BY DEF addFinalizers, Process, FinalizeDone, Sync, KcpStep, WorkspaceBecomesReady,
             BindingBecomesBound, WorkspaceGone, ClaimsChange
    <3> QED
      BY <3>1, <3>2 DEF Next, ControllerStep
  <2> QED
    BY <2>1 DEF FinalizeTeardown, TeardownInv, Unreferenced
<1> QED
  BY <1>1, <1>2, TeardownStep, PTL DEF Spec, TeardownUnreferenced
===============================================================================
