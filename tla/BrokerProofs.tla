----------------------------- MODULE BrokerProofs -----------------------------
(***************************************************************************)
(* Proofs about Broker, for any providers and bounds: type correctness,    *)
(* that an active migration holds both workspaces, that migrations never   *)
(* leave a served object without an available copy, and what an object     *)
(* that was never migrated leaves behind.                                  *)
(***************************************************************************)
EXTENDS Broker, TLAPS

Migrating == pc \in {"spec", "destination", "create"}

(* A status names the workspace of its provider, and once bound it names   *)
(* one.                                                                    *)
Names(s) ==
  /\ s.ws # None => s.prov = s.ws
  /\ s.phase = "Bound" => s.ws # None

(* What a pass relies on while it goes through its calls.                  *)
FlowOk ==
  /\ asg.live => asg.spec \in Providers
  /\ ~asg.live => asg = NoAssignment
  /\ mig.live => mig.from \in Providers /\ mig.to \in Providers /\ mig.from # mig.to
  /\ Names(asg.status) /\ Names(mem)
  /\ (pc \in {"store", "storeError"} \/ Migrating) => asg.live
  /\ Migrating => /\ ~mig.live
                  /\ mem.ws \in Providers /\ pick \in Providers /\ pick # mem.ws
                  /\ asg.status.prov \in {None, mem.ws}
  /\ fins # Subroutines => obj # "live" /\ pc = "assign"

FlowInv == TypeOK /\ FlowOk

-----------------------------------------------------------------------------
(* The operators on references and statuses.                               *)

SwPhase == {"none", "pending", "ready", "deleting"}

LEMMA Releases ==
  ASSUME TypeOK, NEW p \in Providers, Release(p)
  PROVE  /\ refs' = refs \ {p} /\ refs' \subseteq Providers
         /\ sw' \in [Providers -> SwPhase]
         /\ \A q \in Providers : q # p => sw'[q] = sw[q]
         /\ sw'[p] = IF sw[p] # "none" /\ p \notin Shared THEN "deleting" ELSE sw[p]
BY DEF TypeOK, Release, SwPhase

LEMMA References ==
  ASSUME TypeOK, NEW p \in Providers, Reference(p)
  PROVE  /\ refs' = refs \cup {p} /\ refs' \subseteq Providers
         /\ sw' \in [Providers -> SwPhase]
         /\ \A q \in Providers : q # p => sw'[q] = sw[q]
         /\ sw'[p] = IF sw[p] = "none" THEN "pending" ELSE sw[p]
BY DEF TypeOK, Reference, SwPhase

LEMMA StatusTypes ==
  /\ NoStatus \in AssignmentStatus /\ Names(NoStatus)
  /\ \A p \in Providers, f \in {"none", "Pending", "Bound"} :
       Serving(p, f) \in AssignmentStatus /\ Names(Serving(p, f))
BY BrokerAssumption DEF NoStatus, AssignmentStatus, Names, Serving

LEMMA AdoptedType ==
  ASSUME FlowInv, asg.live
  PROVE  /\ Adopted \in AssignmentStatus /\ Adopted.prov \in Providers /\ Names(Adopted)
         /\ asg.status.prov \in {None, Adopted.prov}
         /\ Adopted.prov = IF asg.status.prov = None THEN asg.spec ELSE asg.status.prov
         /\ Adopted.phase = asg.status.phase /\ Adopted.ws = asg.status.ws
<1>1. asg.status \in AssignmentStatus /\ asg.spec \in Providers /\ Names(asg.status)
  BY DEF FlowInv, FlowOk, TypeOK, Assignment
<1> QED
  BY <1>1 DEF Adopted, AssignmentStatus, Names

LEMMA StageType ==
  ASSUME TypeOK, NEW p \in Providers, Stage(p)
  PROVE  /\ copy' \in [Providers -> {"none", "new", "available", "deleting"}]
         /\ \A q \in Providers : q # p => copy'[q] = copy[q]
         /\ copy'[p] = IF copy[p] = "none" THEN "new" ELSE copy[p]
BY DEF TypeOK, Stage, Exists

LEMMA DecodeType ==
  ASSUME FlowInv, pc = "spec"
  PROVE  LET m == Decode(mem, asg.status)
         IN  /\ m \in AssignmentStatus /\ Names(m) /\ m.ws = mem.ws
             /\ m.phase = IF asg.status.phase = "none" THEN mem.phase ELSE asg.status.phase
<1>1. /\ asg.status \in AssignmentStatus /\ mem \in AssignmentStatus
      /\ Names(asg.status) /\ Names(mem) /\ mem.ws \in Providers
      /\ asg.status.prov \in {None, mem.ws}
  BY DEF FlowInv, FlowOk, TypeOK, Assignment, Migrating
<1>2. Decode(mem, asg.status) \in AssignmentStatus
  BY <1>1 DEF Decode, AssignmentStatus
<1> QED
  BY <1>1, <1>2, BrokerAssumption DEF Decode, Names
-----------------------------------------------------------------------------
(* Types, and the flow of a pass.                                          *)

LEMMA FlowAssign ==
  ASSUME FlowInv,
         \/ createAssignment \/ waitForMigration \/ finishMigration \/ resolveFails
         \/ ensureBoundWaits \/ validate \/ startMigration
  PROVE  FlowInv'
<1> USE DEF FlowInv, worker, staging, bounds
<1>1. CASE createAssignment
  <2>1. /\ asg' \in Assignment /\ Names(asg'.status)
        /\ asg'.live => asg'.spec \in Providers
        /\ ~asg'.live => asg' = NoAssignment
    <3>1. CASE asg' = asg
      BY <3>1 DEF TypeOK, FlowOk
    <3>2. ASSUME NEW p \in Applying, asg' = [live |-> TRUE, spec |-> p, status |-> NoStatus]
          PROVE  /\ asg' \in Assignment /\ Names(asg'.status)
                 /\ asg'.live /\ asg'.spec \in Providers
      BY <3>2, StatusTypes DEF Assignment, Applying
    <3> QED
      BY <1>1, <3>1, <3>2 DEF createAssignment
  <2> QED
    BY <1>1, <2>1 DEF createAssignment, Starts, TypeOK, FlowOk, Migrating
<1>2. CASE waitForMigration
  BY <1>2 DEF waitForMigration, Starts, TypeOK, FlowOk, Migrating
<1>3. CASE finishMigration
  <2> DEFINE m == [prov |-> mig.to, export |-> FALSE, ws |-> mig.to, phase |-> "Bound"]
  <2>1. mig \in Migration /\ mig.from \in Providers /\ mig.to \in Providers /\ mig.from # mig.to
    BY <1>3 DEF finishMigration, TypeOK, FlowOk
  <2>2. m \in AssignmentStatus /\ Names(m)
    BY <2>1, BrokerAssumption DEF AssignmentStatus, Names
  <2>3. /\ mem' = m /\ pc' = "store" /\ asg.live
        /\ UNCHANGED <<api, obj, fins, asg, related, pick, bounds>>
    BY <1>3 DEF finishMigration
  <2> HIDE DEF m
  <2>4. CASE Exists(mig.from) /\ copy' = [copy EXCEPT ![mig.from] = "deleting"]
             /\ UNCHANGED <<mig, sw, refs>>
    BY <1>3, <2>1, <2>2, <2>3, <2>4 DEF finishMigration, Starts, TypeOK, FlowOk, Migrating
  <2>5. CASE Release(mig.from) /\ mig' = [mig EXCEPT !.deleting = TRUE] /\ UNCHANGED copy
    <3>1. mig' \in Migration /\ mig'.from = mig.from /\ mig'.to = mig.to /\ mig'.live = mig.live
      BY <2>1, <2>5 DEF Migration
    <3> QED
      BY <1>3, <2>1, <2>2, <2>3, <2>5, <3>1, Releases
         DEF finishMigration, Starts, TypeOK, FlowOk, Migrating, SwPhase
  <2> QED
    BY <1>3, <2>4, <2>5 DEF finishMigration
<1>4. CASE resolveFails
  BY <1>4, AdoptedType DEF resolveFails, Binds, Starts, TypeOK, FlowOk, Migrating
<1>5. CASE ensureBoundWaits
  <2>1. Adopted.prov \in Providers /\ asg.live
    BY <1>5, AdoptedType DEF ensureBoundWaits, Binds
  <2>2. Release(Adopted.prov) \/ Reference(Adopted.prov)
    BY <1>5 DEF ensureBoundWaits
  <2>3. refs' \subseteq Providers /\ sw' \in [Providers -> SwPhase]
    BY <2>1, <2>2, Releases, References
  <2>4. mem' \in AssignmentStatus /\ Names(mem')
    BY <1>5, <2>1, StatusTypes DEF ensureBoundWaits
  <2> QED
    BY <1>5, <2>1, <2>3, <2>4
       DEF ensureBoundWaits, Binds, Starts, TypeOK, FlowOk, Migrating, SwPhase
<1>6. CASE validate \/ startMigration
  <2>1. Adopted.prov \in Providers /\ asg.live /\ asg.status.prov \in {None, Adopted.prov}
    BY <1>6, AdoptedType DEF validate, startMigration, Binds
  <2>2. /\ Reference(Adopted.prov) /\ mem' = Serving(Adopted.prov, "Bound")
        /\ UNCHANGED <<api, obj, fins, asg, mig, copy, related, bounds>>
    BY <1>6 DEF validate, startMigration
  <2>3. refs' \subseteq Providers /\ sw' \in [Providers -> SwPhase]
    BY <2>1, <2>2, References
  <2>4. mem' \in AssignmentStatus /\ Names(mem') /\ mem'.ws = Adopted.prov
    BY <2>1, <2>2, StatusTypes DEF Serving
  <2>5. CASE validate
    BY <2>1, <2>2, <2>3, <2>4, <2>5
       DEF validate, Binds, Starts, TypeOK, FlowOk, Migrating, SwPhase
  <2>6. CASE startMigration
    <3>1. /\ pick' \in Providers /\ pick' # Adopted.prov /\ pc' \in {"destination", "spec"}
          /\ ~mig.live /\ obj = "live" /\ pc = "assign"
      BY <2>6 DEF startMigration, Binds, Starts, Applying
    <3> QED
      BY <2>1, <2>2, <2>3, <2>4, <3>1 DEF TypeOK, FlowOk, Migrating, SwPhase
  <2> QED
    BY <1>6, <2>5, <2>6
<1> QED
  BY <1>1, <1>2, <1>3, <1>4, <1>5, <1>6

LEMMA FlowCalls ==
  ASSUME FlowInv,
         \/ repointSpec \/ destination \/ createMigration \/ storeStatus
         \/ copyToMigrationTarget \/ copyProcess \/ relatedProcess
  PROVE  FlowInv'
<1> USE DEF FlowInv, worker, staging, bounds
<1>1. CASE repointSpec
  <2>1. /\ mem' \in AssignmentStatus /\ Names(mem') /\ mem'.ws = mem.ws
        /\ asg' \in Assignment /\ asg'.spec = pick /\ asg'.live = asg.live
        /\ asg'.status = asg.status
    BY <1>1, DecodeType DEF repointSpec, TypeOK, Assignment
  <2> QED
    BY <1>1, <2>1 DEF repointSpec, TypeOK, FlowOk, Migrating
<1>2. CASE destination
  <2>1. pick \in Providers
    BY <1>2 DEF destination, FlowOk, Migrating
  <2>2. refs' \subseteq Providers /\ sw' \in [Providers -> SwPhase]
    BY <1>2, <2>1, References DEF destination, TypeOK, SwPhase
  <2> QED
    BY <1>2, <2>1, <2>2 DEF destination, TypeOK, FlowOk, Migrating, SwPhase
<1>3. CASE createMigration
  BY <1>3 DEF createMigration, TypeOK, FlowOk, Migrating, Migration
<1>4. CASE storeStatus
  <2>1. /\ asg' \in Assignment /\ asg'.spec = asg.spec /\ asg'.live = asg.live
        /\ asg'.status = mem
    BY <1>4 DEF storeStatus, TypeOK, Assignment
  <2> QED
    BY <1>4, <2>1, StatusTypes DEF storeStatus, TypeOK, FlowOk, Migrating
<1>5. CASE copyToMigrationTarget
  <2>1. mig.to \in Providers
    BY <1>5 DEF copyToMigrationTarget, ActiveMigration, FlowOk
  <2>2. copy' \in [Providers -> {"none", "new", "available", "deleting"}]
    BY <1>5, <2>1, StageType DEF copyToMigrationTarget, TypeOK
  <2> QED
    BY <1>5, <2>2 DEF copyToMigrationTarget, TypeOK, FlowOk, Migrating
<1>6. CASE copyProcess
  <2>1. IsBound => asg.status.ws \in Providers
    BY DEF IsBound, TypeOK, Assignment, AssignmentStatus
  <2>2. copy' \in [Providers -> {"none", "new", "available", "deleting"}]
    BY <1>6, <2>1, StageType DEF copyProcess, TypeOK
  <2>3. pc' \in {"related", "assign"}
    BY <1>6 DEF copyProcess
  <2> QED
    BY <1>6, <2>2, <2>3 DEF copyProcess, TypeOK, FlowOk, Migrating
<1>7. CASE relatedProcess
  <2>1. related' \subseteq Providers
    BY <1>7 DEF relatedProcess, IsBound, TypeOK, Assignment, AssignmentStatus
  <2> QED
    BY <1>7, <2>1 DEF relatedProcess, TypeOK, FlowOk, Migrating
<1> QED
  BY <1>1, <1>2, <1>3, <1>4, <1>5, <1>6, <1>7

LEMMA FlowFinalize ==
  ASSUME FlowInv, Finalize
  PROVE  FlowInv'
<1> USE DEF FlowInv, worker, staging, bounds, Ends
<1>1. CASE relatedFinalize
  BY <1>1 DEF relatedFinalize, TypeOK, FlowOk, Migrating
<1>2. CASE copyFinalize
  <2>1. HasCopy => asg.status.ws \in Providers
    BY DEF HasCopy, IsBound, TypeOK, Assignment, AssignmentStatus
  <2> QED
    BY <1>2, <2>1 DEF copyFinalize, TypeOK, FlowOk, Migrating
<1>3. CASE finalizeMigration
  <2>1. mig.to \in Providers /\ mig \in Migration
    BY <1>3 DEF finalizeMigration, TypeOK, FlowOk
  <2>2. mig' \in Migration /\ mig'.from = mig.from /\ mig'.to = mig.to /\ mig'.live = mig.live
    BY <1>3, <2>1 DEF finalizeMigration, Migration
  <2> QED
    BY <1>3, <2>1, <2>2, Releases DEF finalizeMigration, TypeOK, FlowOk, Migrating, SwPhase
<1>4. CASE finalizeAssignment
  <2>1. asg.status.ws # None => asg.status.ws \in Providers
    BY DEF TypeOK, Assignment, AssignmentStatus
  <2>2. refs' \subseteq Providers /\ sw' \in [Providers -> SwPhase]
    BY <1>4, <2>1, Releases DEF finalizeAssignment, TypeOK, SwPhase
  <2>3. NoAssignment \in Assignment /\ Names(NoAssignment.status) /\ ~NoAssignment.live
    BY StatusTypes DEF NoAssignment, Assignment
  <2> QED
    BY <1>4, <2>2, <2>3 DEF finalizeAssignment, TypeOK, FlowOk, Migrating, SwPhase
<1>5. CASE finalizeDone
  BY <1>5 DEF finalizeDone, TypeOK, FlowOk, Migrating
<1> QED
  BY <1>1, <1>2, <1>3, <1>4, <1>5 DEF Finalize

LEMMA FlowOthers ==
  ASSUME FlowInv,
         \/ MigrationController \/ UserDelete \/ Fail
         \/ \E p \in Providers :
              ProviderSide(p) \/ \E a \in {"none", "other", "applies"} : OfferChanges(p, a)
  PROVE  FlowInv'
<1> USE DEF FlowInv, worker, staging, bounds
<1>1. CASE stagesProcess \/ cutoverProcess
  <2>1. /\ mig' \in Migration /\ mig'.from = mig.from /\ mig'.to = mig.to /\ mig'.live = mig.live
    BY <1>1 DEF stagesProcess, cutoverProcess, TypeOK, Migration
  <2> QED
    BY <1>1, <2>1 DEF stagesProcess, cutoverProcess, TypeOK, FlowOk, Migrating
<1>2. CASE MigrationGone
  BY <1>2 DEF MigrationGone, NoMigration, Migration, TypeOK, FlowOk, Migrating
<1>3. CASE UserDelete
  BY <1>3 DEF UserDelete, TypeOK, FlowOk, Migrating
<1>4. CASE Fail
  BY <1>4, StatusTypes, BrokerAssumption DEF Fail, TypeOK, FlowOk, Migrating
<1>5. ASSUME NEW p \in Providers, ProviderSide(p)
      PROVE  FlowInv'
  BY <1>5 DEF ProviderSide, StagingReady, StagingGone, ProviderServes, CopyGone,
              TypeOK, FlowOk, Migrating
<1>6. ASSUME NEW p \in Providers, NEW a \in {"none", "other", "applies"}, OfferChanges(p, a)
      PROVE  FlowInv'
  BY <1>6, BrokerAssumption DEF OfferChanges, TypeOK, FlowOk, Migrating
<1> QED
  BY <1>1, <1>2, <1>3, <1>4, <1>5, <1>6 DEF MigrationController

LEMMA FlowStep == FlowInv /\ [Next]_vars => FlowInv'
<1> SUFFICES ASSUME FlowInv, [Next]_vars
             PROVE  FlowInv'
  OBVIOUS
<1>1. CASE UNCHANGED vars
  BY <1>1 DEF vars, worker, staging, bounds, FlowInv, TypeOK, FlowOk, Migrating
<1>2. CASE Next
  BY <1>2, FlowAssign, FlowCalls, FlowFinalize, FlowOthers DEF Next, Worker, Assign
<1> QED
  BY <1>1, <1>2

LEMMA FlowInit == Init => FlowInv
<1> SUFFICES ASSUME Init PROVE FlowInv
  OBVIOUS
<1>1. TypeOK
  BY StatusTypes, BrokerAssumption
     DEF Init, TypeOK, NoAssignment, Assignment, NoMigration, Migration
<1>2. FlowOk
  BY StatusTypes DEF Init, FlowOk, NoAssignment, NoMigration, Migrating
<1> QED
  BY <1>1, <1>2 DEF FlowInv

(* Object, Assignment, Migration and workspaces keep their types.          *)
THEOREM BrokerTypeCorrect == Spec => []TypeOK
<1>1. FlowInv => TypeOK
  BY DEF FlowInv
<1> QED
  BY <1>1, FlowInit, FlowStep, PTL DEF Spec

-----------------------------------------------------------------------------
(* References on staging workspaces.                                       *)

(* A referenced workspace is not torn down, and a shared one never is.     *)
HoldsOk ==
  \A p \in Providers :
    /\ sw[p] = "deleting" => p \notin refs /\ p \notin Shared
    /\ p \in refs => sw[p] \in {"pending", "ready"}

(* A Migration holds both workspaces, and so does the pass creating it.    *)
RefsOk ==
  /\ Migrating => mem.ws \in refs
  /\ pc = "create" => pick \in refs
  /\ mig.live /\ ~mig.deleting => {mig.from, mig.to} \subseteq refs

HeldInv == FlowInv /\ HoldsOk /\ RefsOk

LEMMA ReleaseHolds ==
  ASSUME TypeOK, HoldsOk, NEW p \in Providers, Release(p)
  PROVE  HoldsOk'
<1> USE Releases
<1>1. SUFFICES ASSUME NEW q \in Providers
               PROVE  /\ sw'[q] = "deleting" => q \notin refs' /\ q \notin Shared
                      /\ q \in refs' => sw'[q] \in {"pending", "ready"}
  BY DEF HoldsOk
<1>2. CASE q = p
  BY <1>2 DEF HoldsOk
<1>3. CASE q # p
  BY <1>3 DEF HoldsOk
<1> QED
  BY <1>2, <1>3

LEMMA ReferenceHolds ==
  ASSUME TypeOK, HoldsOk, NEW p \in Providers, Reference(p), sw[p] # "deleting"
  PROVE  HoldsOk'
<1> USE References
<1>1. SUFFICES ASSUME NEW q \in Providers
               PROVE  /\ sw'[q] = "deleting" => q \notin refs' /\ q \notin Shared
                      /\ q \in refs' => sw'[q] \in {"pending", "ready"}
  BY DEF HoldsOk
<1>2. CASE q = p
  BY <1>2 DEF HoldsOk, TypeOK
<1>3. CASE q # p
  BY <1>3 DEF HoldsOk
<1> QED
  BY <1>2, <1>3

LEMMA HeldAssign ==
  ASSUME HeldInv, Assign
  PROVE  HoldsOk' /\ RefsOk'
<1> USE DEF HeldInv, FlowInv, worker, staging, bounds
<1>1. CASE createAssignment \/ waitForMigration \/ resolveFails \/ storeStatus
  BY <1>1 DEF createAssignment, waitForMigration, resolveFails, storeStatus, Binds, Starts,
              HoldsOk, RefsOk, Migrating
<1>2. CASE finishMigration
  <2>1. mig \in Migration /\ mig.from \in Providers /\ pc' = "store" /\ mig.live
    BY <1>2 DEF finishMigration, TypeOK, FlowOk
  <2>2. CASE UNCHANGED <<mig, sw, refs>>
    BY <2>1, <2>2 DEF HoldsOk, RefsOk, Migrating
  <2>3. CASE Release(mig.from) /\ mig' = [mig EXCEPT !.deleting = TRUE]
    BY <2>1, <2>3, ReleaseHolds DEF RefsOk, Migrating, Migration
  <2> QED
    BY <1>2, <2>2, <2>3 DEF finishMigration
<1>3. CASE ensureBoundWaits
  <2>1. /\ Adopted.prov \in Providers /\ pc' = "store" /\ UNCHANGED mig /\ ~mig.live
    BY <1>3, AdoptedType DEF ensureBoundWaits, Binds
  <2>2. HoldsOk'
    BY <1>3, <2>1, ReleaseHolds, ReferenceHolds DEF ensureBoundWaits
  <2> QED
    BY <2>1, <2>2 DEF RefsOk, Migrating
<1>4. CASE validate \/ startMigration
  <2>1. /\ Adopted.prov \in Providers /\ sw[Adopted.prov] = "ready" /\ Reference(Adopted.prov)
        /\ UNCHANGED mig /\ ~mig.live /\ mem'.ws = Adopted.prov /\ pc' # "create"
    BY <1>4, AdoptedType DEF validate, startMigration, Binds, Serving
  <2>2. HoldsOk' /\ Adopted.prov \in refs'
    BY <2>1, ReferenceHolds, References
  <2> QED
    BY <2>1, <2>2 DEF RefsOk, Migrating
<1>5. CASE repointSpec
  BY <1>5, DecodeType DEF repointSpec, HoldsOk, RefsOk, Migrating
<1>6. CASE destination
  <2>1. pick \in Providers /\ ~mig.live /\ UNCHANGED <<mem, pick, mig>> /\ mem.ws \in refs
    BY <1>6 DEF destination, FlowOk, Migrating, RefsOk
  <2>2. CASE sw[pick] = "deleting" /\ pc' = "store" /\ UNCHANGED <<sw, refs>>
    BY <2>1, <2>2 DEF HoldsOk, RefsOk, Migrating
  <2>3. CASE sw[pick] # "deleting" /\ pc' = "create" /\ Reference(pick)
    <3>1. HoldsOk' /\ refs' = refs \cup {pick}
      BY <2>1, <2>3, ReferenceHolds, References
    <3> QED
      BY <2>1, <2>3, <3>1 DEF RefsOk
  <2> QED
    BY <1>6, <2>2, <2>3 DEF destination
<1>7. CASE createMigration
  BY <1>7 DEF createMigration, HoldsOk, RefsOk, Migrating
<1> QED
  BY <1>1, <1>2, <1>3, <1>4, <1>5, <1>6, <1>7 DEF Assign

LEMMA HeldOthers ==
  ASSUME HeldInv,
         \/ copyToMigrationTarget \/ copyProcess \/ relatedProcess \/ Finalize
         \/ MigrationController \/ UserDelete \/ Fail
         \/ \E p \in Providers :
              ProviderSide(p) \/ \E a \in {"none", "other", "applies"} : OfferChanges(p, a)
  PROVE  HoldsOk' /\ RefsOk'
<1> USE DEF HeldInv, FlowInv, worker, staging, bounds, Ends
<1>1. CASE copyToMigrationTarget \/ copyProcess \/ relatedProcess
  BY <1>1 DEF copyToMigrationTarget, copyProcess, relatedProcess, HoldsOk, RefsOk, Migrating
<1>2. CASE relatedFinalize \/ copyFinalize \/ finalizeDone
  BY <1>2 DEF relatedFinalize, copyFinalize, finalizeDone, HoldsOk, RefsOk, Migrating
<1>3. CASE finalizeMigration
  <2>1. mig \in Migration /\ mig.to \in Providers
    BY <1>3 DEF finalizeMigration, TypeOK, FlowOk
  <2> QED
    BY <1>3, <2>1, ReleaseHolds DEF finalizeMigration, RefsOk, Migrating, Migration
<1>4. CASE finalizeAssignment
  <2>1. asg.status.ws # None => asg.status.ws \in Providers
    BY DEF TypeOK, Assignment, AssignmentStatus
  <2>2. HoldsOk'
    BY <1>4, <2>1, ReleaseHolds DEF finalizeAssignment, HoldsOk
  <2> QED
    BY <1>4, <2>2 DEF finalizeAssignment, RefsOk, Migrating
<1>5. CASE stagesProcess \/ cutoverProcess
  <2>1. /\ mig'.live = mig.live /\ mig'.deleting = mig.deleting
        /\ mig'.from = mig.from /\ mig'.to = mig.to
    BY <1>5 DEF stagesProcess, cutoverProcess, TypeOK, Migration
  <2> QED
    BY <1>5, <2>1 DEF stagesProcess, cutoverProcess, HoldsOk, RefsOk, Migrating
<1>6. CASE MigrationGone \/ UserDelete \/ Fail
  BY <1>6 DEF MigrationGone, NoMigration, UserDelete, Fail, HoldsOk, RefsOk, Migrating
<1>7. ASSUME NEW p \in Providers, ProviderSide(p)
      PROVE  HoldsOk' /\ RefsOk'
  BY <1>7 DEF ProviderSide, StagingReady, StagingGone, ProviderServes, CopyGone,
              TypeOK, HoldsOk, RefsOk, Migrating
<1>8. ASSUME NEW p \in Providers, NEW a \in {"none", "other", "applies"}, OfferChanges(p, a)
      PROVE  HoldsOk' /\ RefsOk'
  BY <1>8 DEF OfferChanges, HoldsOk, RefsOk, Migrating
<1> QED
  BY <1>1, <1>2, <1>3, <1>4, <1>5, <1>6, <1>7, <1>8 DEF Finalize, MigrationController

LEMMA HeldStep == HeldInv /\ [Next]_vars => HeldInv'
<1> SUFFICES ASSUME HeldInv, [Next]_vars
             PROVE  HoldsOk' /\ RefsOk'
  BY FlowStep DEF HeldInv
<1>1. CASE UNCHANGED vars
  BY <1>1 DEF vars, worker, staging, HeldInv, HoldsOk, RefsOk, Migrating
<1>2. CASE Next
  BY <1>2, HeldAssign, HeldOthers DEF Next, Worker
<1> QED
  BY <1>1, <1>2

LEMMA HeldInit == Init => HeldInv
<1> SUFFICES ASSUME Init PROVE HoldsOk /\ RefsOk
  BY FlowInit DEF HeldInv
<1> QED
  BY DEF Init, HoldsOk, RefsOk, Migrating, NoMigration

(* An active migration holds the staging workspaces it moves between.      *)
THEOREM MigrationHolds == Spec => []MigrationHeld
<1>1. HeldInv => MigrationHeld
  BY DEF HeldInv, RefsOk, MigrationHeld, ActiveMigration
<1> QED
  BY <1>1, HeldInit, HeldStep, PTL DEF Spec

-----------------------------------------------------------------------------
(* A served object keeps an available copy.                                *)

(* An available copy in a workspace that is held.                          *)
Kept == \E p \in refs : copy[p] = "available"

(* A completed migration has its new copy.                                 *)
CutOverOk ==
  mig.live =>
    /\ mig.deleting => mig.state = "completed"
    /\ mig.state = "completed" => copy[mig.to] = "available" /\ mig.to \in refs

(* Nothing but a migration lets go of a workspace the object is served     *)
(* from, or is about to be.                                                *)
HoldsServing ==
  /\ \A p \in Providers : copy[p] \in {"new", "available"} => p \in refs
  /\ asg.status.phase = "Bound" => asg.status.ws \in refs
  /\ mem.phase = "Bound" => mem.ws \in refs

ServedOk == obj = "live" => CutOverOk /\ (Kept \/ HoldsServing)

ServedInv == HeldInv /\ ServedOk

LEMMA LiveBefore == Next /\ obj' = "live" => obj = "live"
BY DEF Next, Worker, Assign, createAssignment, waitForMigration, finishMigration, resolveFails,
       ensureBoundWaits, validate, startMigration, repointSpec, destination, createMigration,
       storeStatus, copyToMigrationTarget, copyProcess, relatedProcess, Finalize,
       relatedFinalize, copyFinalize, finalizeMigration, finalizeAssignment, finalizeDone,
       MigrationController, stagesProcess, cutoverProcess, MigrationGone, UserDelete, Fail,
       ProviderSide, StagingReady, StagingGone, ProviderServes, CopyGone, OfferChanges

(* While the object lives, only finishMigration lets go of a workspace or  *)
(* removes a copy, and it has the new copy then; workspaces that go take   *)
(* only copies with them that are not held.                                *)
LEMMA LiveCopies ==
  ASSUME ServedInv, obj = "live", Next
  PROVE  /\ \A p \in Providers :
              copy[p] = "available" => copy'[p] = "available" \/ Kept'
         /\ Kept => Kept'
         /\ Kept' \/ refs \subseteq refs'
<1> USE DEF ServedInv, HeldInv, FlowInv, worker, staging, bounds
<1> DEFINE Goal == /\ \A p \in Providers :
                        copy[p] = "available" => copy'[p] = "available" \/ Kept'
                   /\ Kept => Kept'
                   /\ Kept' \/ refs \subseteq refs'
<1>1. ASSUME refs \subseteq refs',
             \A p \in Providers : copy[p] = "available" => copy'[p] = "available"
      PROVE  Goal
  BY <1>1 DEF Kept, TypeOK
<1>2. CASE \/ createAssignment \/ waitForMigration \/ resolveFails \/ repointSpec
           \/ createMigration \/ storeStatus \/ relatedProcess
           \/ MigrationController \/ UserDelete \/ Fail
  <2>1. UNCHANGED <<copy, refs>>
    BY <1>2 DEF createAssignment, waitForMigration, resolveFails, repointSpec,
                createMigration, storeStatus, relatedProcess, MigrationController,
                stagesProcess, cutoverProcess, MigrationGone, UserDelete, Fail
  <2> QED
    BY <1>1, <2>1
<1>3. CASE finishMigration
  <2>1. /\ mig.to \in refs /\ copy[mig.to] = "available" /\ mig.to # mig.from
        /\ mig.from \in Providers /\ mig.to \in Providers
    BY <1>3 DEF finishMigration, ServedOk, CutOverOk, FlowOk
  <2>2. mig.to \in refs' /\ copy'[mig.to] = "available"
    <3>1. CASE copy' = [copy EXCEPT ![mig.from] = "deleting"] /\ UNCHANGED refs
      BY <2>1, <3>1 DEF TypeOK
    <3>2. CASE Release(mig.from) /\ UNCHANGED copy
      BY <2>1, <3>2, Releases
    <3> QED
      BY <1>3, <3>1, <3>2 DEF finishMigration
  <2> QED
    BY <2>2 DEF Kept
<1>4. CASE ensureBoundWaits \/ validate \/ startMigration \/ destination
  <2>1. /\ UNCHANGED copy
        /\ \E p \in Providers : Reference(p) \/ (sw[p] = "deleting" /\ Release(p)) \/ refs' = refs
    <3>1. CASE destination
      BY <3>1 DEF destination, FlowOk, Migrating
    <3>2. CASE ensureBoundWaits \/ validate \/ startMigration
      <4>1. Adopted.prov \in Providers
        BY <3>2, AdoptedType DEF ensureBoundWaits, validate, startMigration, Binds
      <4> QED
        BY <3>2, <4>1 DEF ensureBoundWaits, validate, startMigration
    <3> QED
      BY <1>4, <3>1, <3>2
  <2>2. refs \subseteq refs'
    BY <2>1, Releases, References DEF HoldsOk
  <2> QED
    BY <1>1, <2>1, <2>2
<1>5. CASE copyToMigrationTarget \/ copyProcess
  <2>1. /\ UNCHANGED refs
        /\ copy' = copy \/ \E p \in Providers : Stage(p)
    BY <1>5 DEF copyToMigrationTarget, copyProcess, ActiveMigration, FlowOk, IsBound,
                TypeOK, Assignment, AssignmentStatus
  <2> QED
    BY <1>1, <2>1, StageType
<1>6. CASE Finalize
  BY <1>6 DEF Finalize, relatedFinalize, copyFinalize, finalizeMigration,
              finalizeAssignment, finalizeDone, Ends
<1>7. ASSUME NEW q \in Providers, ProviderSide(q)
      PROVE  Goal
  <2>1. UNCHANGED refs
    BY <1>7 DEF ProviderSide, StagingReady, StagingGone, ProviderServes, CopyGone
  <2>2. CASE StagingReady(q) \/ ProviderServes(q) \/ CopyGone(q)
    <3>1. \A p \in Providers : copy[p] = "available" => copy'[p] = "available"
      BY <2>2 DEF StagingReady, ProviderServes, CopyGone, TypeOK
    <3> QED
      BY <1>1, <2>1, <3>1
  <2>3. CASE StagingGone(q)
    <3>1. /\ q \notin refs /\ copy' = [copy EXCEPT ![q] = "none"]
      BY <2>3 DEF StagingGone
    <3>2. Kept => Kept'
      BY <2>1, <3>1 DEF Kept, TypeOK
    <3>3. copy[q] = "available" => Kept
      BY <3>1 DEF ServedOk, HoldsServing
    <3> QED
      BY <2>1, <3>1, <3>2, <3>3 DEF TypeOK
  <2> QED
    BY <1>7, <2>2, <2>3 DEF ProviderSide
<1>8. ASSUME NEW q \in Providers, NEW a \in {"none", "other", "applies"}, OfferChanges(q, a)
      PROVE  Goal
  BY <1>1, <1>8 DEF OfferChanges
<1> QED
  BY <1>2, <1>3, <1>4, <1>5, <1>6, <1>7, <1>8 DEF Next, Worker, Assign

(* The two ends of a migration.                                            *)
LEMMA CutOverStep ==
  ASSUME ServedInv, obj = "live", Next
  PROVE  CutOverOk'
<1> USE DEF ServedInv, HeldInv, FlowInv, worker, staging, bounds
<1>1. CutOverOk
  BY DEF ServedOk
<1>2. CASE \/ createAssignment \/ waitForMigration \/ resolveFails \/ repointSpec
           \/ storeStatus \/ relatedProcess \/ UserDelete \/ Fail
  BY <1>1, <1>2 DEF createAssignment, waitForMigration, resolveFails, repointSpec,
                    storeStatus, relatedProcess, UserDelete, Fail, CutOverOk
<1>3. CASE finishMigration
  <2>1. /\ mig.to \in refs /\ copy[mig.to] = "available" /\ mig.to # mig.from /\ mig.live
        /\ mig.from \in Providers /\ mig.to \in Providers /\ mig \in Migration
        /\ mig.state = "completed"
    BY <1>1, <1>3 DEF finishMigration, CutOverOk, FlowOk, TypeOK
  <2>2. CASE copy' = [copy EXCEPT ![mig.from] = "deleting"] /\ UNCHANGED <<mig, sw, refs>>
    BY <2>1, <2>2 DEF TypeOK, CutOverOk
  <2>3. CASE Release(mig.from) /\ mig' = [mig EXCEPT !.deleting = TRUE] /\ UNCHANGED copy
    BY <2>1, <2>3, Releases DEF Migration, CutOverOk
  <2> QED
    BY <1>3, <2>2, <2>3 DEF finishMigration
<1>4. CASE \/ ensureBoundWaits \/ validate \/ startMigration \/ destination
           \/ createMigration
  <2>1. /\ createMigration \/ UNCHANGED mig
        /\ ~mig.live
    BY <1>4 DEF ensureBoundWaits, validate, startMigration, destination, createMigration,
                Binds, FlowOk, Migrating
  <2> QED
    BY <2>1 DEF CutOverOk, createMigration
<1>5. CASE copyToMigrationTarget \/ copyProcess
  <2>1. /\ UNCHANGED <<refs, mig>>
        /\ copy' = copy \/ \E p \in Providers : Stage(p)
    BY <1>5 DEF copyToMigrationTarget, copyProcess, ActiveMigration, FlowOk, IsBound,
                TypeOK, Assignment, AssignmentStatus
  <2>2. mig.live => mig.to \in Providers
    BY DEF FlowOk
  <2>3. \A p \in Providers : copy[p] = "available" => copy'[p] = "available"
    BY <2>1, StageType
  <2> QED
    BY <1>1, <2>1, <2>2, <2>3 DEF CutOverOk
<1>6. CASE Finalize
  BY <1>6 DEF Finalize, relatedFinalize, copyFinalize, finalizeMigration,
              finalizeAssignment, finalizeDone, Ends
<1>7. CASE MigrationController
  <2>1. CASE stagesProcess
    BY <1>1, <2>1 DEF stagesProcess, CutOverOk, TypeOK, Migration
  <2>2. CASE cutoverProcess
    BY <1>1, <2>2 DEF cutoverProcess, CutOverOk, TypeOK, Migration, RefsOk
  <2>3. CASE MigrationGone
    BY <2>3 DEF MigrationGone, NoMigration, CutOverOk
  <2> QED
    BY <1>7, <2>1, <2>2, <2>3 DEF MigrationController
<1>8. ASSUME NEW q \in Providers, ProviderSide(q)
      PROVE  CutOverOk'
  BY <1>1, <1>8 DEF ProviderSide, StagingReady, StagingGone, ProviderServes, CopyGone,
                    CutOverOk, FlowOk, TypeOK
<1>9. ASSUME NEW q \in Providers, NEW a \in {"none", "other", "applies"}, OfferChanges(q, a)
      PROVE  CutOverOk'
  BY <1>1, <1>9 DEF OfferChanges, CutOverOk
<1> QED
  BY <1>2, <1>3, <1>4, <1>5, <1>6, <1>7, <1>8, <1>9 DEF Next, Worker, Assign

(* Without such a copy, workspaces stay held as they are taken up.         *)
LEMMA HoldsStep ==
  ASSUME ServedInv, obj = "live", Next, ~Kept'
  PROVE  HoldsServing'
<1> USE DEF ServedInv, HeldInv, FlowInv, worker, staging, bounds
<1>1. HoldsServing /\ refs \subseteq refs' /\ CutOverOk
  BY LiveCopies DEF ServedOk
<1>2. CASE \/ createAssignment \/ waitForMigration \/ createMigration
           \/ storeStatus \/ relatedProcess \/ UserDelete \/ Fail
  <2>1. /\ UNCHANGED <<copy, refs>>
        /\ asg'.status.phase = "Bound" => asg'.status \in {asg.status, mem}
        /\ mem' \in {mem, NoStatus}
    BY <1>2 DEF createAssignment, waitForMigration, createMigration, storeStatus,
                relatedProcess, UserDelete, Fail, NoStatus, TypeOK, Assignment
  <2> QED
    BY <1>1, <2>1 DEF HoldsServing, NoStatus
<1>3. CASE finishMigration
  <2>1. /\ mig.to \in refs /\ copy[mig.to] = "available" /\ mig.to # mig.from
        /\ mig.from \in Providers /\ mig.to \in Providers
    BY <1>1, <1>3 DEF finishMigration, CutOverOk, FlowOk
  <2>2. mig.to \in refs' /\ copy'[mig.to] = "available"
    <3>1. CASE copy' = [copy EXCEPT ![mig.from] = "deleting"] /\ UNCHANGED refs
      BY <2>1, <3>1 DEF TypeOK
    <3>2. CASE Release(mig.from) /\ UNCHANGED copy
      BY <2>1, <3>2, Releases
    <3> QED
      BY <1>3, <3>1, <3>2 DEF finishMigration
  <2> QED
    BY <2>2 DEF Kept
<1>4. CASE resolveFails
  <2>1. /\ UNCHANGED <<copy, refs, asg>> /\ mem'.phase = asg.status.phase
        /\ mem'.ws = asg.status.ws
    BY <1>4, AdoptedType DEF resolveFails, Binds
  <2> QED
    BY <1>1, <2>1 DEF HoldsServing
<1>5. CASE ensureBoundWaits
  <2>1. UNCHANGED <<copy, asg>> /\ mem'.phase = "Pending"
    BY <1>5 DEF ensureBoundWaits, Serving
  <2> QED
    BY <1>1, <2>1 DEF HoldsServing
<1>6. CASE validate \/ startMigration
  <2>1. /\ UNCHANGED <<copy, asg>> /\ mem'.ws = Adopted.prov
        /\ Reference(Adopted.prov) /\ Adopted.prov \in Providers
    BY <1>6, AdoptedType DEF validate, startMigration, Serving, Binds
  <2> QED
    BY <1>1, <2>1, References DEF HoldsServing
<1>7. CASE repointSpec
  <2>1. /\ UNCHANGED <<copy, refs>> /\ asg'.status = asg.status /\ mem'.ws = mem.ws
        /\ mem.ws \in refs
    BY <1>7, DecodeType DEF repointSpec, RefsOk, Migrating, TypeOK, Assignment
  <2> QED
    BY <1>1, <2>1 DEF HoldsServing
<1>8. CASE destination
  BY <1>1, <1>8 DEF destination, HoldsServing
<1>9. CASE copyToMigrationTarget \/ copyProcess
  <2>1. UNCHANGED <<refs, asg, mem>>
    BY <1>9 DEF copyToMigrationTarget, copyProcess
  <2>2. ASSUME NEW p \in Providers, Stage(p), p \in refs
        PROVE  HoldsServing'
    BY <1>1, <2>1, <2>2, StageType DEF HoldsServing
  <2>3. copy' = copy \/ \E p \in Providers : Stage(p) /\ p \in refs
    <3>1. CASE copyToMigrationTarget
      BY <1>1, <3>1 DEF copyToMigrationTarget, ActiveMigration, FlowOk, CutOverOk, RefsOk
    <3>2. CASE copyProcess
      BY <1>1, <3>2 DEF copyProcess, IsBound, HoldsServing, TypeOK
    <3> QED
      BY <1>9, <3>1, <3>2
  <2>4. CASE copy' = copy
    BY <1>1, <2>1, <2>4 DEF HoldsServing
  <2> QED
    BY <2>2, <2>3, <2>4
<1>10. CASE Finalize
  BY <1>10 DEF Finalize, relatedFinalize, copyFinalize, finalizeMigration,
               finalizeAssignment, finalizeDone, Ends
<1>11. CASE MigrationController
  BY <1>1, <1>11 DEF MigrationController, stagesProcess, cutoverProcess, MigrationGone,
                     HoldsServing
<1>12. ASSUME NEW q \in Providers, ProviderSide(q)
       PROVE  HoldsServing'
  BY <1>1, <1>12 DEF ProviderSide, StagingReady, StagingGone, ProviderServes, CopyGone,
                     HoldsServing, TypeOK
<1>13. ASSUME NEW q \in Providers, NEW a \in {"none", "other", "applies"}, OfferChanges(q, a)
       PROVE  HoldsServing'
  BY <1>1, <1>13 DEF OfferChanges, HoldsServing
<1> QED
  BY <1>2, <1>3, <1>4, <1>5, <1>6, <1>7, <1>8, <1>9, <1>10, <1>11, <1>12, <1>13
     DEF Next, Worker, Assign

LEMMA ServedStep == ServedInv /\ [Next]_vars => ServedInv'
<1> SUFFICES ASSUME ServedInv, [Next]_vars
             PROVE  ServedOk'
  BY HeldStep DEF ServedInv
<1>1. CASE UNCHANGED vars
  BY <1>1 DEF vars, worker, staging, ServedInv, ServedOk, CutOverOk, Kept, HoldsServing
<1>2. CASE Next
  BY <1>2, LiveBefore, CutOverStep, HoldsStep DEF ServedOk
<1> QED
  BY <1>1, <1>2

LEMMA ServedInit == Init => ServedInv
<1> SUFFICES ASSUME Init PROVE ServedOk
  BY HeldInit DEF ServedInv
<1> QED
  BY DEF Init, ServedOk, CutOverOk, HoldsServing, NoMigration, NoAssignment, NoStatus

(* While the object is not deleted, migrations never leave it without an   *)
(* available copy once it had one.                                         *)
THEOREM ServiceKept == Spec => KeepsServing
<1>1. ASSUME ServedInv, [Next]_vars
      PROVE  [obj = "live" /\ Available # {} => Available' # {}]_vars
  <2>1. CASE UNCHANGED vars
    BY <2>1
  <2>2. CASE Next
    <3>1. SUFFICES ASSUME obj = "live", NEW p \in Providers, copy[p] = "available"
                   PROVE  \E q \in Providers : copy'[q] = "available"
      BY <2>2 DEF Available
    <3>2. refs' \subseteq Providers
      BY <1>1, ServedStep DEF ServedInv, HeldInv, FlowInv, TypeOK
    <3>3. copy'[p] = "available" \/ Kept'
      BY <1>1, <2>2, <3>1, LiveCopies
    <3> QED
      BY <3>2, <3>3 DEF Kept
  <2> QED
    BY <1>1, <2>1, <2>2
<1> QED
  BY <1>1, ServedInit, ServedStep, PTL DEF Spec, KeepsServing

-----------------------------------------------------------------------------
(* What an object leaves behind that was never in a migration.             *)

(* While no AcceptAPI changes, nothing migrates.                           *)
QuietOk ==
  /\ \A p \in Providers : api[p] = "applies"
  /\ ~mig.live /\ ~Migrating /\ pc # "storeError"
  /\ pc # "store" => mem = NoStatus
  /\ pc = "store" => mem.ws = asg.spec

(* The object stays with the provider of its spec, and once it is bound    *)
(* the workspace is there; only a failure can make it forget a reference.  *)
BindingOk ==
  /\ asg.status.prov \in {None, asg.spec}
  /\ asg.live => refs \subseteq {asg.spec}
  /\ ~asg.live /\ (fails = 0 \/ obj = "live") => refs = {}
  /\ asg.live /\ "Bound" \in {asg.status.phase, mem.phase} => sw[asg.spec] = "ready"
  /\ asg.status.phase = "Bound" /\ pc = "store" => mem.phase = "Bound"
  /\ fails = 0 /\ asg.live /\ asg.spec \in refs => asg.status.ws = asg.spec \/ pc = "store"
  /\ obj = "gone" => ~asg.live

(* There is a copy only where the object is bound, until the finalizer of  *)
(* the copy goes, and related resources only with a copy.                  *)
ContentOk ==
  /\ \A p \in Providers : copy[p] # "none" =>
       asg.live /\ p = asg.spec /\ asg.status.phase = "Bound" /\ "Copy" \in fins
  /\ \A p \in related : copy[p] # "none" /\ "RelatedResources" \in fins
  /\ \A p \in Providers : copy[p] = "deleting" => "RelatedResources" \notin fins

Settled == QuietOk /\ BindingOk /\ ContentOk

SettledInv == HeldInv /\ (offers = 0 => Settled)

LEMMA SettledAssign ==
  ASSUME HeldInv, Settled, Assign
  PROVE  Settled'
<1> USE DEF HeldInv, FlowInv, worker, staging, bounds, Settled
<1>1. /\ ~mig.live /\ ~Migrating /\ pc # "storeError" /\ Applying = Providers
      /\ asg.live => Adopted.prov = asg.spec /\ asg.spec \in Providers
    BY AdoptedType DEF QuietOk, Applying, BindingOk
<1>2. CASE createAssignment
  <2>1. /\ ~asg.live /\ asg = NoAssignment /\ mem = NoStatus /\ refs = {}
        /\ UNCHANGED <<api, obj, fins, mig, staging, related, mem, pick, bounds>>
        /\ obj = "live" /\ pc' = "copy"
    BY <1>2 DEF createAssignment, Starts, QuietOk, BindingOk, FlowOk
  <2>2. asg' = asg \/ (asg'.live /\ asg'.status = NoStatus)
    BY <1>2 DEF createAssignment
  <2>3. \A p \in Providers : copy[p] = "none"
    BY <2>1 DEF ContentOk
  <2>4. related = {}
    BY <2>3 DEF ContentOk, TypeOK
  <2> QED
    BY <2>1, <2>2, <2>3, <2>4
       DEF QuietOk, BindingOk, ContentOk, Migrating, NoStatus, NoAssignment
<1>3. CASE waitForMigration \/ finishMigration \/ repointSpec \/ destination \/ createMigration
  BY <1>1, <1>3 DEF waitForMigration, finishMigration, repointSpec, destination,
                    createMigration, Migrating
<1>4. CASE resolveFails \/ startMigration
  BY <1>1, <1>4 DEF resolveFails, startMigration, Resolvable, Binds, QuietOk, TypeOK
<1>5. CASE ensureBoundWaits
  <2>1. /\ asg.live /\ obj = "live" /\ pc = "assign" /\ pc' = "store"
        /\ sw[asg.spec] # "ready" /\ mem'.phase = "Pending" /\ mem'.ws = asg.spec
        /\ asg.spec \in Providers
        /\ UNCHANGED <<api, obj, fins, asg, mig, copy, related, pick, bounds>>
    BY <1>1, <1>5 DEF ensureBoundWaits, Binds, Starts, Serving
  <2>2. refs' \subseteq {asg.spec}
    BY <1>1, <1>5, <2>1, Releases, References DEF ensureBoundWaits, BindingOk
  <2>3. asg.status.phase # "Bound"
    BY <2>1 DEF BindingOk
  <2> QED
    BY <2>1, <2>2, <2>3 DEF QuietOk, BindingOk, ContentOk, Migrating
<1>6. CASE validate
  <2>1. /\ asg.live /\ obj = "live" /\ pc = "assign" /\ pc' = "store"
        /\ sw[asg.spec] = "ready" /\ mem'.phase = "Bound" /\ mem'.ws = asg.spec
        /\ asg.spec \in Providers /\ Reference(asg.spec)
        /\ UNCHANGED <<api, obj, fins, asg, mig, copy, related, pick, bounds>>
    BY <1>1, <1>6 DEF validate, Binds, Starts, Serving
  <2>2. refs' \subseteq {asg.spec} /\ sw'[asg.spec] = "ready"
    BY <2>1, References DEF BindingOk
  <2> QED
    BY <2>1, <2>2 DEF QuietOk, BindingOk, ContentOk, Migrating
<1>7. CASE storeStatus
  <2>1. /\ pc = "store" /\ pc' = "copy" /\ mem' = NoStatus /\ asg.live
        /\ asg'.spec = asg.spec /\ asg'.live = asg.live /\ asg'.status = mem
        /\ UNCHANGED <<api, obj, fins, mig, staging, related, bounds>>
    BY <1>1, <1>7 DEF storeStatus, TypeOK, Assignment, FlowOk
  <2>2. mem.ws = asg.spec /\ mem.prov = asg.spec
    BY <1>1, <2>1, BrokerAssumption DEF QuietOk, FlowOk, Names
  <2> QED
    BY <2>1, <2>2 DEF QuietOk, BindingOk, ContentOk, Migrating, NoStatus
<1> QED
  BY <1>2, <1>3, <1>4, <1>5, <1>6, <1>7 DEF Assign

LEMMA SettledChain ==
  ASSUME HeldInv, Settled,
         copyToMigrationTarget \/ copyProcess \/ relatedProcess \/ Finalize
  PROVE  Settled'
<1> USE DEF HeldInv, FlowInv, worker, staging, bounds, Settled
<1>1. /\ ~mig.live
      /\ IsBound => asg.status.ws = asg.spec /\ asg.spec \in Providers
    BY DEF QuietOk, BindingOk, IsBound, FlowOk, Names
<1>2. CASE copyToMigrationTarget
  BY <1>1, <1>2 DEF copyToMigrationTarget, ActiveMigration
<1>3. CASE copyProcess
  <2>1. /\ pc = "copy" /\ pc' \in {"related", "assign"} /\ fins = Subroutines
        /\ UNCHANGED <<api, obj, fins, asg, mig, sw, refs, related, mem, pick, bounds>>
        /\ copy' = copy \/ (IsBound /\ Stage(asg.spec))
    BY <1>1, <1>3 DEF copyProcess, FlowOk
  <2>2. QuietOk' /\ BindingOk'
    BY <2>1 DEF QuietOk, BindingOk, Migrating
  <2>3. ContentOk'
    <3>1. CASE copy' = copy
      BY <2>1, <3>1 DEF ContentOk
    <3>2. CASE IsBound /\ Stage(asg.spec)
      <4>1. /\ \A p \in Providers : p # asg.spec => copy'[p] = copy[p]
            /\ copy'[asg.spec] = IF copy[asg.spec] = "none" THEN "new" ELSE copy[asg.spec]
        BY <1>1, <3>2, StageType
      <4> QED
        BY <1>1, <2>1, <3>2, <4>1 DEF ContentOk, IsBound, Subroutines, TypeOK
    <3> QED
      BY <2>1, <3>1, <3>2
  <2> QED
    BY <2>2, <2>3
<1>4. CASE relatedProcess
  <2>1. /\ pc = "related" /\ pc' = "assign" /\ fins = Subroutines
        /\ UNCHANGED <<api, obj, fins, asg, mig, staging, mem, pick, bounds>>
    BY <1>4 DEF relatedProcess, FlowOk
  <2>2. QuietOk' /\ BindingOk'
    BY <2>1 DEF QuietOk, BindingOk, Migrating
  <2>3. ContentOk'
    BY <1>4, <2>1 DEF relatedProcess, ContentOk, Subroutines
  <2> QED
    BY <2>2, <2>3
<1>5. CASE relatedFinalize \/ copyFinalize
  <2>1. /\ fins' \subseteq fins
        /\ UNCHANGED <<api, obj, asg, mig, sw, refs, worker, bounds>>
    BY <1>5 DEF relatedFinalize, copyFinalize
  <2>2. QuietOk' /\ BindingOk'
    BY <2>1 DEF QuietOk, BindingOk, Migrating
  <2>3. \A p \in Providers : copy[p] # "none" => HasCopy /\ p = asg.status.ws
    <3>1. SUFFICES ASSUME NEW p \in Providers, copy[p] # "none"
                   PROVE  HasCopy /\ p = asg.status.ws
      OBVIOUS
    <3>2. asg.live /\ p = asg.spec /\ asg.status.phase = "Bound" /\ asg.status.ws # None
      BY <3>1 DEF ContentOk, FlowOk, Names
    <3> QED
      BY <1>1, <3>1, <3>2 DEF HasCopy, IsBound, Exists
  <2>4. CASE relatedFinalize
    <3>1. CASE /\ related' = related \ {asg.status.ws} /\ fins' = fins /\ UNCHANGED copy
      BY <2>1, <2>2, <3>1 DEF ContentOk
    <3>2. CASE /\ ~(HasCopy /\ asg.status.ws \in related)
               /\ related' = related /\ fins' = fins \ {"RelatedResources"} /\ UNCHANGED copy
      <4>1. related = {}
        BY <2>3, <3>2 DEF ContentOk, TypeOK
      <4> QED
        BY <2>1, <2>2, <3>2, <4>1 DEF ContentOk
    <3> QED
      BY <2>2, <2>4, <3>1, <3>2 DEF relatedFinalize
  <2>5. CASE copyFinalize
    <3>1. "RelatedResources" \notin fins /\ related = {} /\ UNCHANGED related /\ "Copy" \in fins
      BY <2>5 DEF copyFinalize, Ends, ContentOk
    <3>2. CASE HasCopy /\ copy' = [copy EXCEPT ![asg.status.ws] = "deleting"] /\ fins' = fins
      BY <1>1, <2>1, <2>2, <3>1, <3>2 DEF ContentOk, HasCopy, Exists, TypeOK
    <3>3. CASE ~HasCopy /\ copy' = copy /\ fins' = fins \ {"Copy"}
      BY <2>1, <2>2, <2>3, <3>1, <3>3 DEF ContentOk
    <3> QED
      BY <2>2, <2>5, <3>2, <3>3 DEF copyFinalize
  <2> QED
    BY <1>5, <2>2, <2>4, <2>5
<1>6. CASE finalizeMigration
  BY <1>1, <1>6 DEF finalizeMigration
<1>7. CASE finalizeAssignment
  <2>1. /\ pc = "assign" /\ mem = NoStatus /\ asg.live /\ asg' = NoAssignment
        /\ obj = "deleting" /\ "Copy" \notin fins
        /\ UNCHANGED <<api, obj, fins, mig, copy, related, worker, bounds>>
    BY <1>7 DEF finalizeAssignment, Ends, QuietOk
  <2>2. \A p \in Providers : copy[p] = "none"
    BY <2>1 DEF ContentOk
  <2>3. related = {}
    BY <2>2 DEF ContentOk, TypeOK
  <2>4. fails = 0 => refs' = {}
    <3>1. CASE asg.spec \in refs /\ fails = 0
      <4>1. asg.status.ws = asg.spec /\ asg.spec \in Providers /\ asg.status.ws # None
        BY <2>1, <3>1, BrokerAssumption DEF BindingOk, FlowOk
      <4>2. refs' = refs \ {asg.spec}
        BY <1>7, <4>1, Releases DEF finalizeAssignment
      <4> QED
        BY <2>1, <4>2 DEF BindingOk
    <3>2. CASE asg.spec \notin refs
      <4>1. refs = {}
        BY <2>1, <3>2 DEF BindingOk
      <4> QED
        BY <1>7, <4>1 DEF finalizeAssignment, Release
    <3> QED
      BY <3>1, <3>2
  <2> QED
    BY <2>1, <2>2, <2>3, <2>4
       DEF QuietOk, BindingOk, ContentOk, Migrating, NoStatus, NoAssignment
<1>8. CASE finalizeDone
  BY <1>8 DEF finalizeDone, Ends, QuietOk, BindingOk, ContentOk, Migrating
<1> QED
  BY <1>2, <1>3, <1>4, <1>5, <1>6, <1>7, <1>8 DEF Finalize

LEMMA SettledOthers ==
  ASSUME HeldInv, Settled,
         \/ MigrationController \/ UserDelete \/ Fail
         \/ \E p \in Providers : ProviderSide(p)
  PROVE  Settled'
<1> USE DEF HeldInv, FlowInv, worker, staging, bounds, Settled
<1>1. CASE MigrationController
  BY <1>1 DEF MigrationController, stagesProcess, cutoverProcess, MigrationGone, QuietOk
<1>2. CASE UserDelete
  BY <1>2 DEF UserDelete, QuietOk, BindingOk, ContentOk, Migrating
<1>3. CASE Fail
  <2>1. /\ pc' = "assign" /\ mem' = NoStatus /\ fails' \in Nat /\ fails' # 0
        /\ UNCHANGED <<api, obj, fins, asg, mig, staging, related, offers>>
    BY <1>3, BrokerAssumption DEF Fail, TypeOK
  <2>2. obj # "live" => fails' # 0
    BY <2>1
  <2> QED
    BY <2>1 DEF QuietOk, BindingOk, ContentOk, Migrating, NoStatus
<1>4. ASSUME NEW q \in Providers, ProviderSide(q)
      PROVE  Settled'
  <2>1. /\ UNCHANGED <<api, obj, fins, asg, mig, refs, related, worker, bounds>>
        /\ \A p \in Providers : sw[p] = "ready" => sw'[p] = "ready"
    BY <1>4 DEF ProviderSide, StagingReady, StagingGone, ProviderServes, CopyGone, TypeOK
  <2>2. QuietOk'
    BY <2>1 DEF QuietOk, Migrating
  <2>3. BindingOk'
    BY <2>1 DEF BindingOk, FlowOk
  <2>4. ContentOk'
    <3>1. CASE StagingReady(q) \/ ProviderServes(q)
      BY <2>1, <3>1 DEF StagingReady, ProviderServes, ContentOk, TypeOK
    <3>2. CASE CopyGone(q)
      BY <2>1, <3>2 DEF CopyGone, ContentOk, TypeOK
    <3>3. CASE StagingGone(q)
      <4>1. copy[q] = "none"
        BY <3>3 DEF StagingGone, ContentOk, BindingOk
      <4>2. copy' = copy
        BY <3>3, <4>1 DEF StagingGone, TypeOK
      <4> QED
        BY <2>1, <4>2 DEF ContentOk
    <3> QED
      BY <1>4, <3>1, <3>2, <3>3 DEF ProviderSide
  <2> QED
    BY <2>2, <2>3, <2>4
<1> QED
  BY <1>1, <1>2, <1>3, <1>4

(* The count of changes only grows.                                        *)
LEMMA OffersGrow ==
  ASSUME TypeOK, Next, offers' = 0
  PROVE  /\ offers = 0
         /\ ~ \E p \in Providers, a \in {"none", "other", "applies"} : OfferChanges(p, a)
<1>1. offers' = offers \/ (offers' = offers + 1 /\ offers \in Nat)
  BY BrokerAssumption
     DEF Next, Worker, Assign, createAssignment, waitForMigration, finishMigration, resolveFails,
       ensureBoundWaits, validate, startMigration, repointSpec, destination, createMigration,
       storeStatus, copyToMigrationTarget, copyProcess, relatedProcess, Finalize,
       relatedFinalize, copyFinalize, finalizeMigration, finalizeAssignment, finalizeDone,
       MigrationController, stagesProcess, cutoverProcess, MigrationGone, UserDelete, Fail,
       ProviderSide, StagingReady, StagingGone, ProviderServes, CopyGone, OfferChanges,
       bounds, TypeOK
<1>2. \A p \in Providers, a \in {"none", "other", "applies"} :
        OfferChanges(p, a) => offers' = offers + 1 /\ offers \in Nat
  BY BrokerAssumption DEF OfferChanges, TypeOK
<1> QED
  BY <1>1, <1>2

LEMMA SettledStep == SettledInv /\ [Next]_vars => SettledInv'
<1> SUFFICES ASSUME SettledInv, [Next]_vars, offers' = 0
             PROVE  Settled'
  BY HeldStep DEF SettledInv
<1>1. CASE UNCHANGED vars
  BY <1>1 DEF vars, worker, staging, bounds, SettledInv, Settled, QuietOk, BindingOk,
              ContentOk, Migrating
<1>2. CASE Next
  <2>1. /\ offers = 0 /\ HeldInv /\ Settled
        /\ ~ \E p \in Providers, a \in {"none", "other", "applies"} : OfferChanges(p, a)
    BY <1>2, OffersGrow DEF SettledInv, HeldInv, FlowInv
  <2> QED
    BY <1>2, <2>1, SettledAssign, SettledChain, SettledOthers DEF Next, Worker
<1> QED
  BY <1>1, <1>2

LEMMA SettledInit == Init => SettledInv
<1> SUFFICES ASSUME Init PROVE Settled
  BY HeldInit DEF SettledInv
<1> QED
  BY DEF Init, Settled, QuietOk, BindingOk, ContentOk, Migrating, NoMigration, NoAssignment,
         NoStatus

(* An object that never was in a migration cleans up after itself, but for *)
(* the reference a failed pass may have forgotten.                         *)
THEOREM CleanedUp == Spec => []CleansUp
<1>1. SettledInv => CleansUp
  <2> SUFFICES ASSUME SettledInv, obj = "gone", offers = 0
               PROVE  /\ related = {}
                      /\ \A p \in Providers : copy[p] = "none" \/ sw[p] = "deleting"
                      /\ fails = 0 => refs = {}
    BY DEF CleansUp
  <2>1. Settled /\ ~asg.live /\ related \subseteq Providers
    BY DEF SettledInv, Settled, BindingOk, HeldInv, FlowInv, TypeOK
  <2>2. \A p \in Providers : copy[p] = "none"
    BY <2>1 DEF Settled, ContentOk
  <2> QED
    BY <2>1, <2>2 DEF Settled, ContentOk, BindingOk
<1> QED
  BY <1>1, SettledInit, SettledStep, PTL DEF Spec
===============================================================================
