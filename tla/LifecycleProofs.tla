--------------------------- MODULE LifecycleProofs ---------------------------
(***************************************************************************)
(* Proofs about Lifecycle, for chains of every length, every assignment of *)
(* roles to the subroutines and every set of answers they may give: type   *)
(* correctness, and that the external resource of a Finalizer never        *)
(* outlives the finalizer.                                                 *)
(***************************************************************************)
EXTENDS Lifecycle, TLAPS

-----------------------------------------------------------------------------
(* The operators on objects return objects.                                *)

LEMMA CollectType ==
  ASSUME NEW o \in Object
  PROVE  Collect(o) \in Object
BY DEF Collect, Object

LEMMA PatchMetaType ==
  ASSUME NEW o \in Object, NEW from \in Object, NEW to \in Object
  PROVE  PatchMeta(o, from, to) \in Object
<1> DEFINE p == [o EXCEPT !.fins  = IF to.fins # from.fins THEN to.fins ELSE @,
                          !.label = IF to.label # from.label THEN to.label ELSE @]
<1>1. p \in Object
  BY DEF Object
<1> QED
  BY <1>1, CollectType DEF PatchMeta

LEMMA PatchStatusType ==
  ASSUME NEW o \in Object, NEW from \in Object, NEW to \in Object
  PROVE  PatchStatus(o, from, to) \in Object
<1> DEFINE p == PatchStatus(o, from, to)
<1>1. /\ p = [o EXCEPT !.cond = p.cond, !.fcond = p.fcond, !.ready = p.ready,
                      !.init = p.init, !.term = p.term, !.observed = p.observed,
                      !.next = p.next, !.content = p.content]
      /\ p.cond \in {o.cond, to.cond} /\ p.fcond \in {o.fcond, to.fcond}
      /\ p.ready \in {o.ready, to.ready}
  BY DEF PatchStatus, Object
<1>2. p.init \in {o.init, to.init} /\ p.term \in {o.term, to.term}
  BY DEF PatchStatus, Object
<1>3. /\ p.observed \in {o.observed, to.observed} /\ p.next \in {o.next, to.next}
      /\ p.content \in {o.content, to.content}
  BY DEF PatchStatus, Object
<1> HIDE DEF p
<1>4. p \in Object
  BY <1>1, <1>2, <1>3 DEF Object
<1> QED
  BY <1>4 DEF p

LEMMA DecodeType ==
  ASSUME NEW o \in Object, NEW answer \in Object
  PROVE  Decode(o, answer) \in Object
<1> DEFINE p == Decode(o, answer)
<1>1. /\ p = [answer EXCEPT !.fins = p.fins, !.cond = p.cond, !.fcond = p.fcond,
                           !.ready = p.ready, !.init = p.init, !.term = p.term,
                           !.observed = p.observed, !.next = p.next,
                           !.content = p.content]
      /\ p.cond \in {o.cond, answer.cond} /\ p.fcond \in {o.fcond, answer.fcond}
      /\ p.ready \in {o.ready, answer.ready} /\ p.fins \in {o.fins, answer.fins}
  BY DEF Decode, Object
<1>2. p.init \in BOOLEAN /\ p.term \in BOOLEAN
  BY DEF Decode, Object
<1>3. /\ p.observed \in {o.observed, answer.observed}
      /\ p.next \in {o.next, answer.next}
      /\ p.content \in {o.content, answer.content}
  BY DEF Decode, Object
<1> HIDE DEF p
<1>4. p \in Object
  BY <1>1, <1>2, <1>3 DEF Object
<1> QED
  BY <1>4 DEF p

LEMMA LaterType ==
  ASSUME NEW o \in Object
  PROVE  Later(o) \in Object
BY DEF Later, Object

LEMMA NewObjectType == NewObject \in Object
BY ConfigAssumption DEF NewObject, Object, CondStatus

LEMMA InitUnknownConditionsType ==
  ASSUME NEW o \in Object
  PROVE  InitUnknownConditions(o) \in Object
<1> DEFINE Ensure(c) == IF c = "none" THEN "Unknown" ELSE c
<1>1. [s \in Sub |-> Ensure(o.cond[s])] \in [Sub -> CondStatus]
  BY DEF Object, CondStatus
<1>2. Ensure(o.ready) \in CondStatus
  BY DEF Object, CondStatus
<1> QED
  BY <1>1, <1>2 DEF InitUnknownConditions, Object

LEMMA SetSubroutineConditionType ==
  ASSUME NEW o \in Object, NEW s \in Sub, NEW res, NEW isFinalize
  PROVE  SetSubroutineCondition(o, s, res, isFinalize) \in Object
<1>1. ConditionOf(res) \in CondStatus
  BY DEF ConditionOf, CondStatus
<1>2. [o.cond EXCEPT ![s] = ConditionOf(res)] \in [Sub -> CondStatus]
  BY <1>1 DEF Object
<1>3. [o.fcond EXCEPT ![s] = ConditionOf(res)] \in [Sub -> CondStatus]
  BY <1>1 DEF Object
<1> QED
  BY <1>2, <1>3 DEF SetSubroutineCondition, Object

LEMMA SetSkippedConditionsType ==
  ASSUME NEW o \in Object, NEW remaining, NEW isReady
  PROVE  SetSkippedConditions(o, remaining, isReady) \in Object
<1> DEFINE new == [s \in Sub |-> IF s \notin remaining THEN o.cond[s]
                                 ELSE IF isReady THEN "True" ELSE "False"]
<1>1. new \in [Sub -> CondStatus]
  BY DEF Object, CondStatus
<1> QED
  BY <1>1 DEF SetSkippedConditions, Object

LEMMA SetReadyConditionType ==
  ASSUME NEW o \in Object
  PROVE  SetReadyCondition(o) \in Object
BY DEF SetReadyCondition, Object, CondStatus

LEMMA UpdateSpreadType ==
  ASSUME NEW o \in Object
  PROVE  UpdateSpread(o) \in Object
BY DEF UpdateSpread, Object

-----------------------------------------------------------------------------
(* What is left of a pass when it has ended.                               *)
LEMMA EndPassType ==
  ASSUME NEW l, EndPass(l)
  PROVE  /\ orig' \in Object /\ cur' \in Object
         /\ pc' = l /\ idx' \in 1..N + 1 /\ acc' \in Acc
BY NewObjectType, ChainAssumption DEF EndPass, NoAcc, Acc

LEMMA IdleType ==
  ASSUME Idle
  PROVE  /\ orig' \in Object /\ cur' \in Object
         /\ pc' = "idle" /\ idx' \in 1..N + 1 /\ acc' \in Acc
BY EndPassType DEF Idle

LEMMA SubAtType ==
  ASSUME TypeOK, NEW k \in Sub
  PROVE  SubAt(k) \in Sub
BY ChainAssumption DEF TypeOK, SubAt, Sub

LEMMA AccumulateType ==
  ASSUME NEW a \in Acc, NEW res
  PROVE  Accumulate(a, res) \in Acc
BY DEF Accumulate, Acc

LEMMA AfterSubroutineType ==
  ASSUME TypeOK, NEW s \in Sub, NEW action, NEW res
  PROVE  AfterSubroutine(s, action, res) \in Object
<1> DEFINE o1 == SetSubroutineCondition(cur, s, res, action \in {"finalize", "terminate"})
           o2 == IF RemovesFinalizer(action, res) THEN [o1 EXCEPT !.fins = @ \ {s}] ELSE o1
           o3 == IF action \in {"process", "initialize"} /\ res # "Error"
                 THEN [o2 EXCEPT !.content = world] ELSE o2
<1>1. o1 \in Object
  BY SetSubroutineConditionType DEF TypeOK
<1> HIDE DEF o1
<1>2. o2 \in Object
  BY <1>1 DEF Object
<1> HIDE DEF o2
<1>3. o3 \in Object
  BY <1>2 DEF Object, TypeOK
<1> HIDE DEF o3
<1> QED
  BY <1>3, SetSkippedConditionsType DEF AfterSubroutine, o1, o2, o3

LEMMA AdvanceType ==
  ASSUME TypeOK, NEW s \in Sub, NEW action, NEW res, idx \in Sub, Advance(s, action, res)
  PROVE  /\ cur' \in Object /\ acc' \in Acc /\ idx' \in 1..N + 1
         /\ UNCHANGED <<api, cache, queued, timer, pc, orig, world, full, want>>
<1>1. cur' \in Object
  BY AfterSubroutineType DEF Advance
<1>2. acc' \in Acc
  BY AccumulateType DEF Advance, TypeOK
<1>3. idx' \in 1..N + 1
  BY ChainAssumption DEF Advance, Sub
<1> QED
  BY <1>1, <1>2, <1>3 DEF Advance

LEMMA AfterChainType ==
  ASSUME TypeOK
  PROVE  AfterChain \in Object
<1> DEFINE o1 == [cur EXCEPT
                    !.init = @ /\ ~(Clean /\ HasInitializer /\ ~cur.deleting),
                    !.term = @ /\ ~(Clean /\ HasTerminator /\ cur.deleting)]
<1>1. o1 \in Object
  BY DEF TypeOK, Object
<1> QED
  BY <1>1, SetReadyConditionType, UpdateSpreadType DEF AfterChain

LEMMA TypeStart ==
  ASSUME TypeOK, ReconcileNotFound \/ ReconcileNotDue \/ ReconcileUnprotected
                   \/ ReconcileStart \/ SkipReconcile
  PROVE  TypeOK'
<1> USE DEF rec, hist
<1>1. CASE ReconcileNotFound
  BY <1>1 DEF TypeOK, ReconcileNotFound, Take
<1>2. CASE ReconcileNotDue
  BY <1>2 DEF TypeOK, ReconcileNotDue, Take
<1>3. CASE ReconcileUnprotected
  BY <1>3 DEF TypeOK, ReconcileUnprotected, Take
<1>4. CASE ReconcileStart
  <2>1. cur' \in Object /\ acc' \in Acc /\ idx' \in 1..N + 1
    BY <1>4, InitUnknownConditionsType, ChainAssumption
       DEF TypeOK, ReconcileStart, NoAcc, Acc
  <2> QED
    BY <1>4, <2>1 DEF TypeOK, ReconcileStart, Take
<1>5. CASE SkipReconcile
  BY <1>5, IdleType DEF TypeOK, SkipReconcile, RequeueDelayPositive
<1> QED
  BY <1>1, <1>2, <1>3, <1>4, <1>5

LEMMA TypeFinalizers ==
  ASSUME TypeOK, addFinalizers \/ addFinalizersFails
  PROVE  TypeOK'
<1> USE DEF rec, hist
<1>1. CASE addFinalizers
  <2> DEFINE to == [cur EXCEPT !.fins = @ \cup Finalizers]
  <2>1. to \in Object
    BY DEF TypeOK, Object
  <2>2. api' \in Object
    BY <1>1, <2>1, PatchMetaType DEF TypeOK, addFinalizers
  <2> QED
    BY <1>1, <2>2, IdleType DEF TypeOK, addFinalizers
<1>2. CASE addFinalizersFails
  BY <1>2, IdleType DEF TypeOK, addFinalizersFails
<1> QED
  BY <1>1, <1>2

LEMMA TypeChain ==
  ASSUME TypeOK,
         \/ SkipSubroutine
         \/ \E res \in ProcessResults, makes \in BOOLEAN : RunForward(res, makes)
         \/ \E res \in Results : RunBackward(res)
         \/ FinishChain
  PROVE  TypeOK'
<1> USE DEF rec, hist
<1>1. CASE SkipSubroutine
  BY <1>1, ChainAssumption DEF TypeOK, SkipSubroutine, Sub
<1>2. ASSUME NEW res \in ProcessResults, NEW makes \in BOOLEAN, RunForward(res, makes)
      PROVE  TypeOK'
  <2>1. idx \in Sub /\ SubAt(idx) \in Sub
    BY <1>2, SubAtType DEF RunForward
  <2>2. Advance(SubAt(idx), resolveAction(SubAt(idx)), res)
    BY <1>2 DEF RunForward
  <2>3. ext' \subseteq Sub /\ inited' \subseteq Sub
    BY <1>2, <2>1 DEF RunForward, TypeOK
  <2> QED
    BY <2>1, <2>2, <2>3, AdvanceType DEF TypeOK
<1>3. ASSUME NEW res \in Results, RunBackward(res)
      PROVE  TypeOK'
  <2>1. idx \in Sub /\ SubAt(idx) \in Sub
    BY <1>3, SubAtType DEF RunBackward
  <2>2. Advance(SubAt(idx), resolveAction(SubAt(idx)), res)
    BY <1>3 DEF RunBackward
  <2>3. ext' \subseteq Sub /\ inited' \subseteq Sub
    BY <1>3, <2>1 DEF RunBackward, TypeOK
  <2> QED
    BY <2>1, <2>2, <2>3, AdvanceType DEF TypeOK
<1>4. CASE FinishChain
  <2>1. cur' \in Object
    BY <1>4, AfterChainType DEF FinishChain
  <2>2. full' \in Nat
    BY <1>4 DEF FinishChain, TypeOK, Object
  <2> QED
    BY <1>4, <2>1, <2>2 DEF FinishChain, TypeOK
<1> QED
  BY <1>1, <1>2, <1>3, <1>4

LEMMA TypePatch ==
  ASSUME TypeOK, PatchObject \/ PatchStatusAndReturn \/ ReturnUnpatched \/ PatchFails
  PROVE  TypeOK'
<1> USE DEF rec, hist
<1>1. ASSUME Return
      PROVE  /\ queued' \in BOOLEAN /\ timer' \in BOOLEAN
             /\ orig' \in Object /\ cur' \in Object
             /\ pc' = "idle" /\ idx' \in 1..N + 1 /\ acc' \in Acc
  BY <1>1, IdleType DEF Return, TypeOK, Acc
<1>2. CASE PatchObject
  <2>1. api' \in Object
    BY <1>2, PatchMetaType DEF PatchObject, TypeOK
  <2>2. cur' \in Object
    BY <1>2, <2>1, DecodeType DEF PatchObject, TypeOK
  <2> QED
    BY <1>2, <2>1, <2>2 DEF PatchObject, TypeOK
<1>3. CASE PatchStatusAndReturn
  <2>1. api' \in Object
    BY <1>3, PatchStatusType DEF PatchStatusAndReturn, TypeOK
  <2> QED
    BY <1>1, <1>3, <2>1 DEF PatchStatusAndReturn, TypeOK
<1>4. CASE ReturnUnpatched
  BY <1>1, <1>4 DEF ReturnUnpatched, TypeOK
<1>5. CASE PatchFails
  BY <1>5, IdleType DEF PatchFails, TypeOK
<1> QED
  BY <1>2, <1>3, <1>4, <1>5

LEMMA TypeEnvironment ==
  ASSUME TypeOK, Environment
  PROVE  TypeOK'
<1> USE DEF rec, hist
<1>1. CASE Sync
  BY <1>1 DEF TypeOK, Sync
<1>2. CASE TimerFires \/ Resync
  BY <1>2 DEF TypeOK, TimerFires, Resync
<1>3. CASE TimePasses
  BY <1>3, LaterType DEF TypeOK, TimePasses
<1>4. CASE UserUpdate
  BY <1>4 DEF TypeOK, UserUpdate, Object
<1>5. CASE UserDelete
  <2>1. [api EXCEPT !.deleting = TRUE] \in Object
    BY DEF TypeOK, Object
  <2> QED
    BY <1>5, <2>1, CollectType DEF TypeOK, UserDelete
<1>6. CASE UserRefresh
  <2>1. api' \in Object
    BY <1>6 DEF TypeOK, UserRefresh, Object
  <2> QED
    BY <1>6, <2>1 DEF TypeOK, UserRefresh
<1>7. CASE WorldChanges
  BY <1>7 DEF TypeOK, WorldChanges
<1>8. ASSUME NEW f \in Foreign, ForeignRelease(f)
      PROVE  TypeOK'
  <2>1. [api EXCEPT !.fins = @ \ {f}] \in Object
    BY DEF TypeOK, Object
  <2> QED
    BY <1>8, <2>1, CollectType DEF TypeOK, ForeignRelease
<1>9. CASE Crash
  BY <1>9, EndPassType DEF TypeOK, Crash
<1>10. CASE Restart
  BY <1>10 DEF TypeOK, Restart
<1> QED
  BY <1>1, <1>2, <1>3, <1>4, <1>5, <1>6, <1>7, <1>8, <1>9, <1>10 DEF Environment

LEMMA TypeStep == TypeOK /\ [Next]_vars => TypeOK'
<1> SUFFICES ASSUME TypeOK, [Next]_vars
             PROVE  TypeOK'
  OBVIOUS
<1>1. CASE UNCHANGED vars
  BY <1>1 DEF TypeOK, vars, rec, hist
<1>2. CASE Reconcile
  BY <1>2, TypeStart, TypeFinalizers, TypeChain, TypePatch DEF Reconcile
<1>3. CASE Environment
  BY <1>3, TypeEnvironment
<1> QED
  BY <1>1, <1>2, <1>3 DEF Next

LEMMA TypeInit == Init => TypeOK
<1> SUFFICES ASSUME Init PROVE TypeOK
  OBVIOUS
<1>1. idx \in 1..N + 1
  BY ChainAssumption DEF Init
<1>2. acc \in Acc
  BY DEF Init, NoAcc, Acc
<1> QED
  BY <1>1, <1>2, NewObjectType DEF Init, TypeOK

(* Every variable keeps its type, whatever the chain, the answers of its   *)
(* subroutines and the interleaving of Reconcile with the environment.     *)
THEOREM TypeCorrect == Spec => []TypeOK
<1> QED
  BY TypeInit, TypeStep, PTL DEF Spec

-----------------------------------------------------------------------------
(* The inductive invariant behind Protected.                               *)

(* What the cache knows of the finalizers: as long as it shows the object  *)
(* undeleted, the finalizers in it are still there; once it shows the      *)
(* object deleted, no finalizer can have come that it does not list.       *)
CacheInv ==
  /\ cache.deleting => api.deleting
  /\ cache.live /\ ~cache.deleting =>
       \A s \in Finalizers : s \in cache.fins => s \in api.fins /\ api.live
  /\ cache.live /\ cache.deleting =>
       \A s \in Finalizers : s \in api.fins => s \in cache.fins

(* What a pass may rely on until it patches: a forward pass, that every    *)
(* finalizer is on the object; a backward pass, that it still holds every  *)
(* finalizer whose resource exists.                                        *)
PassInv ==
  /\ pc = "addFinalizers" => ~cur.deleting
  /\ pc \in {"chain", "patch"} /\ ~cur.deleting =>
       /\ cur.fins = orig.fins
       /\ \A s \in Finalizers : s \in api.fins /\ api.live
  /\ pc \in {"chain", "patch"} /\ cur.deleting =>
       /\ cache.deleting
       /\ \A s \in Finalizers \cap ext : s \in cur.fins

ProtectedInv == TypeOK /\ CacheInv /\ PassInv /\ Protected

(* Two versions that agree on all that the invariant speaks of.            *)
Same(o, p) == p.live = o.live /\ p.deleting = o.deleting /\ p.fins = o.fins

LEMMA CollectFacts ==
  ASSUME NEW o \in Object
  PROVE  /\ Collect(o).fins = o.fins /\ Collect(o).deleting = o.deleting
         /\ Collect(o).live = (o.live /\ ~(o.deleting /\ o.fins = {}))
BY DEF Collect, Object

LEMMA PatchMetaFacts ==
  ASSUME NEW o \in Object, NEW from \in Object, NEW to \in Object
  PROVE  LET p == PatchMeta(o, from, to)
         IN  /\ p.deleting = o.deleting
             /\ to.fins # from.fins => p.fins = to.fins
             /\ to.fins = from.fins => p.fins = o.fins
             /\ p.live = (o.live /\ ~(o.deleting /\ p.fins = {}))
<1> DEFINE q == [o EXCEPT !.fins  = IF to.fins # from.fins THEN to.fins ELSE @,
                          !.label = IF to.label # from.label THEN to.label ELSE @]
<1>1. /\ q \in Object /\ q.deleting = o.deleting /\ q.live = o.live
      /\ q.fins = IF to.fins # from.fins THEN to.fins ELSE o.fins
  BY DEF Object
<1>2. PatchMeta(o, from, to) = Collect(q)
  BY DEF PatchMeta
<1> HIDE DEF q
<1> QED
  BY <1>1, <1>2, CollectFacts

LEMMA PatchStatusSame ==
  ASSUME NEW o \in Object, NEW from \in Object, NEW to \in Object
  PROVE  Same(o, PatchStatus(o, from, to))
BY DEF PatchStatus, Same, Object

LEMMA LaterSame ==
  ASSUME NEW o \in Object
  PROVE  Same(o, Later(o))
BY DEF Later, Same, Object

LEMMA InitUnknownConditionsSame ==
  ASSUME NEW o \in Object
  PROVE  Same(o, InitUnknownConditions(o))
BY DEF InitUnknownConditions, Same, Object

LEMMA AfterChainSame ==
  ASSUME TypeOK
  PROVE  Same(cur, AfterChain)
<1> DEFINE o1 == [cur EXCEPT
                    !.init = @ /\ ~(Clean /\ HasInitializer /\ ~cur.deleting),
                    !.term = @ /\ ~(Clean /\ HasTerminator /\ cur.deleting)]
           o2 == SetReadyCondition(o1)
<1>1. o1 \in Object /\ Same(cur, o1)
  BY DEF TypeOK, Object, Same
<1> HIDE DEF o1
<1>2. o2 \in Object /\ Same(o1, o2)
  BY <1>1, SetReadyConditionType DEF SetReadyCondition, Object, Same
<1> HIDE DEF o2
<1>3. Same(o2, UpdateSpread(o2))
  BY <1>2 DEF UpdateSpread, Object, Same
<1> QED
  BY <1>1, <1>2, <1>3 DEF AfterChain, Same, o1, o2

(* A subroutine changes no finalizer but its own.                          *)
LEMMA AfterSubroutineFacts ==
  ASSUME TypeOK, NEW s \in Sub, NEW action, NEW res
  PROVE  LET p == AfterSubroutine(s, action, res)
         IN  /\ p.live = cur.live /\ p.deleting = cur.deleting
             /\ p.fins = IF RemovesFinalizer(action, res) THEN cur.fins \ {s} ELSE cur.fins
<1> DEFINE o1 == SetSubroutineCondition(cur, s, res, action \in {"finalize", "terminate"})
           o2 == IF RemovesFinalizer(action, res) THEN [o1 EXCEPT !.fins = @ \ {s}] ELSE o1
           o3 == IF action \in {"process", "initialize"} /\ res # "Error"
                 THEN [o2 EXCEPT !.content = world] ELSE o2
           remaining == {SubAt(k) : k \in (idx + 1)..N}
           isReady == (res = "SkipReady")
           o4 == SetSkippedConditions(o3, remaining, isReady)
<1>1. o1 \in Object /\ Same(cur, o1)
  <2>1. o1 \in Object
    BY SetSubroutineConditionType DEF TypeOK
  <2> QED
    BY <2>1 DEF SetSubroutineCondition, TypeOK, Object, Same
<1> HIDE DEF o1
<1>2. /\ o2 \in Object /\ o2.live = cur.live /\ o2.deleting = cur.deleting
      /\ o2.fins = IF RemovesFinalizer(action, res) THEN cur.fins \ {s} ELSE cur.fins
  BY <1>1 DEF Object, Same
<1> HIDE DEF o2
<1>3. o3 \in Object /\ Same(o2, o3)
  BY <1>2 DEF Object, Same, TypeOK
<1> HIDE DEF o3, remaining, isReady
<1>4. Same(o3, o4)
  BY <1>3 DEF SetSkippedConditions, Same, Object
<1> HIDE DEF o4
<1>5. AfterSubroutine(s, action, res) = IF res \in {"SkipReady", "SkipNotReady"} THEN o4 ELSE o3
  BY DEF AfterSubroutine, o1, o2, o3, o4, remaining, isReady
<1> QED
  BY <1>2, <1>3, <1>4, <1>5 DEF Same

(* A pass that ends without touching the stored object.                    *)
LEMMA InvIdle ==
  ASSUME ProtectedInv, pc' = "idle", UNCHANGED <<api, cache, ext>>
  PROVE  CacheInv' /\ PassInv' /\ Protected'
BY DEF ProtectedInv, CacheInv, PassInv, Protected

(* A step of someone else that takes none of the finalizers away.          *)
LEMMA InvGentle ==
  ASSUME ProtectedInv, UNCHANGED <<pc, ext>>,
         Same(cache, cache'), Same(orig, orig'), Same(cur, cur'),
         api.deleting => api'.deleting,
         \A s \in Finalizers : s \in api'.fins <=> s \in api.fins,
         \A s \in Finalizers : s \in api.fins /\ api.live => api'.live
  PROVE  CacheInv' /\ PassInv' /\ Protected'
BY DEF ProtectedInv, CacheInv, PassInv, Protected, Same

LEMMA InvStart ==
  ASSUME ProtectedInv, ReconcileNotFound \/ ReconcileNotDue \/ ReconcileUnprotected
                         \/ ReconcileStart \/ SkipReconcile
  PROVE  CacheInv' /\ PassInv' /\ Protected'
<1>1. CASE ReconcileNotFound
  BY <1>1, InvIdle DEF ReconcileNotFound, Take, rec
<1>2. CASE ReconcileNotDue
  BY <1>2 DEF ReconcileNotDue, ProtectedInv, CacheInv, PassInv, Protected
<1>3. CASE ReconcileUnprotected
  BY <1>3 DEF ReconcileUnprotected, NeedsFinalizers,
              ProtectedInv, CacheInv, PassInv, Protected
<1>4. CASE ReconcileStart
  <2>1. Same(cache, cur')
    BY <1>4, InitUnknownConditionsSame DEF ReconcileStart, ProtectedInv, TypeOK
  <2>2. UNCHANGED <<api, cache, ext>> /\ pc' = "chain" /\ orig' = cache
    BY <1>4 DEF ReconcileStart
  <2>3. CacheInv' /\ Protected'
    BY <2>2 DEF ProtectedInv, CacheInv, Protected
  <2>4. ~cache.deleting => \A s \in Finalizers : s \in cache.fins
    BY <1>4, ReadOnlyAssumption DEF ReconcileStart, NeedsFinalizers, Missing
  <2>5. cache.live
    BY <1>4 DEF ReconcileStart
  <2>6. PassInv'
    BY <2>1, <2>2, <2>4, <2>5 DEF ProtectedInv, CacheInv, Protected, PassInv, Same
  <2> QED
    BY <2>3, <2>6
<1>5. CASE SkipReconcile
  BY <1>5, InvIdle DEF SkipReconcile, Idle, EndPass
<1> QED
  BY <1>1, <1>2, <1>3, <1>4, <1>5

LEMMA InvFinalizers ==
  ASSUME ProtectedInv, addFinalizers \/ addFinalizersFails
  PROVE  CacheInv' /\ PassInv' /\ Protected'
<1>1. CASE addFinalizers
  <2>1. PICK to \in Object : /\ to = [cur EXCEPT !.fins = @ \cup Finalizers]
                             /\ to.fins = cur.fins \cup Finalizers
    <3> DEFINE t == [cur EXCEPT !.fins = @ \cup Finalizers]
    <3>1. t \in Object /\ t.fins = cur.fins \cup Finalizers
      BY DEF ProtectedInv, TypeOK, Object
    <3> QED
      BY <3>1, Zenon
  <2>2. api' = PatchMeta(api, cur, to) /\ ~Refused(api, cur, to) /\ api.live
    BY <1>1, <2>1 DEF addFinalizers
  <2>3. api \in Object /\ cur \in Object
    BY DEF ProtectedInv, TypeOK
  <2>4. /\ api'.deleting = api.deleting
        /\ to.fins # cur.fins => api'.fins = to.fins
        /\ to.fins = cur.fins => api'.fins = api.fins
        /\ api'.live = (api.live /\ ~(api.deleting /\ api'.fins = {}))
    BY <2>2, <2>3, PatchMetaFacts
  <2>5. /\ api'.fins = to.fins \/ (to.fins = cur.fins /\ api'.fins = api.fins)
        /\ ~(api.deleting /\ api'.fins = {}) => api'.live
        /\ api.deleting => api'.fins \subseteq api.fins
    BY <2>2, <2>4 DEF Refused
  <2>6. UNCHANGED <<cache, ext>> /\ pc' = "idle"
    BY <1>1 DEF addFinalizers, Idle, EndPass
  <2>7. CacheInv'
    BY <2>1, <2>4, <2>5, <2>6 DEF ProtectedInv, CacheInv
  <2>8. Protected'
    BY <2>1, <2>4, <2>5, <2>6 DEF ProtectedInv, Protected
  <2>9. PassInv'
    BY <2>6 DEF PassInv
  <2> QED
    BY <2>7, <2>8, <2>9
<1>2. CASE addFinalizersFails
  BY <1>2, InvIdle DEF addFinalizersFails, Idle, EndPass
<1> QED
  BY <1>1, <1>2

LEMMA InvForward ==
  ASSUME ProtectedInv, NEW res, NEW makes, RunForward(res, makes)
  PROVE  CacheInv' /\ PassInv' /\ Protected'
<1> DEFINE s == SubAt(idx)
           action == resolveAction(s)
<1>1. /\ pc = "chain" /\ s \in Sub /\ action \in {"process", "initialize"}
      /\ Advance(s, action, res) /\ ext' \subseteq ext \cup {s}
  BY SubAtType DEF RunForward, ProtectedInv
<1>2. ~cur.deleting
  BY <1>1 DEF resolveAction
<1> HIDE DEF s, action
<1>3. cur' = AfterSubroutine(s, action, res) /\ UNCHANGED <<api, cache, pc, orig>>
  BY <1>1 DEF Advance
<1>4. ~RemovesFinalizer(action, res)
  BY <1>1 DEF RemovesFinalizer
<1>5. cur'.deleting = cur.deleting /\ cur'.fins = cur.fins
  BY <1>1, <1>3, <1>4, AfterSubroutineFacts DEF ProtectedInv
<1> QED
  BY <1>1, <1>2, <1>3, <1>5 DEF ProtectedInv, CacheInv, PassInv, Protected

LEMMA InvBackward ==
  ASSUME ProtectedInv, NEW res, RunBackward(res)
  PROVE  CacheInv' /\ PassInv' /\ Protected'
<1> DEFINE s == SubAt(idx)
           action == resolveAction(s)
<1>1. /\ pc = "chain" /\ s \in Sub /\ action \in {"finalize", "terminate"}
      /\ Advance(s, action, res)
      /\ ext' \subseteq ext /\ (res = "OK" => s \notin ext')
  BY SubAtType DEF RunBackward, ProtectedInv
<1>2. cur.deleting
  BY <1>1 DEF resolveAction
<1> HIDE DEF s, action
<1>3. cur' = AfterSubroutine(s, action, res) /\ UNCHANGED <<api, cache, pc, orig>>
  BY <1>1 DEF Advance
<1>4. RemovesFinalizer(action, res) => res = "OK"
  BY DEF RemovesFinalizer
<1>5. /\ cur'.deleting = cur.deleting
      /\ cur'.fins = IF RemovesFinalizer(action, res) THEN cur.fins \ {s} ELSE cur.fins
  BY <1>1, <1>3, AfterSubroutineFacts DEF ProtectedInv
<1> QED
  BY <1>1, <1>2, <1>3, <1>4, <1>5 DEF ProtectedInv, CacheInv, PassInv, Protected

LEMMA InvFinish ==
  ASSUME ProtectedInv, SkipSubroutine \/ FinishChain
  PROVE  CacheInv' /\ PassInv' /\ Protected'
<1>1. CASE SkipSubroutine
  BY <1>1 DEF SkipSubroutine, ProtectedInv, CacheInv, PassInv, Protected
<1>2. CASE FinishChain
  <2>1. Same(cur, cur')
    BY <1>2, AfterChainSame DEF FinishChain, ProtectedInv
  <2>2. /\ pc = "chain" /\ pc' \in {"patch", "return"}
        /\ UNCHANGED <<api, cache, orig, ext>>
    BY <1>2 DEF FinishChain
  <2> QED
    BY <2>1, <2>2 DEF ProtectedInv, CacheInv, PassInv, Protected, Same
<1> QED
  BY <1>1, <1>2

(* The decisive step: the patch may replace the finalizers as a whole, but *)
(* only a backward pass changes them, and it has kept all that are needed. *)
LEMMA InvPatchObject ==
  ASSUME ProtectedInv, PatchObject
  PROVE  CacheInv' /\ PassInv' /\ Protected'
<1>1. /\ pc = "patch" /\ pc' = "status" /\ api.live /\ ~Refused(api, orig, cur)
      /\ api' = PatchMeta(api, orig, cur) /\ UNCHANGED <<cache, ext>>
  BY DEF PatchObject
<1>2. /\ api'.deleting = api.deleting
      /\ cur.fins # orig.fins => api'.fins = cur.fins
      /\ cur.fins = orig.fins => api'.fins = api.fins
      /\ api'.live = ~(api.deleting /\ api'.fins = {})
      /\ api.deleting => api'.fins \subseteq api.fins
  BY <1>1, PatchMetaFacts DEF ProtectedInv, TypeOK, Refused
<1>3. cur.fins # orig.fins => cur.deleting /\ cache.deleting
  BY <1>1 DEF ProtectedInv, PassInv
<1>4. CacheInv'
  BY <1>1, <1>2, <1>3 DEF ProtectedInv, CacheInv
<1>5. Protected'
  BY <1>1, <1>2, <1>3 DEF ProtectedInv, PassInv, Protected
<1>6. PassInv'
  BY <1>1 DEF PassInv
<1> QED
  BY <1>4, <1>5, <1>6

LEMMA InvReturn ==
  ASSUME ProtectedInv, PatchStatusAndReturn \/ ReturnUnpatched \/ PatchFails
  PROVE  CacheInv' /\ PassInv' /\ Protected'
<1>1. CASE PatchStatusAndReturn
  <2>1. Same(api, api')
    BY <1>1, PatchStatusSame DEF PatchStatusAndReturn, ProtectedInv, TypeOK
  <2>2. UNCHANGED <<cache, ext>> /\ pc' = "idle"
    BY <1>1 DEF PatchStatusAndReturn, Return, Idle, EndPass
  <2> QED
    BY <2>1, <2>2 DEF ProtectedInv, CacheInv, PassInv, Protected, Same
<1>2. CASE ReturnUnpatched
  BY <1>2, InvIdle DEF ReturnUnpatched, Return, Idle, EndPass
<1>3. CASE PatchFails
  BY <1>3, InvIdle DEF PatchFails, Idle, EndPass
<1> QED
  BY <1>1, <1>2, <1>3

LEMMA InvEnvironment ==
  ASSUME ProtectedInv, Environment
  PROVE  CacheInv' /\ PassInv' /\ Protected'
<1> USE DEF rec, Same
<1>1. CASE Sync
  <2>1. UNCHANGED <<api, pc, orig, cur, ext>> /\ cache' = api
    BY <1>1 DEF Sync
  <2> QED
    BY <2>1 DEF ProtectedInv, CacheInv, PassInv, Protected
<1>2. CASE TimerFires \/ Resync \/ WorldChanges
  BY <1>2, InvGentle DEF TimerFires, Resync, WorldChanges
<1>3. CASE TimePasses
  BY <1>3, InvGentle, LaterSame DEF TimePasses, ProtectedInv, TypeOK
<1>4. CASE UserUpdate \/ UserRefresh
  <2>1. Same(api, api') /\ UNCHANGED <<cache, rec, ext>>
    BY <1>4 DEF UserUpdate, UserRefresh, ProtectedInv, TypeOK, Object
  <2> QED
    BY <2>1, InvGentle
<1>5. CASE UserDelete
  <2> DEFINE o == [api EXCEPT !.deleting = TRUE]
  <2>1. o \in Object /\ o.fins = api.fins /\ o.deleting /\ o.live = api.live
    BY DEF ProtectedInv, TypeOK, Object
  <2>2. api' = Collect(o) /\ UNCHANGED <<cache, rec, ext>>
    BY <1>5 DEF UserDelete
  <2> HIDE DEF o
  <2>3. api'.fins = api.fins /\ api'.deleting /\ api'.live = (api.live /\ api.fins # {})
    BY <2>1, <2>2, CollectFacts
  <2> QED
    BY <2>2, <2>3, InvGentle
<1>6. ASSUME NEW f \in Foreign, ForeignRelease(f)
      PROVE  CacheInv' /\ PassInv' /\ Protected'
  <2> DEFINE o == [api EXCEPT !.fins = @ \ {f}]
  <2>1. /\ o \in Object /\ o.fins = api.fins \ {f}
        /\ o.deleting = api.deleting /\ o.live = api.live
    BY DEF ProtectedInv, TypeOK, Object
  <2>2. api' = Collect(o) /\ UNCHANGED <<cache, rec, ext>>
    BY <1>6 DEF ForeignRelease
  <2> HIDE DEF o
  <2>3. /\ api'.fins = api.fins \ {f} /\ api'.deleting = api.deleting
        /\ api'.live = (api.live /\ ~(api.deleting /\ api'.fins = {}))
    BY <2>1, <2>2, CollectFacts
  <2>4. \A s \in Finalizers : s # f
    BY ChainAssumption
  <2>5. \A s \in Finalizers : s \in api'.fins <=> s \in api.fins
    BY <2>3, <2>4
  <2> QED
    BY <2>2, <2>3, <2>5, InvGentle
<1>7. CASE Crash \/ Restart
  <2>1. UNCHANGED <<api, ext>> /\ cache' = api /\ pc' \in {"idle", "down"}
    BY <1>7 DEF Crash, Restart, EndPass
  <2> QED
    BY <2>1 DEF ProtectedInv, CacheInv, PassInv, Protected
<1> QED
  BY <1>1, <1>2, <1>3, <1>4, <1>5, <1>6, <1>7 DEF Environment

LEMMA InvStep == ProtectedInv /\ [Next]_vars => ProtectedInv'
<1> SUFFICES ASSUME ProtectedInv, [Next]_vars
             PROVE  ProtectedInv'
  OBVIOUS
<1>1. TypeOK'
  BY TypeStep DEF ProtectedInv
<1>2. CASE UNCHANGED vars
  <2>1. UNCHANGED <<api, cache, pc, orig, cur, ext>>
    BY <1>2 DEF vars, rec
  <2> QED
    BY <1>1, <2>1 DEF ProtectedInv, CacheInv, PassInv, Protected
<1>3. CASE Reconcile
  BY <1>1, <1>3, InvStart, InvFinalizers, InvForward, InvBackward, InvFinish,
     InvPatchObject, InvReturn DEF Reconcile, ProtectedInv
<1>4. CASE Environment
  BY <1>1, <1>4, InvEnvironment DEF ProtectedInv
<1> QED
  BY <1>2, <1>3, <1>4 DEF Next

LEMMA InvInit == Init => ProtectedInv
<1> SUFFICES ASSUME Init PROVE ProtectedInv
  OBVIOUS
<1>1. TypeOK
  BY TypeInit
<1>2. CacheInv /\ PassInv /\ Protected
  BY DEF Init, CacheInv, PassInv, Protected, NewObject
<1> QED
  BY <1>1, <1>2 DEF ProtectedInv

(* The external resource of a Finalizer never outlives its finalizer, nor  *)
(* the object: for every chain, every answer of its subroutines, stale     *)
(* caches, refused and failed patches, concurrent deletion and crashes.    *)
THEOREM ResourcesProtected == Spec => []Protected
<1>1. ProtectedInv => Protected
  BY DEF ProtectedInv
<1> QED
  BY <1>1, InvInit, InvStep, PTL DEF Spec

-----------------------------------------------------------------------------
(* The order of the teardown.  A subroutine whose resource must go before  *)
(* another's ends the pass, or is done.                                    *)
MustFinish(t) == t \in Finalizers /\ \E s \in Finalizers : s < t

EndsUntilDone ==
  \A t \in Sub : MustFinish(t) => FinalizeResults[t] \cap {"Pending", "Requeue"} = {}

(* A backward chain that goes on has removed every such resource behind it. *)
OrderInv ==
  pc = "chain" /\ cur.deleting /\ idx \in Sub =>
    \A t \in Sub : MustFinish(t) /\ t > N + 1 - idx => t \notin ext

LEMMA OrderBackward ==
  ASSUME ProtectedInv, OrderInv, EndsUntilDone, NEW res \in Results, RunBackward(res)
  PROVE  /\ OrderInv'
         /\ \A s, t \in Finalizers : s < t /\ s \in ext /\ s \notin ext' => t \notin ext
<1> DEFINE u == SubAt(idx)
           action == resolveAction(u)
<1>1. /\ pc = "chain" /\ idx \in Sub /\ u \in Sub /\ Advance(u, action, res)
      /\ action \in {"finalize", "terminate"} /\ res \in FinalizeResults[u]
      /\ ext' = IF res \in {"OK", "Skip"} THEN ext \ {u} ELSE ext
  BY SubAtType DEF RunBackward, ProtectedInv
<1>2. cur.deleting /\ u = N + 1 - idx
  BY <1>1 DEF resolveAction, SubAt
<1> HIDE DEF u, action
<1>3. pc' = "chain" /\ idx' = IF EndsChain(res) THEN N + 1 ELSE idx + 1
  BY <1>1 DEF Advance
<1>4. MustFinish(u) => EndsChain(res) \/ u \notin ext'
  <2>1. MustFinish(u) => res \notin {"Pending", "Requeue"}
    BY <1>1 DEF EndsUntilDone
  <2>2. EndsChain(res) \/ res \in {"OK", "Skip", "Pending", "Requeue"}
    BY DEF EndsChain, Results
  <2> QED
    BY <1>1, <2>1, <2>2
<1>5. OrderInv'
  <2> SUFFICES ASSUME idx' \in Sub, NEW t \in Sub, MustFinish(t), t > N + 1 - idx'
               PROVE  t \notin ext'
    BY DEF OrderInv
  <2>1. ~EndsChain(res) /\ idx' = idx + 1
    BY <1>3, ChainAssumption DEF Sub
  <2>2. t > N + 1 - idx \/ t = u
    BY <1>1, <1>2, <2>1, ChainAssumption DEF Sub
  <2> QED
    BY <1>1, <1>2, <1>4, <2>1, <2>2 DEF OrderInv
<1>6. ASSUME NEW s \in Finalizers, NEW t \in Finalizers, s < t, s \in ext, s \notin ext'
      PROVE  t \notin ext
  <2>1. s = u
    BY <1>1, <1>6
  <2>2. t \in Sub /\ MustFinish(t) /\ t > N + 1 - idx
    BY <1>2, <1>6, <2>1, ChainAssumption DEF MustFinish
  <2> QED
    BY <1>1, <1>2, <2>2 DEF OrderInv
<1> QED
  BY <1>5, <1>6

(* A subroutine the chain passes over has lost its finalizer, and with it  *)
(* its resource.                                                           *)
LEMMA OrderSkip ==
  ASSUME ProtectedInv, OrderInv, SkipSubroutine
  PROVE  OrderInv'
<1>1. /\ pc = "chain" /\ idx \in Sub /\ idx' = idx + 1
      /\ resolveAction(SubAt(idx)) = "none" /\ UNCHANGED <<pc, cur, ext>>
  BY DEF SkipSubroutine
<1> SUFFICES ASSUME cur.deleting, NEW t \in Sub, MustFinish(t), t > N + 1 - idx'
             PROVE  t \notin ext
  BY <1>1 DEF OrderInv
<1>2. t > N + 1 - idx \/ t = N + 1 - idx
  BY <1>1, ChainAssumption DEF Sub
<1>3. CASE t = N + 1 - idx
  <2>1. t \in Finalizers /\ t \notin cur.fins
    BY <1>1, <1>3 DEF resolveAction, SubAt, MustFinish
  <2> QED
    BY <1>1, <2>1 DEF ProtectedInv, PassInv
<1> QED
  BY <1>1, <1>2, <1>3 DEF OrderInv

LEMMA OrderStep ==
  ASSUME ProtectedInv, OrderInv, EndsUntilDone, [Next]_vars
  PROVE  /\ OrderInv'
         /\ \A s, t \in Finalizers : s < t /\ s \in ext /\ s \notin ext' => t \notin ext
<1> DEFINE Kept == \A s, t \in Finalizers : s < t /\ s \in ext /\ s \notin ext' => t \notin ext
<1> USE DEF rec
<1>1. CASE ReconcileStart
  <2>1. idx' = 1 /\ ext' = ext
    BY <1>1 DEF ReconcileStart
  <2> QED
    BY <2>1, ChainAssumption DEF OrderInv, Sub
<1>2. CASE SkipSubroutine
  BY <1>2, OrderSkip DEF SkipSubroutine
<1>3. ASSUME NEW res \in ProcessResults, NEW makes \in BOOLEAN, RunForward(res, makes)
      PROVE  OrderInv' /\ Kept
  <2>1. /\ SubAt(idx) \in Sub /\ ~cur.deleting /\ ext \subseteq ext'
        /\ cur' = AfterSubroutine(SubAt(idx), resolveAction(SubAt(idx)), res)
    BY <1>3, SubAtType DEF RunForward, resolveAction, Advance, ProtectedInv
  <2>2. ~cur'.deleting
    BY <2>1, AfterSubroutineFacts DEF ProtectedInv
  <2> QED
    BY <2>1, <2>2 DEF OrderInv
<1>4. CASE \E res \in Results : RunBackward(res)
  BY <1>4, OrderBackward
<1>5. CASE TimePasses
  <2>1. cur'.deleting = cur.deleting /\ UNCHANGED <<pc, idx, ext>>
    BY <1>5, LaterSame DEF TimePasses, Same, ProtectedInv, TypeOK
  <2> QED
    BY <2>1 DEF OrderInv
<1>6. CASE \/ ReconcileNotFound \/ Sync \/ TimerFires \/ Resync \/ UserUpdate \/ UserDelete
           \/ UserRefresh \/ WorldChanges \/ (\E f \in Foreign : ForeignRelease(f))
           \/ UNCHANGED vars
  <2>1. UNCHANGED <<rec, ext>>
    BY <1>6 DEF ReconcileNotFound, Sync, TimerFires, Resync, UserUpdate, UserDelete,
                UserRefresh, WorldChanges, ForeignRelease, vars
  <2> QED
    BY <2>1 DEF OrderInv
<1>7. CASE \/ ReconcileNotDue \/ ReconcileUnprotected \/ SkipReconcile \/ addFinalizers
           \/ addFinalizersFails \/ FinishChain \/ PatchObject \/ PatchStatusAndReturn
           \/ ReturnUnpatched \/ PatchFails \/ Crash \/ Restart
  <2>1. pc' # "chain" /\ ext' = ext
    BY <1>7 DEF ReconcileNotDue, ReconcileUnprotected, SkipReconcile, addFinalizers,
                addFinalizersFails, FinishChain, PatchObject, PatchStatusAndReturn,
                ReturnUnpatched, PatchFails, Crash, Restart, Return, Idle, EndPass
  <2> QED
    BY <2>1 DEF OrderInv
<1> QED
  BY <1>1, <1>2, <1>3, <1>4, <1>5, <1>6, <1>7 DEF Next, Reconcile, Environment

(* Teardown is ordered, over any number of passes, crashes and stale       *)
(* versions, when every Finalize with another one to come after it ends    *)
(* the pass until it is done: the loop of Reconcile goes on after Pending  *)
(* and after a requeue, so an answer of that kind would break the order.   *)
THEOREM TeardownInOrder ==
  ASSUME EndsUntilDone
  PROVE  Spec => OrderedTeardown
<1>1. Init => OrderInv
  BY DEF Init, OrderInv
<1>2. ProtectedInv /\ OrderInv /\ [Next]_vars => OrderInv'
  BY OrderStep
<1>3. ProtectedInv /\ OrderInv /\ [Next]_vars =>
        [\A s, t \in Finalizers : s < t /\ s \in ext /\ s \notin ext' => t \notin ext]_vars
  BY OrderStep
<1> QED
  BY <1>1, <1>2, <1>3, InvInit, InvStep, PTL DEF Spec, OrderedTeardown
==============================================================================
