----------------------------- MODULE StatusProofs -----------------------------
(***************************************************************************)
(* Proofs about the status the engine writes: the observed generation, the *)
(* copied content and the conditions, and the markers kcp puts there.  A   *)
(* pass computes it from a version of the object that may be stale,        *)
(* decodes the server's answer over it half way, and sends what differs    *)
(* from the version it read.                                               *)
(***************************************************************************)
EXTENDS LifecycleProofs

InPass == pc \in {"chain", "patch", "status"}

-----------------------------------------------------------------------------
(* What the operators do to the generation, the observed generation and    *)
(* the content.                                                            *)

SameVersions(o, p) == p.gen = o.gen /\ p.observed = o.observed /\ p.content = o.content

LEMMA CollectVersions ==
  ASSUME NEW o \in Object
  PROVE  SameVersions(o, Collect(o))
BY DEF Collect, SameVersions, Object

LEMMA PatchMetaVersions ==
  ASSUME NEW o \in Object, NEW from \in Object, NEW to \in Object
  PROVE  SameVersions(o, PatchMeta(o, from, to))
<1> DEFINE q == [o EXCEPT !.fins  = IF to.fins # from.fins THEN to.fins ELSE @,
                          !.label = IF to.label # from.label THEN to.label ELSE @]
<1>1. q \in Object /\ SameVersions(o, q)
  BY DEF Object, SameVersions
<1>2. PatchMeta(o, from, to) = Collect(q)
  BY DEF PatchMeta
<1> HIDE DEF q
<1> QED
  BY <1>1, <1>2, CollectVersions DEF SameVersions

LEMMA PatchStatusVersions ==
  ASSUME NEW o \in Object, NEW from \in Object, NEW to \in Object
  PROVE  LET p == PatchStatus(o, from, to)
         IN  /\ p.gen = o.gen
             /\ p.observed = IF to.observed # from.observed THEN to.observed ELSE o.observed
             /\ p.content = IF to.content # from.content THEN to.content ELSE o.content
BY DEF PatchStatus, Object

LEMMA DecodeVersions ==
  ASSUME NEW o \in Object, NEW answer \in Object
  PROVE  LET p == Decode(o, answer)
         IN  /\ p.observed = IF answer.observed # 0 THEN answer.observed ELSE o.observed
             /\ p.content = IF answer.content # 0 THEN answer.content ELSE o.content
BY DEF Decode, Object

LEMMA LaterVersions ==
  ASSUME NEW o \in Object
  PROVE  SameVersions(o, Later(o))
BY DEF Later, SameVersions, Object

LEMMA InitUnknownConditionsVersions ==
  ASSUME NEW o \in Object
  PROVE  SameVersions(o, InitUnknownConditions(o))
BY DEF InitUnknownConditions, SameVersions, Object

(* The steps of AfterSubroutine one by one: the condition of the           *)
(* subroutine, its finalizer, the content, and the subroutines skipped.    *)
LEMMA AfterSubroutineStatus ==
  ASSUME TypeOK, NEW s \in Sub, NEW action, NEW res
  PROVE  LET p == AfterSubroutine(s, action, res)
             skips == res \in {"SkipReady", "SkipNotReady"}
             remaining == {SubAt(k) : k \in (idx + 1)..N}
             forward == action \notin {"finalize", "terminate"}
         IN  /\ p.gen = cur.gen /\ p.observed = cur.observed /\ p.ready = cur.ready
             /\ p.content = IF action \in {"process", "initialize"} /\ res # "Error"
                            THEN world ELSE cur.content
             /\ ~HasConditions => p.cond = cur.cond
             /\ HasConditions /\ forward =>
                  \A t \in Sub :
                    p.cond[t] = IF skips /\ t \in remaining
                                THEN IF res = "SkipReady" THEN "True" ELSE "False"
                                ELSE IF t = s THEN ConditionOf(res) ELSE cur.cond[t]
<1> DEFINE isFinalize == action \in {"finalize", "terminate"}
           o1 == SetSubroutineCondition(cur, s, res, isFinalize)
           o2 == IF RemovesFinalizer(action, res) THEN [o1 EXCEPT !.fins = @ \ {s}] ELSE o1
           o3 == IF action \in {"process", "initialize"} /\ res # "Error"
                 THEN [o2 EXCEPT !.content = world] ELSE o2
           remaining == {SubAt(k) : k \in (idx + 1)..N}
           isReady == (res = "SkipReady")
           o4 == SetSkippedConditions(o3, remaining, isReady)
           skips == res \in {"SkipReady", "SkipNotReady"}
<1> HIDE DEF isFinalize
<1>1. /\ o1 \in Object /\ SameVersions(cur, o1) /\ o1.ready = cur.ready
      /\ ~HasConditions => o1.cond = cur.cond
      /\ HasConditions /\ ~isFinalize =>
           \A t \in Sub : o1.cond[t] = IF t = s THEN ConditionOf(res) ELSE cur.cond[t]
  <2>1. o1 \in Object
    BY SetSubroutineConditionType DEF TypeOK
  <2>2. SameVersions(cur, o1) /\ o1.ready = cur.ready /\ (~HasConditions => o1.cond = cur.cond)
    BY DEF SetSubroutineCondition, TypeOK, Object, SameVersions
  <2>3. ASSUME HasConditions, ~isFinalize
        PROVE  \A t \in Sub : o1.cond[t] = IF t = s THEN ConditionOf(res) ELSE cur.cond[t]
    <3>1. o1.cond = [cur.cond EXCEPT ![s] = ConditionOf(res)]
      BY <2>3 DEF SetSubroutineCondition, TypeOK, Object
    <3>2. cur.cond \in [Sub -> CondStatus]
      BY DEF TypeOK, Object
    <3> QED
      BY <3>1, <3>2
  <2> QED
    BY <2>1, <2>2, <2>3
<1> HIDE DEF o1
<1>2. o2 \in Object /\ SameVersions(o1, o2) /\ o2.ready = o1.ready /\ o2.cond = o1.cond
  BY <1>1 DEF Object, SameVersions
<1> HIDE DEF o2
<1>3. /\ o3 \in Object /\ o3.gen = o2.gen /\ o3.observed = o2.observed
      /\ o3.ready = o2.ready /\ o3.cond = o2.cond
      /\ o3.content = IF action \in {"process", "initialize"} /\ res # "Error"
                      THEN world ELSE o2.content
  BY <1>2 DEF Object, TypeOK
<1> HIDE DEF o3, remaining, isReady
<1>4. /\ SameVersions(o3, o4) /\ o4.ready = o3.ready
      /\ ~HasConditions => o4.cond = o3.cond
      /\ HasConditions =>
           \A t \in Sub : o4.cond[t] = IF t \in remaining
                                       THEN IF isReady THEN "True" ELSE "False"
                                       ELSE o3.cond[t]
  BY <1>3 DEF SetSkippedConditions, SameVersions, Object
<1> HIDE DEF o4
<1>5. AfterSubroutine(s, action, res) = IF skips THEN o4 ELSE o3
  BY DEF AfterSubroutine, o1, o2, o3, o4, remaining, isReady, isFinalize
<1>6. isFinalize <=> action \in {"finalize", "terminate"}
  BY DEF isFinalize
<1>7. CASE skips
  BY <1>1, <1>2, <1>3, <1>4, <1>5, <1>6, <1>7 DEF SameVersions, isReady, remaining
<1>8. CASE ~skips
  BY <1>1, <1>2, <1>3, <1>5, <1>6, <1>8 DEF SameVersions
<1> QED
  BY <1>7, <1>8

LEMMA AfterChainStatus ==
  ASSUME TypeOK
  PROVE  LET p == AfterChain
         IN  /\ p.gen = cur.gen /\ p.content = cur.content /\ p.cond = cur.cond
             /\ p.ready = IF ~HasConditions THEN cur.ready
                          ELSE IF acc.err \/ acc.stopped \/ acc.skip = "notready" THEN "False"
                          ELSE IF acc.pending THEN "Unknown" ELSE "True"
             /\ p.observed = IF /\ HasSpread /\ ~cur.deleting
                                /\ ~acc.err /\ ~acc.stopped /\ ~acc.requeue
                             THEN cur.gen ELSE cur.observed
<1> DEFINE o1 == [cur EXCEPT
                    !.init = @ /\ ~(Clean /\ HasInitializer /\ ~cur.deleting),
                    !.term = @ /\ ~(Clean /\ HasTerminator /\ cur.deleting)]
           o2 == SetReadyCondition(o1)
           o3 == UpdateSpread(o2)
<1>1. /\ o1 \in Object /\ SameVersions(cur, o1) /\ o1.deleting = cur.deleting
      /\ o1.cond = cur.cond /\ o1.ready = cur.ready
  BY DEF TypeOK, Object, SameVersions
<1> HIDE DEF o1
<1>2. /\ o2 \in Object /\ SameVersions(o1, o2) /\ o2.deleting = o1.deleting
      /\ o2.cond = o1.cond
      /\ o2.ready = IF ~HasConditions THEN o1.ready
                    ELSE IF acc.err \/ acc.stopped \/ acc.skip = "notready" THEN "False"
                    ELSE IF acc.pending THEN "Unknown" ELSE "True"
  BY <1>1, SetReadyConditionType DEF SetReadyCondition, Object, SameVersions
<1> HIDE DEF o2
<1>3. /\ o3.gen = o2.gen /\ o3.content = o2.content /\ o3.cond = o2.cond
      /\ o3.ready = o2.ready
      /\ o3.observed = IF /\ HasSpread /\ ~o2.deleting
                          /\ ~acc.err /\ ~acc.stopped /\ ~acc.requeue
                       THEN o2.gen ELSE o2.observed
  BY <1>2 DEF UpdateSpread, Object
<1> QED
  BY <1>1, <1>2, <1>3 DEF AfterChain, SameVersions, o1, o2

-----------------------------------------------------------------------------
(* The inductive invariant.                                                *)

(* The stored object never runs ahead of what the cache has seen of its    *)
(* generation, nor of the outside content; and what a pass has changed in  *)
(* memory is at least as new as what the server stores.                    *)
VersionsInv ==
  /\ cache.gen <= api.gen /\ api.observed <= cache.gen /\ api.content <= world
  /\ pc \in {"chain", "patch"} => api.observed <= cur.gen /\ cur.gen <= cache.gen
  /\ pc = "chain" => cur.observed = orig.observed
  /\ InPass /\ cur.observed # orig.observed =>
       api.observed <= cur.observed /\ cur.observed <= cache.gen
  /\ InPass /\ cur.content # orig.content =>
       api.content <= cur.content /\ cur.content <= world

(* No subroutine answers that the rest of the chain is to be skipped.      *)
NoSkips == ProcessResults \cap {"SkipReady", "SkipNotReady"} = {}

(* No copy of the object names a generation that no chain has completed.   *)
ProcessedInv ==
  /\ api.observed <= full /\ cache.observed <= full
  /\ InPass => orig.observed <= full /\ cur.observed <= full
  /\ pc = "chain" /\ ~cur.deleting => acc.skip = "no" /\ (acc.pending => acc.requeue)

Truthful(o) ==
  o.ready = "True" /\ ~o.deleting => \A s \in Processors : o.cond[s] = "True"

GoodSoFar == ~acc.err /\ ~acc.stopped /\ acc.skip # "notready" /\ ~acc.pending

(* The processors behind a forward chain that is good so far are True; a   *)
(* backward pass exists only once the server knows of the deletion.        *)
ReadyInv ==
  /\ Truthful(api)
  /\ InPass /\ cur.deleting => api.deleting
  /\ pc \in {"patch", "status"} => Truthful(cur)
  /\ ~HasConditions =>
       api.ready = "none" /\ cache.ready = "none" /\ (InPass => cur.ready = "none")
  /\ pc = "chain" /\ HasConditions /\ ~cur.deleting /\ GoodSoFar =>
       \A s \in Processors : s < idx => cur.cond[s] = "True"
  /\ pc = "chain" /\ idx \in Sub => acc.skip = "no"

StatusFacts == VersionsInv /\ (NoSkips => ProcessedInv) /\ ReadyInv

StatusInv == ProtectedInv /\ StatusFacts

(* Versions that agree on all that the invariant speaks of.                *)
SameStatus(o, p) ==
  SameVersions(o, p) /\ p.deleting = o.deleting /\ p.ready = o.ready /\ p.cond = o.cond

LEMMA LaterStatus ==
  ASSUME NEW o \in Object
  PROVE  SameStatus(o, Later(o))
BY DEF Later, SameStatus, SameVersions, Object

LEMMA PatchMetaStatus ==
  ASSUME NEW o \in Object, NEW from \in Object, NEW to \in Object
  PROVE  SameStatus(o, PatchMeta(o, from, to))
<1> DEFINE q == [o EXCEPT !.fins  = IF to.fins # from.fins THEN to.fins ELSE @,
                          !.label = IF to.label # from.label THEN to.label ELSE @]
<1>1. q \in Object /\ SameStatus(o, q)
  BY DEF Object, SameStatus, SameVersions
<1>2. SameStatus(q, Collect(q))
  BY <1>1 DEF Collect, SameStatus, SameVersions, Object
<1>3. PatchMeta(o, from, to) = Collect(q)
  BY DEF PatchMeta
<1> HIDE DEF q
<1> QED
  BY <1>1, <1>2, <1>3 DEF SameStatus, SameVersions

(* A pass that ends, or has not begun, and leaves the stored status alone. *)
LEMMA StatusIdle ==
  ASSUME StatusInv, ~InPass', SameStatus(api, api'), UNCHANGED <<cache, world, full>>
  PROVE  StatusFacts'
BY DEF StatusInv, StatusFacts, VersionsInv, ProcessedInv, ReadyInv, Truthful,
       SameStatus, SameVersions, InPass

(* A step of someone else: the generation may grow, a deletion may come    *)
(* and the world may change.                                               *)
LEMMA StatusGentle ==
  ASSUME StatusInv, UNCHANGED <<pc, idx, acc, full>>,
         SameStatus(cache, cache'), SameStatus(orig, orig'), SameStatus(cur, cur'),
         api'.gen \in Nat, api'.gen >= api.gen, api'.observed = api.observed,
         api'.content = api.content, api'.ready = api.ready, api'.cond = api.cond,
         api.deleting => api'.deleting,
         world' \in Nat, world' >= world
  PROVE  StatusFacts'
<1>1. TypeOK
  BY DEF StatusInv, ProtectedInv
<1>2. VersionsInv'
  BY <1>1 DEF StatusInv, StatusFacts, VersionsInv, TypeOK, Object,
              SameStatus, SameVersions, InPass
<1>3. NoSkips => ProcessedInv'
  BY DEF StatusInv, StatusFacts, ProcessedInv, SameStatus, SameVersions, InPass
<1>4. ReadyInv'
  BY DEF StatusInv, StatusFacts, ReadyInv, Truthful, GoodSoFar,
         SameStatus, SameVersions, InPass
<1> QED
  BY <1>2, <1>3, <1>4 DEF StatusFacts

LEMMA StatusStart ==
  ASSUME StatusInv, ReconcileStart
  PROVE  StatusFacts'
<1>1. /\ pc' = "chain" /\ idx' = 1 /\ orig' = cache /\ acc' = NoAcc
      /\ cur' = InitUnknownConditions(cache)
      /\ UNCHANGED <<api, cache, world, full>>
  BY DEF ReconcileStart
<1>2. api \in Object /\ cache \in Object
  BY DEF StatusInv, ProtectedInv, TypeOK
<1>3. /\ SameVersions(cache, cur') /\ cur'.deleting = cache.deleting
      /\ ~HasConditions => cur'.ready = cache.ready
  BY <1>1, <1>2 DEF InitUnknownConditions, SameVersions, Object
<1>4. cache.deleting => api.deleting
  BY DEF StatusInv, ProtectedInv, CacheInv
<1>5. VersionsInv'
  BY <1>1, <1>2, <1>3 DEF StatusInv, StatusFacts, VersionsInv, SameVersions, Object
<1>6. NoSkips => ProcessedInv'
  BY <1>1, <1>3 DEF StatusInv, StatusFacts, ProcessedInv, SameVersions, NoAcc
<1>7. \A s \in Processors : ~(s < 1)
  BY ChainAssumption DEF Sub
<1>8. ReadyInv'
  BY <1>1, <1>3, <1>4, <1>7 DEF StatusInv, StatusFacts, ReadyInv, Truthful, NoAcc
<1> QED
  BY <1>5, <1>6, <1>8 DEF StatusFacts

LEMMA StatusSkip ==
  ASSUME StatusInv, SkipSubroutine
  PROVE  StatusFacts'
<1>1. /\ pc = "chain" /\ idx \in Sub /\ idx' = idx + 1
      /\ resolveAction(SubAt(idx)) = "none"
      /\ UNCHANGED <<api, cache, pc, orig, cur, acc, world, full>>
  BY DEF SkipSubroutine, hist
<1>2. ~cur.deleting => idx \notin Processors
  BY <1>1 DEF resolveAction, SubAt
<1>3. \A s \in Processors : s < idx' => s < idx \/ s = idx
  BY <1>1, ChainAssumption DEF Sub
<1>4. VersionsInv' /\ (NoSkips => ProcessedInv')
  BY <1>1 DEF StatusInv, StatusFacts, VersionsInv, ProcessedInv, InPass
<1>5. ReadyInv'
  BY <1>1, <1>2, <1>3 DEF StatusInv, StatusFacts, ReadyInv, Truthful, GoodSoFar, InPass
<1> QED
  BY <1>4, <1>5 DEF StatusFacts

(* What every answer of a subroutine leaves alone.                         *)
LEMMA AdvanceStatus ==
  ASSUME StatusInv, NEW s \in Sub, NEW action, NEW res, pc = "chain", Advance(s, action, res)
  PROVE  /\ VersionsInv'
         /\ cur'.ready = cur.ready /\ cur'.deleting = cur.deleting
         /\ cur'.observed = cur.observed
         /\ UNCHANGED <<api, cache, pc, orig, world, full>>
<1>1. /\ cur' = AfterSubroutine(s, action, res)
      /\ UNCHANGED <<api, cache, pc, orig, world, full>>
  BY DEF Advance
<1>2. TypeOK
  BY DEF StatusInv, ProtectedInv
<1>3. /\ cur'.gen = cur.gen /\ cur'.observed = cur.observed /\ cur'.ready = cur.ready
      /\ cur'.content \in {cur.content, world}
  BY <1>1, <1>2, AfterSubroutineStatus
<1>4. cur'.deleting = cur.deleting
  BY <1>1, <1>2, AfterSubroutineFacts
<1>5. VersionsInv'
  BY <1>1, <1>2, <1>3 DEF StatusInv, StatusFacts, VersionsInv, InPass, TypeOK, Object
<1> QED
  BY <1>1, <1>3, <1>4, <1>5

LEMMA StatusForward ==
  ASSUME StatusInv, NEW res \in ProcessResults, NEW makes, RunForward(res, makes)
  PROVE  StatusFacts'
<1> DEFINE s == SubAt(idx)
           action == resolveAction(s)
<1>1. /\ pc = "chain" /\ idx \in Sub /\ s \in Sub /\ Advance(s, action, res)
      /\ action \in {"process", "initialize"}
  BY SubAtType DEF RunForward, StatusInv, ProtectedInv
<1>2. ~cur.deleting /\ s = idx
  BY <1>1 DEF resolveAction, SubAt
<1>3. {SubAt(k) : k \in (idx + 1)..N} = (idx + 1)..N
  BY <1>2 DEF SubAt
<1> HIDE DEF s, action
<1>4. /\ cur' = AfterSubroutine(s, action, res) /\ acc' = Accumulate(acc, res)
      /\ idx' = IF EndsChain(res) THEN N + 1 ELSE idx + 1
  BY <1>1 DEF Advance
<1>5. /\ VersionsInv'
      /\ cur'.ready = cur.ready /\ cur'.deleting = cur.deleting /\ cur'.observed = cur.observed
      /\ UNCHANGED <<api, cache, pc, orig, world, full>>
  BY <1>1, AdvanceStatus
<1>6. res \in Results /\ TypeOK
  BY ConfigAssumption DEF StatusInv, ProtectedInv
<1>7. NoSkips => ProcessedInv'
  <2> SUFFICES ASSUME NoSkips PROVE ProcessedInv'
    OBVIOUS
  <2>1. res \notin {"SkipReady", "SkipNotReady"}
    BY DEF NoSkips
  <2>2. /\ acc'.skip = acc.skip
        /\ acc'.pending = (acc.pending \/ res = "Pending")
        /\ acc'.requeue = (acc.requeue \/ res \in {"Requeue", "Pending", "StopRequeue"})
    BY <1>4, <2>1 DEF Accumulate
  <2> QED
    BY <1>1, <1>2, <1>5, <2>2 DEF StatusInv, StatusFacts, ProcessedInv, InPass
<1>8. ASSUME HasConditions, GoodSoFar', NEW t \in Processors, t < idx'
      PROVE  cur'.cond[t] = "True"
  <2>1. t \in Sub /\ t \in Int /\ idx \in Int /\ N \in Int /\ t <= N
    BY <1>1, ChainAssumption DEF Sub
  <2>2. /\ ~(acc.err \/ res = "Error")
        /\ ~(acc.stopped \/ res \in {"StopRequeue", "Stop"})
        /\ ~(acc.pending \/ res = "Pending")
        /\ "notready" # CASE res = "SkipReady" -> "ready"
                          [] res = "SkipNotReady" -> "notready"
                          [] OTHER -> acc.skip
    BY <1>4, <1>8 DEF GoodSoFar, Accumulate
  <2>3. res \in {"OK", "Requeue", "SkipReady", "Skip"}
    BY <1>6, <2>2 DEF Results
  <2>4. ConditionOf(res) = "True"
    BY <2>3 DEF ConditionOf
  <2>5. cur'.cond[t] = IF res = "SkipReady" /\ t \in (idx + 1)..N THEN "True"
                       ELSE IF t = s THEN ConditionOf(res) ELSE cur.cond[t]
    BY <1>1, <1>3, <1>4, <1>6, <1>8, <2>1, <2>3, AfterSubroutineStatus
  <2>6. acc.skip = "no"
    BY <1>1 DEF StatusInv, StatusFacts, ReadyInv
  <2>7. t < idx => cur.cond[t] = "True"
    BY <1>1, <1>2, <1>8, <2>2, <2>6 DEF StatusInv, StatusFacts, ReadyInv, GoodSoFar
  <2>8. idx' = idx + 1 \/ res = "SkipReady"
    BY <1>4, <2>3 DEF EndsChain
  <2> QED
    BY <1>2, <1>8, <2>1, <2>4, <2>5, <2>7, <2>8
<1>9. idx' \in Sub => acc'.skip = acc.skip
  <2>1. idx' \in Sub => res \notin {"SkipReady", "SkipNotReady"}
    BY <1>4, ChainAssumption DEF EndsChain, Sub
  <2> QED
    BY <1>4, <2>1 DEF Accumulate
<1>10. ReadyInv'
  BY <1>1, <1>2, <1>5, <1>8, <1>9 DEF StatusInv, StatusFacts, ReadyInv, Truthful, InPass
<1> QED
  BY <1>5, <1>7, <1>10 DEF StatusFacts

LEMMA StatusBackward ==
  ASSUME StatusInv, NEW res \in Results, RunBackward(res)
  PROVE  StatusFacts'
<1> DEFINE s == SubAt(idx)
           action == resolveAction(s)
<1>1. /\ pc = "chain" /\ idx \in Sub /\ s \in Sub /\ Advance(s, action, res)
      /\ action \in {"finalize", "terminate"}
  BY SubAtType DEF RunBackward, StatusInv, ProtectedInv
<1>2. cur.deleting
  BY <1>1 DEF resolveAction
<1> HIDE DEF s, action
<1>3. acc' = Accumulate(acc, res) /\ idx' = IF EndsChain(res) THEN N + 1 ELSE idx + 1
  BY <1>1 DEF Advance
<1>4. /\ VersionsInv'
      /\ cur'.ready = cur.ready /\ cur'.deleting = cur.deleting /\ cur'.observed = cur.observed
      /\ UNCHANGED <<api, cache, pc, orig, world, full>>
  BY <1>1, AdvanceStatus
<1>5. NoSkips => ProcessedInv'
  BY <1>1, <1>2, <1>4 DEF StatusInv, StatusFacts, ProcessedInv, InPass
<1>6. idx' \in Sub => acc'.skip = acc.skip
  <2>1. idx' \in Sub => res \notin {"SkipReady", "SkipNotReady"}
    BY <1>3, ChainAssumption DEF EndsChain, Sub
  <2> QED
    BY <1>3, <2>1 DEF Accumulate
<1>7. ReadyInv'
  BY <1>1, <1>2, <1>4, <1>6 DEF StatusInv, StatusFacts, ReadyInv, Truthful, InPass
<1> QED
  BY <1>4, <1>5, <1>7 DEF StatusFacts

(* The end of the chain: Ready follows from what has been accumulated, the *)
(* observed generation is the one the chain was run for.                   *)
LEMMA StatusFinish ==
  ASSUME StatusInv, FinishChain
  PROVE  StatusFacts'
<1>1. /\ pc = "chain" /\ idx = N + 1 /\ cur' = AfterChain /\ pc' \in {"patch", "return"}
      /\ full' = IF Clean /\ ~cur.deleting /\ cur.gen > full THEN cur.gen ELSE full
      /\ UNCHANGED <<api, cache, orig, acc, world>>
  BY DEF FinishChain
<1>2. TypeOK
  BY DEF StatusInv, ProtectedInv
<1>3. /\ cur'.gen = cur.gen /\ cur'.content = cur.content /\ cur'.cond = cur.cond
      /\ cur'.ready = IF ~HasConditions THEN cur.ready
                      ELSE IF acc.err \/ acc.stopped \/ acc.skip = "notready" THEN "False"
                      ELSE IF acc.pending THEN "Unknown" ELSE "True"
      /\ cur'.observed = IF /\ HasSpread /\ ~cur.deleting
                            /\ ~acc.err /\ ~acc.stopped /\ ~acc.requeue
                         THEN cur.gen ELSE cur.observed
  BY <1>1, <1>2, AfterChainStatus
<1>4. cur'.deleting = cur.deleting
  BY <1>1, <1>2, AfterChainSame DEF Same
<1>5. VersionsInv'
  BY <1>1, <1>2, <1>3 DEF StatusInv, StatusFacts, VersionsInv, InPass, TypeOK, Object
<1>6. NoSkips => ProcessedInv'
  <2> SUFFICES ASSUME NoSkips PROVE ProcessedInv'
    OBVIOUS
  <2>1. full \in Nat /\ full' \in Nat /\ full <= full' /\ cur.gen \in Nat
    BY <1>1, <1>2 DEF TypeOK, Object
  <2>2. /\ api.observed \in Nat /\ cache.observed \in Nat
        /\ orig.observed \in Nat /\ cur.observed \in Nat
    BY <1>2 DEF TypeOK, Object
  <2>3. ~cur.deleting /\ ~acc.err /\ ~acc.stopped /\ ~acc.requeue => cur.gen <= full'
    BY <1>1, <2>1 DEF StatusInv, StatusFacts, ProcessedInv, Clean
  <2>4. cur'.observed <= full'
    BY <1>1, <1>3, <2>1, <2>2, <2>3 DEF StatusInv, StatusFacts, ProcessedInv, InPass
  <2> QED
    BY <1>1, <2>1, <2>2, <2>4 DEF StatusInv, StatusFacts, ProcessedInv, InPass
<1>7. \A s \in Processors : s < idx
  BY <1>1, ChainAssumption DEF Sub
<1>8. ReadyInv'
  BY <1>1, <1>3, <1>4, <1>7
     DEF StatusInv, StatusFacts, ReadyInv, Truthful, GoodSoFar, InPass
<1> QED
  BY <1>5, <1>6, <1>8 DEF StatusFacts

(* The answer to the first patch overwrites what the chain has computed    *)
(* with what the server stores, which is as new and as true.               *)
LEMMA StatusPatchObject ==
  ASSUME StatusInv, PatchObject
  PROVE  StatusFacts'
<1>1. /\ pc = "patch" /\ pc' = "status"
      /\ api' = PatchMeta(api, orig, cur) /\ cur' = Decode(cur, api')
      /\ UNCHANGED <<cache, orig, world, full>>
  BY DEF PatchObject, hist
<1>2. TypeOK /\ TypeOK'
  BY TypeStep DEF StatusInv, ProtectedInv, Next, Reconcile
<1>3. api \in Object /\ orig \in Object /\ cur \in Object /\ api' \in Object
  BY <1>2 DEF TypeOK
<1>4. SameStatus(api, api')
  BY <1>1, <1>3, PatchMetaStatus
<1>5. /\ cur'.observed = IF api'.observed # 0 THEN api'.observed ELSE cur.observed
      /\ cur'.content = IF api'.content # 0 THEN api'.content ELSE cur.content
  BY <1>1, <1>3, DecodeVersions
<1>6. /\ cur'.deleting = api'.deleting
      /\ cur'.ready = IF api'.ready # "none" THEN api'.ready ELSE cur.ready
      /\ cur'.cond = IF api'.ready # "none" THEN api'.cond ELSE cur.cond
  BY <1>1, <1>3 DEF Decode, Object
<1>7. VersionsInv'
  BY <1>1, <1>2, <1>4, <1>5
     DEF StatusInv, StatusFacts, VersionsInv, InPass, SameStatus, SameVersions, TypeOK, Object
<1>8. NoSkips => ProcessedInv'
  BY <1>1, <1>4, <1>5
     DEF StatusInv, StatusFacts, ProcessedInv, InPass, SameStatus, SameVersions
<1>9. ReadyInv'
  BY <1>1, <1>4, <1>6 DEF StatusInv, StatusFacts, ReadyInv, Truthful, InPass, SameStatus
<1> QED
  BY <1>7, <1>8, <1>9 DEF StatusFacts

(* The second patch.                                                       *)
LEMMA StatusPatchStatus ==
  ASSUME StatusInv, PatchStatusAndReturn
  PROVE  /\ StatusFacts'
         /\ api'.observed >= api.observed /\ api'.content >= api.content
<1>1. /\ pc \in {"patch", "status"} /\ pc' = "idle"
      /\ api' = PatchStatus(api, orig, cur) /\ UNCHANGED <<cache, world, full>>
  BY DEF PatchStatusAndReturn, AtStatus, Return, Idle, EndPass, hist
<1>2. TypeOK
  BY DEF StatusInv, ProtectedInv
<1>3. api \in Object /\ orig \in Object /\ cur \in Object
  BY <1>2 DEF TypeOK
<1>4. /\ api'.gen = api.gen
      /\ api'.observed = IF cur.observed # orig.observed THEN cur.observed ELSE api.observed
      /\ api'.content = IF cur.content # orig.content THEN cur.content ELSE api.content
  BY <1>1, <1>3, PatchStatusVersions
<1>5. /\ api'.deleting = api.deleting
      /\ api'.ready = IF CondsChanged(orig, cur) THEN cur.ready ELSE api.ready
      /\ api'.cond = IF CondsChanged(orig, cur) THEN cur.cond ELSE api.cond
  BY <1>1, <1>3 DEF PatchStatus, Object
<1>6. VersionsInv' /\ api'.observed >= api.observed /\ api'.content >= api.content
  BY <1>1, <1>2, <1>4
     DEF StatusInv, StatusFacts, VersionsInv, InPass, TypeOK, Object
<1>7. NoSkips => ProcessedInv'
  BY <1>1, <1>4 DEF StatusInv, StatusFacts, ProcessedInv, InPass
<1>8. ReadyInv'
  BY <1>1, <1>5 DEF StatusInv, StatusFacts, ReadyInv, Truthful, InPass
<1> QED
  BY <1>6, <1>7, <1>8 DEF StatusFacts

LEMMA StatusReconcile ==
  ASSUME StatusInv, Reconcile
  PROVE  /\ StatusFacts'
         /\ api'.observed >= api.observed /\ api'.content >= api.content
<1> DEFINE Forward == api'.observed >= api.observed /\ api'.content >= api.content
<1> USE DEF rec, hist
<1>1. TypeOK
  BY DEF StatusInv, ProtectedInv
<1>2. SameStatus(api, api') => Forward
  BY <1>1 DEF SameStatus, SameVersions, TypeOK, Object
<1>3. api' = api => SameStatus(api, api')
  BY DEF SameStatus, SameVersions
<1>4. CASE ReconcileNotFound
  <2>1. UNCHANGED <<api, cache, pc, idx, orig, cur, acc, world, full>>
    BY <1>4 DEF ReconcileNotFound
  <2>2. ~InPass'
    BY <1>4 DEF ReconcileNotFound, Take, InPass
  <2> QED
    BY <1>2, <1>3, <2>1, <2>2, StatusIdle
<1>5. CASE ReconcileNotDue \/ ReconcileUnprotected \/ SkipReconcile \/ addFinalizersFails
             \/ ReturnUnpatched \/ PatchFails
  <2>1. ~InPass' /\ UNCHANGED <<api, cache, world, full>>
    BY <1>5 DEF ReconcileNotDue, ReconcileUnprotected, SkipReconcile, addFinalizersFails,
                ReturnUnpatched, PatchFails, Return, Idle, EndPass, InPass
  <2> QED
    BY <1>2, <1>3, <2>1, StatusIdle
<1>6. CASE addFinalizers
  <2> DEFINE to == [cur EXCEPT !.fins = @ \cup Finalizers]
  <2>1. api \in Object /\ cur \in Object /\ to \in Object
    BY <1>1 DEF TypeOK, Object
  <2>2. api' = PatchMeta(api, cur, to) /\ ~InPass' /\ UNCHANGED <<cache, world, full>>
    BY <1>6 DEF addFinalizers, Idle, EndPass, InPass
  <2> HIDE DEF to
  <2>3. SameStatus(api, api')
    BY <2>1, <2>2, PatchMetaStatus
  <2> QED
    BY <1>2, <2>2, <2>3, StatusIdle
<1>7. CASE PatchObject
  <2>1. api' = PatchMeta(api, orig, cur)
    BY <1>7 DEF PatchObject
  <2>2. SameStatus(api, api')
    BY <1>1, <2>1, PatchMetaStatus DEF TypeOK
  <2> QED
    BY <1>2, <1>7, <2>2, StatusPatchObject
<1>8. CASE PatchStatusAndReturn
  BY <1>8, StatusPatchStatus
<1>9. CASE ReconcileStart \/ SkipSubroutine \/ FinishChain
             \/ (\E res \in ProcessResults, makes \in BOOLEAN : RunForward(res, makes))
             \/ (\E res \in Results : RunBackward(res))
  <2>1. api' = api
    BY <1>9 DEF ReconcileStart, SkipSubroutine, FinishChain, RunForward, RunBackward, Advance
  <2> QED
    BY <1>2, <1>3, <1>9, <2>1, StatusStart, StatusSkip, StatusFinish, StatusForward, StatusBackward
<1> QED
  BY <1>4, <1>5, <1>6, <1>7, <1>8, <1>9 DEF Reconcile

LEMMA StatusEnvironment ==
  ASSUME StatusInv, Environment
  PROVE  /\ StatusFacts'
         /\ api'.observed = api.observed /\ api'.content = api.content
<1> USE DEF rec, hist
<1>1. TypeOK
  BY DEF StatusInv, ProtectedInv
<1>2. api \in Object /\ cache \in Object /\ orig \in Object /\ cur \in Object
      /\ world \in Nat /\ api.gen \in Nat
  BY <1>1 DEF TypeOK, Object
<1>3. CASE Sync
  <2>1. UNCHANGED <<api, pc, idx, orig, cur, acc, world, full>> /\ cache' = api
    BY <1>3 DEF Sync
  <2>2. VersionsInv'
    BY <1>1, <2>1 DEF StatusInv, StatusFacts, VersionsInv, InPass, TypeOK, Object
  <2>3. NoSkips => ProcessedInv'
    BY <2>1 DEF StatusInv, StatusFacts, ProcessedInv, InPass
  <2>4. ReadyInv'
    BY <2>1 DEF StatusInv, StatusFacts, ReadyInv, Truthful, GoodSoFar, InPass
  <2> QED
    BY <2>1, <2>2, <2>3, <2>4 DEF StatusFacts
<1>4. CASE TimerFires \/ Resync \/ WorldChanges
  <2>1. UNCHANGED <<api, cache, pc, idx, orig, cur, acc, full>>
        /\ world' \in Nat /\ world' >= world
    BY <1>2, <1>4 DEF TimerFires, Resync, WorldChanges
  <2> QED
    BY <1>2, <2>1, StatusGentle DEF SameStatus, SameVersions
<1>5. CASE TimePasses
  <2>1. SameStatus(api, api') /\ SameStatus(cache, cache')
          /\ SameStatus(orig, orig') /\ SameStatus(cur, cur')
    BY <1>2, <1>5, LaterStatus DEF TimePasses
  <2>2. UNCHANGED <<pc, idx, acc, world, full>>
    BY <1>5 DEF TimePasses
  <2> QED
    BY <1>2, <2>1, <2>2, StatusGentle DEF SameStatus, SameVersions
<1>6. CASE UserUpdate \/ UserRefresh
  <2>1. /\ api'.gen \in Nat /\ api'.gen >= api.gen /\ api'.observed = api.observed
        /\ api'.content = api.content /\ api'.ready = api.ready /\ api'.cond = api.cond
        /\ api'.deleting = api.deleting
    BY <1>2, <1>6 DEF UserUpdate, UserRefresh, Object
  <2>2. UNCHANGED <<cache, pc, idx, orig, cur, acc, world, full>>
    BY <1>6 DEF UserUpdate, UserRefresh
  <2> QED
    BY <1>2, <2>1, <2>2, StatusGentle DEF SameStatus, SameVersions
<1>7. CASE UserDelete
  <2> DEFINE o == [api EXCEPT !.deleting = TRUE]
  <2>1. /\ o \in Object /\ SameVersions(api, o) /\ o.ready = api.ready /\ o.cond = api.cond
        /\ o.deleting
    BY <1>2 DEF Object, SameVersions
  <2>2. api' = Collect(o) /\ UNCHANGED <<cache, pc, idx, orig, cur, acc, world, full>>
    BY <1>7 DEF UserDelete
  <2> HIDE DEF o
  <2>3. SameStatus(o, api')
    BY <2>1, <2>2 DEF Collect, SameStatus, SameVersions, Object
  <2> QED
    BY <1>2, <2>1, <2>2, <2>3, StatusGentle DEF SameStatus, SameVersions
<1>8. ASSUME NEW f \in Foreign, ForeignRelease(f)
      PROVE  StatusFacts' /\ api'.observed = api.observed /\ api'.content = api.content
  <2> DEFINE o == [api EXCEPT !.fins = @ \ {f}]
  <2>1. o \in Object /\ SameStatus(api, o)
    BY <1>2 DEF Object, SameStatus, SameVersions
  <2>2. api' = Collect(o) /\ UNCHANGED <<cache, pc, idx, orig, cur, acc, world, full>>
    BY <1>8 DEF ForeignRelease
  <2> HIDE DEF o
  <2>3. SameStatus(o, api')
    BY <2>1, <2>2 DEF Collect, SameStatus, SameVersions, Object
  <2> QED
    BY <1>2, <2>1, <2>2, <2>3, StatusGentle DEF SameStatus, SameVersions
<1>9. CASE Crash \/ Restart
  <2>1. UNCHANGED <<api, world, full>> /\ cache' = api /\ pc' \in {"idle", "down"}
    BY <1>9 DEF Crash, Restart, EndPass
  <2>2. VersionsInv'
    BY <1>1, <2>1 DEF StatusInv, StatusFacts, VersionsInv, InPass, TypeOK, Object
  <2>3. NoSkips => ProcessedInv'
    BY <2>1 DEF StatusInv, StatusFacts, ProcessedInv, InPass
  <2>4. ReadyInv'
    BY <2>1 DEF StatusInv, StatusFacts, ReadyInv, Truthful, InPass
  <2> QED
    BY <2>1, <2>2, <2>3, <2>4 DEF StatusFacts
<1> QED
  BY <1>3, <1>4, <1>5, <1>6, <1>7, <1>8, <1>9 DEF Environment

LEMMA StatusStep ==
  ASSUME StatusInv, [Next]_vars
  PROVE  /\ StatusInv'
         /\ [api'.observed >= api.observed /\ api'.content >= api.content]_vars
<1>1. ProtectedInv'
  BY InvStep DEF StatusInv
<1>2. api.observed \in Nat /\ api.content \in Nat
  BY DEF StatusInv, ProtectedInv, TypeOK, Object
<1>3. CASE Reconcile
  BY <1>1, <1>3, StatusReconcile DEF StatusInv
<1>4. CASE Environment
  <2>1. api'.observed >= api.observed /\ api'.content >= api.content
    BY <1>2, <1>4, StatusEnvironment
  <2> QED
    BY <1>1, <1>4, <2>1, StatusEnvironment DEF StatusInv
<1>5. CASE UNCHANGED vars
  <2>1. UNCHANGED <<api, cache, pc, idx, orig, cur, acc, world, full>>
    BY <1>5 DEF vars, rec, hist
  <2> QED
    BY <1>1, <1>2, <1>5, <2>1, StatusGentle DEF SameStatus, SameVersions, StatusInv,
       StatusFacts, VersionsInv, ProcessedInv, ReadyInv, Truthful, GoodSoFar, InPass
<1> QED
  BY <1>3, <1>4, <1>5 DEF Next

LEMMA StatusInit == Init => StatusInv
<1> SUFFICES ASSUME Init PROVE StatusInv
  OBVIOUS
<1>1. StatusFacts
  BY DEF Init, NewObject, InPass, StatusFacts, VersionsInv, ProcessedInv, ReadyInv, Truthful
<1> QED
  BY <1>1, InvInit DEF StatusInv

-----------------------------------------------------------------------------
(* No write moves the observed generation or the copied content back,      *)
(* however stale the version patchChanges computed it from.                *)
THEOREM StatusForwardOnly == Spec => StatusMovesForward
<1>1. StatusInv /\ [Next]_vars =>
        [api'.observed >= api.observed /\ api'.content >= api.content]_vars
  BY StatusStep
<1>2. StatusInv /\ [Next]_vars => StatusInv'
  BY StatusStep
<1> QED
  BY <1>1, <1>2, StatusInit, PTL DEF Spec, StatusMovesForward

(* Ready=True on an object that is not being deleted is backed by every    *)
(* processor, for every chain and every answer, although the conditions    *)
(* are patched as a whole and decoded from the server's answer in between. *)
THEOREM ReadyBacked == Spec => []ReadyTruthful
<1>1. StatusInv => ReadyTruthful
  BY DEF StatusInv, StatusFacts, ReadyInv, Truthful, ReadyTruthful
<1>2. StatusInv /\ [Next]_vars => StatusInv'
  BY StatusStep
<1> QED
  BY <1>1, <1>2, StatusInit, PTL DEF Spec

(* The observed generation is one that a whole chain was completed for,    *)
(* unless a subroutine may skip the rest of the chain: UpdateSpread is     *)
(* called after a skip as well.                                            *)
THEOREM ObservedProcessed ==
  ASSUME NoSkips
  PROVE  Spec => []ObservedMeansProcessed
<1>1. StatusInv => ObservedMeansProcessed
  BY DEF StatusInv, StatusFacts, ProcessedInv, ObservedMeansProcessed
<1>2. StatusInv /\ [Next]_vars => StatusInv'
  BY StatusStep
<1> QED
  BY <1>1, <1>2, StatusInit, PTL DEF Spec

-----------------------------------------------------------------------------
(***************************************************************************)
(* The markers kcp puts in the status of an object: the initializer leaves *)
(* only after every Initializer has succeeded, and once the terminator has *)
(* left no Terminator has anything to tear down.                           *)
(***************************************************************************)

(* What the operators do to the markers.                                   *)

SameMarkers(o, p) == p.init = o.init /\ p.term = o.term /\ p.deleting = o.deleting

LEMMA CollectMarkers ==
  ASSUME NEW o \in Object
  PROVE  SameMarkers(o, Collect(o))
BY DEF Collect, SameMarkers, Object

LEMMA PatchMetaMarkers ==
  ASSUME NEW o \in Object, NEW from \in Object, NEW to \in Object
  PROVE  SameMarkers(o, PatchMeta(o, from, to))
<1> DEFINE q == [o EXCEPT !.fins  = IF to.fins # from.fins THEN to.fins ELSE @,
                          !.label = IF to.label # from.label THEN to.label ELSE @]
<1>1. q \in Object /\ SameMarkers(o, q)
  BY DEF Object, SameMarkers
<1>2. PatchMeta(o, from, to) = Collect(q)
  BY DEF PatchMeta
<1> HIDE DEF q
<1> QED
  BY <1>1, <1>2, CollectMarkers DEF SameMarkers

LEMMA PatchStatusMarkers ==
  ASSUME NEW o \in Object, NEW from \in Object, NEW to \in Object
  PROVE  LET p == PatchStatus(o, from, to)
         IN  /\ p.deleting = o.deleting
             /\ p.init = IF to.init # from.init THEN to.init ELSE o.init
             /\ p.term = IF to.term # from.term THEN to.term ELSE o.term
BY DEF PatchStatus, Object

(* The answer to a patch can bring a marker back, never take one away.     *)
LEMMA DecodeMarkers ==
  ASSUME NEW o \in Object, NEW answer \in Object
  PROVE  LET p == Decode(o, answer)
         IN  /\ p.init = (answer.init \/ o.init)
             /\ p.term = (answer.term \/ o.term)
BY DEF Decode, Object

LEMMA LaterMarkers ==
  ASSUME NEW o \in Object
  PROVE  SameMarkers(o, Later(o))
BY DEF Later, SameMarkers, Object

LEMMA InitUnknownConditionsMarkers ==
  ASSUME NEW o \in Object
  PROVE  SameMarkers(o, InitUnknownConditions(o))
BY DEF InitUnknownConditions, SameMarkers, Object

LEMMA AfterSubroutineMarkers ==
  ASSUME TypeOK, NEW s \in Sub, NEW action, NEW res
  PROVE  SameMarkers(cur, AfterSubroutine(s, action, res))
<1> DEFINE o1 == SetSubroutineCondition(cur, s, res, action \in {"finalize", "terminate"})
           o2 == IF RemovesFinalizer(action, res) THEN [o1 EXCEPT !.fins = @ \ {s}] ELSE o1
           o3 == IF action \in {"process", "initialize"} /\ res # "Error"
                 THEN [o2 EXCEPT !.content = world] ELSE o2
           remaining == {SubAt(k) : k \in (idx + 1)..N}
           isReady == (res = "SkipReady")
           o4 == SetSkippedConditions(o3, remaining, isReady)
<1>1. o1 \in Object /\ SameMarkers(cur, o1)
  <2>1. o1 \in Object
    BY SetSubroutineConditionType DEF TypeOK
  <2> QED
    BY <2>1 DEF SetSubroutineCondition, TypeOK, Object, SameMarkers
<1> HIDE DEF o1
<1>2. o2 \in Object /\ SameMarkers(o1, o2)
  BY <1>1 DEF Object, SameMarkers
<1> HIDE DEF o2
<1>3. o3 \in Object /\ SameMarkers(o2, o3)
  BY <1>2 DEF Object, SameMarkers, TypeOK
<1> HIDE DEF o3, remaining, isReady
<1>4. SameMarkers(o3, o4)
  BY <1>3 DEF SetSkippedConditions, SameMarkers, Object
<1> HIDE DEF o4
<1>5. AfterSubroutine(s, action, res) = IF res \in {"SkipReady", "SkipNotReady"} THEN o4 ELSE o3
  BY DEF AfterSubroutine, o1, o2, o3, o4, remaining, isReady
<1> QED
  BY <1>1, <1>2, <1>3, <1>4, <1>5 DEF SameMarkers

LEMMA AfterChainMarkers ==
  ASSUME TypeOK
  PROVE  /\ AfterChain.deleting = cur.deleting
         /\ AfterChain.init = (cur.init /\ ~(Clean /\ HasInitializer /\ ~cur.deleting))
         /\ AfterChain.term = (cur.term /\ ~(Clean /\ HasTerminator /\ cur.deleting))
<1> DEFINE o1 == [cur EXCEPT
                    !.init = @ /\ ~(Clean /\ HasInitializer /\ ~cur.deleting),
                    !.term = @ /\ ~(Clean /\ HasTerminator /\ cur.deleting)]
           o2 == SetReadyCondition(o1)
<1>1. /\ o1 \in Object /\ o1.deleting = cur.deleting
      /\ o1.init = (cur.init /\ ~(Clean /\ HasInitializer /\ ~cur.deleting))
      /\ o1.term = (cur.term /\ ~(Clean /\ HasTerminator /\ cur.deleting))
  BY DEF TypeOK, Object
<1> HIDE DEF o1
<1>2. o2 \in Object /\ SameMarkers(o1, o2)
  BY <1>1, SetReadyConditionType DEF SetReadyCondition, Object, SameMarkers
<1> HIDE DEF o2
<1>3. SameMarkers(o2, UpdateSpread(o2))
  BY <1>2 DEF UpdateSpread, Object, SameMarkers
<1> QED
  BY <1>1, <1>2, <1>3 DEF AfterChain, SameMarkers, o1, o2

-----------------------------------------------------------------------------
(* The chain.                                                              *)

(* A chain that is clean so far has run, without a break, everything       *)
(* before its present position.                                            *)
LEMMA CleanAdvance ==
  ASSUME TypeOK, NEW s, NEW action, NEW res \in Results,
         idx \in Sub, Advance(s, action, res), Clean'
  PROVE  Clean /\ idx' = idx + 1 /\ res \in {"OK", "Skip"}
<1>1. acc' = Accumulate(acc, res)
  BY DEF Advance
<1>2. /\ ~(acc.err \/ res = "Error")
      /\ ~(acc.stopped \/ res \in {"StopRequeue", "Stop"})
      /\ ~(acc.pending \/ res = "Pending")
      /\ ~(acc.requeue \/ res \in {"Requeue", "Pending", "StopRequeue"})
      /\ "no" = CASE res = "SkipReady" -> "ready"
                  [] res = "SkipNotReady" -> "notready"
                  [] OTHER -> acc.skip
  BY <1>1 DEF Clean, Accumulate
<1>3. res \in {"OK", "Skip"}
  BY <1>2 DEF Results
<1>4. acc.skip = "no"
  BY <1>2, <1>3
<1>5. idx' = idx + 1
  BY <1>3 DEF Advance, EndsChain
<1> QED
  BY <1>2, <1>3, <1>4, <1>5 DEF Clean

-----------------------------------------------------------------------------
(* The inductive invariant.                                                *)

(* The terminator never comes back on the server; a backward chain that is *)
(* clean so far has torn down every Terminator behind it; and from the     *)
(* moment it is taken out of `cur`, nothing is left and no forward chain   *)
(* can start, since the cache shows the deletion.                          *)
TerminatorInv ==
  /\ ~api.term => /\ cache.deleting /\ Terminators \cap ext = {}
                  /\ pc = "chain" => cur.deleting
  /\ ~cache.term => ~api.term
  /\ pc \in {"chain", "patch", "status"} =>
       (cur.term => orig.term) /\ (~orig.term => ~api.term)
  /\ pc = "chain" => cur.term = orig.term
  /\ pc = "chain" /\ cur.deleting /\ cur.term /\ Clean =>
       \A s \in Terminators : s > N + 1 - idx => s \notin ext
  /\ pc \in {"patch", "status"} /\ orig.term /\ ~cur.term =>
       cache.deleting /\ Terminators \cap ext = {}

(* A forward chain that is clean so far has initialized every Initializer  *)
(* behind it, and `cur` has lost the initializer only if that was all.     *)
InitializerInv ==
  /\ pc = "chain" => cur.init = orig.init
  /\ pc = "chain" /\ ~cur.deleting /\ cur.init /\ HasInitializer /\ Clean =>
       \A s \in Initializers : s < idx => s \in inited
  /\ pc \in {"patch", "status"} /\ orig.init /\ ~cur.init => Initializers \subseteq inited

MarkerInv ==
  ProtectedInv /\ (HasTerminator => TerminatorInv) /\ InitializerInv

(* A pass that ends, or has not begun, without touching the stored object. *)
LEMMA MarkerIdle ==
  ASSUME MarkerInv, pc' \notin {"chain", "patch", "status"}, UNCHANGED <<api, cache, ext>>
  PROVE  (HasTerminator => TerminatorInv') /\ InitializerInv'
BY DEF MarkerInv, TerminatorInv, InitializerInv

(* A step of someone else that leaves the markers as they are.             *)
LEMMA MarkerGentle ==
  ASSUME MarkerInv, UNCHANGED <<pc, idx, acc, ext, inited>>,
         SameMarkers(cache, cache'), SameMarkers(orig, orig'), SameMarkers(cur, cur'),
         api'.term = api.term
  PROVE  (HasTerminator => TerminatorInv') /\ InitializerInv'
<1>1. Clean' = Clean
  BY DEF Clean
<1> QED
  BY <1>1 DEF MarkerInv, TerminatorInv, InitializerInv, SameMarkers

LEMMA MarkerStart ==
  ASSUME MarkerInv, ReconcileStart
  PROVE  (HasTerminator => TerminatorInv') /\ InitializerInv'
<1>1. /\ pc' = "chain" /\ idx' = 1 /\ orig' = cache
      /\ UNCHANGED <<api, cache, ext>>
  BY DEF ReconcileStart
<1>2. SameMarkers(cache, cur')
  BY InitUnknownConditionsMarkers DEF ReconcileStart, MarkerInv, ProtectedInv, TypeOK
<1>3. \A s \in Terminators : ~(s > N + 1 - idx')
  BY <1>1, ChainAssumption DEF Sub
<1>4. \A s \in Initializers : ~(s < idx')
  BY <1>1, ChainAssumption DEF Sub
<1>5. HasTerminator => TerminatorInv'
  BY <1>1, <1>2, <1>3 DEF MarkerInv, TerminatorInv, SameMarkers
<1>6. InitializerInv'
  BY <1>1, <1>2, <1>4 DEF InitializerInv, SameMarkers
<1> QED
  BY <1>5, <1>6

LEMMA MarkerSkip ==
  ASSUME MarkerInv, SkipSubroutine
  PROVE  (HasTerminator => TerminatorInv') /\ InitializerInv'
<1>1. /\ pc = "chain" /\ idx \in Sub /\ idx' = idx + 1
      /\ resolveAction(SubAt(idx)) = "none"
      /\ UNCHANGED <<api, cache, pc, orig, cur, acc, ext, inited>>
  BY DEF SkipSubroutine, hist
<1>2. Clean' = Clean
  BY <1>1 DEF Clean
<1>3. HasTerminator /\ cur.deleting /\ cur.term => N + 1 - idx \notin Terminators
  BY <1>1 DEF resolveAction, SubAt
<1>4. HasInitializer /\ ~cur.deleting /\ cur.init => idx \notin Initializers
  BY <1>1 DEF resolveAction, SubAt
<1>5. \A s \in Terminators : s > N + 1 - idx' => s > N + 1 - idx \/ s = N + 1 - idx
  BY <1>1, ChainAssumption DEF Sub
<1>6. \A s \in Initializers : s < idx' => s < idx \/ s = idx
  BY <1>1, ChainAssumption DEF Sub
<1>7. HasTerminator => TerminatorInv'
  BY <1>1, <1>2, <1>3, <1>5 DEF MarkerInv, TerminatorInv
<1>8. InitializerInv'
  BY <1>1, <1>2, <1>4, <1>6 DEF MarkerInv, InitializerInv
<1> QED
  BY <1>7, <1>8

LEMMA MarkerForward ==
  ASSUME MarkerInv, NEW res \in ProcessResults, NEW makes, RunForward(res, makes)
  PROVE  (HasTerminator => TerminatorInv') /\ InitializerInv'
<1> DEFINE s == SubAt(idx)
           action == resolveAction(s)
<1>1. /\ pc = "chain" /\ idx \in Sub /\ s \in Sub /\ Advance(s, action, res)
      /\ action \in {"process", "initialize"}
      /\ inited \subseteq inited'
      /\ action = "initialize" /\ res \in {"OK", "Skip"} => s \in inited'
  BY SubAtType DEF RunForward, MarkerInv, ProtectedInv
<1>2. ~cur.deleting /\ s = idx
  BY <1>1 DEF resolveAction, SubAt
<1>3. HasInitializer /\ cur.init /\ s \in Initializers => action = "initialize"
  BY <1>2 DEF resolveAction
<1>4. res \in Results
  BY ConfigAssumption
<1> HIDE DEF s, action
<1>5. cur' = AfterSubroutine(s, action, res) /\ UNCHANGED <<api, cache, pc, orig>>
  BY <1>1 DEF Advance
<1>6. SameMarkers(cur, cur')
  BY <1>1, <1>5, AfterSubroutineMarkers DEF MarkerInv, ProtectedInv
<1>7. Clean' => Clean /\ idx' = idx + 1 /\ res \in {"OK", "Skip"}
  BY <1>1, <1>4, CleanAdvance DEF MarkerInv, ProtectedInv
<1>8. \A t \in Initializers : t < idx + 1 => t < idx \/ t = idx
  BY <1>1, ChainAssumption DEF Sub
<1>9. HasTerminator => TerminatorInv'
  BY <1>1, <1>2, <1>5, <1>6 DEF MarkerInv, TerminatorInv, SameMarkers
<1>10. InitializerInv'
  BY <1>1, <1>2, <1>3, <1>5, <1>6, <1>7, <1>8 DEF MarkerInv, InitializerInv, SameMarkers
<1> QED
  BY <1>9, <1>10

LEMMA MarkerBackward ==
  ASSUME MarkerInv, NEW res, RunBackward(res)
  PROVE  (HasTerminator => TerminatorInv') /\ InitializerInv'
<1> DEFINE s == SubAt(idx)
           action == resolveAction(s)
<1>1. /\ pc = "chain" /\ idx \in Sub /\ s \in Sub /\ Advance(s, action, res)
      /\ action \in {"finalize", "terminate"} /\ res \in FinalizeResults[s]
      /\ ext' \subseteq ext
      /\ res \in {"OK", "Skip"} => s \notin ext'
  BY SubAtType DEF RunBackward, MarkerInv, ProtectedInv
<1>2. cur.deleting /\ s = N + 1 - idx
  BY <1>1 DEF resolveAction, SubAt
<1>3. res \in Results
  BY <1>1, ConfigAssumption
<1> HIDE DEF s, action
<1>4. cur' = AfterSubroutine(s, action, res) /\ UNCHANGED <<api, cache, pc, orig>>
  BY <1>1 DEF Advance
<1>5. SameMarkers(cur, cur')
  BY <1>1, <1>4, AfterSubroutineMarkers DEF MarkerInv, ProtectedInv
<1>6. Clean' => Clean /\ idx' = idx + 1 /\ res \in {"OK", "Skip"}
  BY <1>1, <1>3, CleanAdvance DEF MarkerInv, ProtectedInv
<1>7. \A t \in Terminators : t > N + 1 - (idx + 1) => t > N + 1 - idx \/ t = N + 1 - idx
  BY <1>1, ChainAssumption DEF Sub
<1>8. HasTerminator => TerminatorInv'
  BY <1>1, <1>2, <1>4, <1>5, <1>6, <1>7 DEF MarkerInv, TerminatorInv, SameMarkers
<1>9. InitializerInv'
  BY <1>1, <1>2, <1>4, <1>5 DEF MarkerInv, InitializerInv, SameMarkers
<1> QED
  BY <1>8, <1>9

(* The end of the chain: a clean one has passed all subroutines.           *)
LEMMA MarkerFinish ==
  ASSUME MarkerInv, FinishChain
  PROVE  (HasTerminator => TerminatorInv') /\ InitializerInv'
<1>1. /\ pc = "chain" /\ idx = N + 1 /\ cur' = AfterChain /\ pc' \in {"patch", "return"}
      /\ UNCHANGED <<api, cache, orig, ext, inited>>
  BY DEF FinishChain
<1>2. /\ cur'.init = (cur.init /\ ~(Clean /\ HasInitializer /\ ~cur.deleting))
      /\ cur'.term = (cur.term /\ ~(Clean /\ HasTerminator /\ cur.deleting))
  BY <1>1, AfterChainMarkers DEF MarkerInv, ProtectedInv
<1>3. \A s \in Terminators : s > N + 1 - idx
  BY <1>1, ChainAssumption DEF Sub
<1>4. \A s \in Initializers : s < idx
  BY <1>1, ChainAssumption DEF Sub
<1>5. cur.deleting => cache.deleting
  BY <1>1 DEF MarkerInv, ProtectedInv, PassInv
<1>6. HasTerminator => TerminatorInv'
  BY <1>1, <1>2, <1>3, <1>5 DEF MarkerInv, TerminatorInv
<1>7. InitializerInv'
  BY <1>1, <1>2, <1>4 DEF MarkerInv, InitializerInv
<1> QED
  BY <1>6, <1>7

LEMMA MarkerPatchObject ==
  ASSUME MarkerInv, PatchObject
  PROVE  (HasTerminator => TerminatorInv') /\ InitializerInv'
<1>1. /\ pc = "patch" /\ pc' = "status"
      /\ api' = PatchMeta(api, orig, cur) /\ cur' = Decode(cur, api')
      /\ UNCHANGED <<cache, orig, ext, inited>>
  BY DEF PatchObject, hist
<1>2. api \in Object /\ orig \in Object /\ cur \in Object
  BY DEF MarkerInv, ProtectedInv, TypeOK
<1>3. api' \in Object /\ SameMarkers(api, api')
  BY <1>1, <1>2, PatchMetaType, PatchMetaMarkers
<1>4. cur'.init = (api'.init \/ cur.init) /\ cur'.term = (api'.term \/ cur.term)
  BY <1>1, <1>2, <1>3, DecodeMarkers
<1>5. HasTerminator => TerminatorInv'
  BY <1>1, <1>3, <1>4 DEF MarkerInv, TerminatorInv, SameMarkers
<1>6. InitializerInv'
  BY <1>1, <1>4 DEF MarkerInv, InitializerInv
<1> QED
  BY <1>5, <1>6

(* What the status patch does to the markers.                              *)
LEMMA StatusPatchMarkers ==
  ASSUME MarkerInv, PatchStatusAndReturn
  PROVE  /\ pc \in {"patch", "status"} /\ pc' = "idle" /\ UNCHANGED <<cache, ext>>
         /\ api'.init = IF cur.init # orig.init THEN cur.init ELSE api.init
         /\ api'.term = IF cur.term # orig.term THEN cur.term ELSE api.term
<1>1. /\ pc \in {"patch", "status"} /\ pc' = "idle" /\ UNCHANGED <<cache, ext>>
      /\ api' = PatchStatus(api, orig, cur)
  BY DEF PatchStatusAndReturn, AtStatus, Return, Idle, EndPass
<1> QED
  BY <1>1, PatchStatusMarkers DEF MarkerInv, ProtectedInv, TypeOK

LEMMA MarkerPatchStatus ==
  ASSUME MarkerInv, PatchStatusAndReturn
  PROVE  (HasTerminator => TerminatorInv') /\ InitializerInv'
<1>1. HasTerminator => TerminatorInv'
  BY StatusPatchMarkers DEF MarkerInv, ProtectedInv, TypeOK, Object, TerminatorInv
<1>2. InitializerInv'
  BY StatusPatchMarkers DEF InitializerInv
<1> QED
  BY <1>1, <1>2

LEMMA MarkerReconcile ==
  ASSUME MarkerInv, Reconcile
  PROVE  (HasTerminator => TerminatorInv') /\ InitializerInv'
<1>1. CASE ReconcileNotFound
  BY <1>1, MarkerIdle DEF ReconcileNotFound, Take, rec
<1>2. CASE ReconcileNotDue \/ ReconcileUnprotected
  BY <1>2, MarkerIdle DEF ReconcileNotDue, ReconcileUnprotected
<1>3. CASE SkipReconcile \/ addFinalizersFails \/ ReturnUnpatched \/ PatchFails
  BY <1>3, MarkerIdle DEF SkipReconcile, addFinalizersFails, ReturnUnpatched, PatchFails,
                          Return, Idle, EndPass
<1>4. CASE addFinalizers
  <2> DEFINE to == [cur EXCEPT !.fins = @ \cup Finalizers]
  <2>1. api \in Object /\ cur \in Object /\ to \in Object
    BY DEF MarkerInv, ProtectedInv, TypeOK, Object
  <2>2. api' = PatchMeta(api, cur, to) /\ pc' = "idle" /\ UNCHANGED <<cache, ext>>
    BY <1>4 DEF addFinalizers, Idle, EndPass
  <2> HIDE DEF to
  <2>3. SameMarkers(api, api')
    BY <2>1, <2>2, PatchMetaMarkers
  <2> QED
    BY <2>2, <2>3 DEF MarkerInv, TerminatorInv, InitializerInv, SameMarkers
<1>5. CASE \E res \in ProcessResults, makes \in BOOLEAN : RunForward(res, makes)
  BY <1>5, MarkerForward
<1>6. CASE \E res \in Results : RunBackward(res)
  BY <1>6, MarkerBackward
<1> QED
  BY <1>1, <1>2, <1>3, <1>4, <1>5, <1>6, MarkerStart, MarkerSkip, MarkerFinish,
     MarkerPatchObject, MarkerPatchStatus DEF Reconcile

LEMMA MarkerEnvironment ==
  ASSUME MarkerInv, Environment
  PROVE  (HasTerminator => TerminatorInv') /\ InitializerInv'
<1> USE DEF rec, hist
<1>1. api \in Object /\ cache \in Object /\ orig \in Object /\ cur \in Object
  BY DEF MarkerInv, ProtectedInv, TypeOK
<1>2. CASE Sync
  <2>1. /\ UNCHANGED <<api, pc, idx, orig, cur, acc, ext, inited>>
        /\ cache' = api
    BY <1>2 DEF Sync
  <2>2. cache.deleting => api.deleting
    BY DEF MarkerInv, ProtectedInv, CacheInv
  <2>3. Clean' = Clean
    BY <2>1 DEF Clean
  <2> QED
    BY <2>1, <2>2, <2>3 DEF MarkerInv, TerminatorInv, InitializerInv
<1>3. CASE TimerFires \/ Resync \/ WorldChanges
  BY <1>3, MarkerGentle DEF TimerFires, Resync, WorldChanges, SameMarkers
<1>4. CASE TimePasses
  <2>1. SameMarkers(api, api') /\ SameMarkers(cache, cache')
          /\ SameMarkers(orig, orig') /\ SameMarkers(cur, cur')
    BY <1>1, <1>4, LaterMarkers DEF TimePasses
  <2> QED
    BY <1>4, <2>1, MarkerGentle DEF TimePasses, SameMarkers
<1>5. CASE UserUpdate \/ UserRefresh
  <2>1. api'.term = api.term
    BY <1>1, <1>5 DEF UserUpdate, UserRefresh, Object
  <2> QED
    BY <1>5, <2>1, MarkerGentle DEF UserUpdate, UserRefresh, SameMarkers
<1>6. CASE UserDelete
  <2> DEFINE o == [api EXCEPT !.deleting = TRUE]
  <2>1. o \in Object /\ o.term = api.term
    BY <1>1 DEF Object
  <2>2. api' = Collect(o) /\ UNCHANGED <<cache, rec, ext, hist>>
    BY <1>6 DEF UserDelete
  <2> HIDE DEF o
  <2> QED
    BY <2>1, <2>2, CollectMarkers, MarkerGentle DEF SameMarkers
<1>7. ASSUME NEW f \in Foreign, ForeignRelease(f)
      PROVE  (HasTerminator => TerminatorInv') /\ InitializerInv'
  <2> DEFINE o == [api EXCEPT !.fins = @ \ {f}]
  <2>1. o \in Object /\ o.term = api.term
    BY <1>1 DEF Object
  <2>2. api' = Collect(o) /\ UNCHANGED <<cache, rec, ext, hist>>
    BY <1>7 DEF ForeignRelease
  <2> HIDE DEF o
  <2> QED
    BY <2>1, <2>2, CollectMarkers, MarkerGentle DEF SameMarkers
<1>8. CASE Crash \/ Restart
  <2>1. UNCHANGED <<api, ext>> /\ cache' = api /\ pc' \in {"idle", "down"}
    BY <1>8 DEF Crash, Restart, EndPass
  <2>2. cache.deleting => api.deleting
    BY DEF MarkerInv, ProtectedInv, CacheInv
  <2> QED
    BY <2>1, <2>2 DEF MarkerInv, TerminatorInv, InitializerInv
<1> QED
  BY <1>2, <1>3, <1>4, <1>5, <1>6, <1>7, <1>8 DEF Environment

LEMMA MarkerInit == Init => MarkerInv
<1> SUFFICES ASSUME Init PROVE MarkerInv
  OBVIOUS
<1>1. HasTerminator => TerminatorInv
  BY DEF Init, TerminatorInv, NewObject
<1>2. InitializerInv
  BY DEF Init, InitializerInv
<1> QED
  BY <1>1, <1>2, InvInit DEF MarkerInv

LEMMA MarkerStep == MarkerInv /\ [Next]_vars => MarkerInv'
<1> SUFFICES ASSUME MarkerInv, [Next]_vars
             PROVE  MarkerInv'
  OBVIOUS
<1>1. ProtectedInv'
  BY InvStep DEF MarkerInv
<1>2. CASE UNCHANGED vars
  <2>1. UNCHANGED <<api, cache, pc, idx, orig, cur, acc, ext, inited>>
    BY <1>2 DEF vars, rec, hist
  <2>2. Clean' = Clean
    BY <2>1 DEF Clean
  <2> QED
    BY <1>1, <2>1, <2>2 DEF MarkerInv, TerminatorInv, InitializerInv
<1> QED
  BY <1>1, <1>2, MarkerReconcile, MarkerEnvironment DEF Next, MarkerInv

-----------------------------------------------------------------------------
(* Once the terminator has left the status, no Terminator has anything     *)
(* left to tear down: for every chain and every answer, although passes    *)
(* start from stale versions and their patches may be lost.                *)
THEOREM TerminationComplete == Spec => []TerminatedBeforeCleared
<1>1. MarkerInv => TerminatedBeforeCleared
  BY DEF MarkerInv, TerminatorInv, TerminatedBeforeCleared
<1> QED
  BY <1>1, MarkerInit, MarkerStep, PTL DEF Spec

(* Only a status patch takes the initializer away.                         *)
LEMMA InitializerKept ==
  ASSUME MarkerInv, [Next]_vars, api.init, ~api'.init
  PROVE  PatchStatusAndReturn
<1> USE DEF rec
<1>1. api \in Object /\ orig \in Object /\ cur \in Object
  BY DEF MarkerInv, ProtectedInv, TypeOK
<1>2. api' # api
  OBVIOUS
<1>3. \/ addFinalizers \/ PatchObject \/ PatchStatusAndReturn \/ TimePasses
      \/ UserUpdate \/ UserRefresh \/ UserDelete \/ \E f \in Foreign : ForeignRelease(f)
  <2>1. CASE Reconcile
    BY <1>2, <2>1 DEF Reconcile, ReconcileNotFound, ReconcileNotDue, ReconcileUnprotected,
         ReconcileStart, SkipReconcile, addFinalizersFails, SkipSubroutine, RunForward,
         RunBackward, Advance, FinishChain, ReturnUnpatched, PatchFails
  <2>2. CASE Environment
    BY <1>2, <2>2 DEF Environment, Sync, TimerFires, Resync, WorldChanges, Crash, Restart
  <2> QED
    BY <1>2, <2>1, <2>2 DEF Next, vars
<1>4. ~addFinalizers
  <2> DEFINE to == [cur EXCEPT !.fins = @ \cup Finalizers]
  <2>1. to \in Object
    BY <1>1 DEF Object
  <2>2. addFinalizers => api' = PatchMeta(api, cur, to)
    BY DEF addFinalizers
  <2> HIDE DEF to
  <2> QED
    BY <1>1, <2>1, <2>2, PatchMetaMarkers DEF SameMarkers
<1>5. ~PatchObject
  BY <1>1, PatchMetaMarkers DEF PatchObject, SameMarkers
<1>6. ~TimePasses
  BY <1>1, LaterMarkers DEF TimePasses, SameMarkers
<1>7. ~UserUpdate /\ ~UserRefresh
  BY <1>1 DEF UserUpdate, UserRefresh, Object
<1>8. ~UserDelete
  <2> DEFINE o == [api EXCEPT !.deleting = TRUE]
  <2>1. o \in Object /\ o.init = api.init
    BY <1>1 DEF Object
  <2>2. UserDelete => api' = Collect(o)
    BY DEF UserDelete
  <2> HIDE DEF o
  <2> QED
    BY <2>1, <2>2, CollectMarkers DEF SameMarkers
<1>9. ASSUME NEW f \in Foreign
      PROVE  ~ForeignRelease(f)
  <2> DEFINE o == [api EXCEPT !.fins = @ \ {f}]
  <2>1. o \in Object /\ o.init = api.init
    BY <1>1 DEF Object
  <2>2. ForeignRelease(f) => api' = Collect(o)
    BY DEF ForeignRelease
  <2> HIDE DEF o
  <2> QED
    BY <2>1, <2>2, CollectMarkers DEF SameMarkers
<1> QED
  BY <1>3, <1>4, <1>5, <1>6, <1>7, <1>8, <1>9

(* The initializer leaves the status only in a pass in which every         *)
(* Initializer has succeeded: the answer to the metadata patch may bring   *)
(* the marker back into memory, and no other pass can take it away.        *)
THEOREM InitializationComplete == Spec => InitializedBeforeCleared
<1>1. MarkerInv /\ [Next]_vars => [api.init /\ ~api'.init => Initializers \subseteq inited]_vars
  <2> SUFFICES ASSUME MarkerInv, [Next]_vars, api.init, ~api'.init
               PROVE  Initializers \subseteq inited
    OBVIOUS
  <2>1. PatchStatusAndReturn
    BY InitializerKept
  <2>2. cur \in Object /\ orig \in Object
    BY DEF MarkerInv, ProtectedInv, TypeOK
  <2> QED
    BY <2>1, <2>2, StatusPatchMarkers DEF MarkerInv, InitializerInv, Object
<1> QED
  BY <1>1, MarkerInit, MarkerStep, PTL DEF Spec, InitializedBeforeCleared
=============================================================================
