---------------------------- MODULE OrgStoreProofs ----------------------------
(***************************************************************************)
(* Proofs about OrgStore, for any bindings and bounds: type correctness,   *)
(* that deletion honours reservations, and that an org is only ready once  *)
(* OpenFGA has what it needs.                                              *)
(***************************************************************************)
EXTENDS OrgStore, TLAPS

-----------------------------------------------------------------------------
(* Types.                                                                  *)

LEMMA ConstantTypes ==
  /\ NoStore \in Store /\ NoMem \in [orig : Store, cur : Store, err : BOOLEAN]
  /\ NoModel \in [live : BOOLEAN, deleting : BOOLEAN, fin : BOOLEAN]
  /\ \A o \in Store : View(o) \in
       [live : BOOLEAN, deleting : BOOLEAN, fins : SUBSET {"store", "tuples", "model"}]
  /\ \A o \in Store : Collect(o) \in Store
BY DEF NoStore, Store, NoMem, NoModel, View, Collect

LEMMA FailsType ==
  ASSUME TypeOK, Fails
  PROVE  /\ used' \in [binds : Nat, fails : Nat, losses : Nat]
         /\ used'.losses = used.losses /\ used' # used
BY DEF TypeOK, Fails

LEMMA StoreSet ==
  ASSUME NEW o \in Store, NEW fins \in SUBSET {"store", "tuples", "model"},
         NEW id \in Ids \cup {0}, NEW m \in BOOLEAN, NEW g \in BOOLEAN
  PROVE  /\ [o EXCEPT !.fins = fins] \in Store
         /\ [o EXCEPT !.deleting = m] \in Store
         /\ [o EXCEPT !.id = id] \in Store
         /\ [o EXCEPT !.model = m] \in Store
         /\ [o EXCEPT !.managed = m] \in Store
         /\ [o EXCEPT !.id = id, !.model = m] \in Store
         /\ [o EXCEPT !.fins = fins, !.managed = m] \in Store
         /\ [o EXCEPT !.fins = fins, !.id = id, !.model = m, !.managed = g] \in Store
BY DEF Store

LEMMA FgaSet ==
  ASSUME TypeOK, NEW id \in Ids \cup {0}, Exists(id),
         NEW ms \in SUBSET {"core", "ext"}, NEW t \in BOOLEAN
  PROVE  /\ [fga EXCEPT ![id].modules = ms] \in [Ids -> FgaStore]
         /\ [fga EXCEPT ![id].tuples = t] \in [Ids -> FgaStore]
         /\ [fga EXCEPT ![id].state = "deleted"] \in [Ids -> FgaStore]
<1>1. id \in Ids /\ fga[id] \in FgaStore
  BY DEF Exists, TypeOK
<1>2. /\ [fga[id] EXCEPT !.modules = ms] \in FgaStore
      /\ [fga[id] EXCEPT !.tuples = t] \in FgaStore
      /\ [fga[id] EXCEPT !.state = "deleted"] \in FgaStore
  BY <1>1 DEF FgaStore
<1> QED
  BY <1>1, <1>2 DEF TypeOK

LEMMA StepType ==
  ASSUME TypeOK, NEW l \in {"model", "tuple", "storeFinalize", "patch"},
         NEW o \in Store, StoreStep(l, o), fga' \in [Ids -> FgaStore]
  PROVE  TypeOK'
<1>1. smem' \in [orig : Store, cur : Store, err : BOOLEAN]
  BY DEF StoreStep, TypeOK
<1> QED
  BY <1>1 DEF StoreStep, TypeOK, caches

LEMMA TypeController ==
  ASSUME TypeOK, StoreController
  PROVE  TypeOK'
<1> DEFINE cur == smem.cur
<1>1. /\ cur \in Store /\ smem.orig \in Store /\ store \in Store /\ seen \in Store
      /\ cur.id \in Ids \cup {0} /\ cur.fins \subseteq {"store", "tuples", "model"}
      /\ fga \in [Ids -> FgaStore]
  BY DEF TypeOK, Store
<1>2. CASE StoreStart
  <2>1. smem' \in [orig : Store, cur : Store, err : BOOLEAN]
    BY <1>1, <1>2 DEF StoreStart
  <2> QED
    BY <1>2, <2>1 DEF StoreStart, TypeOK, caches
<1>3. CASE StoreAddFinalizers
  <2>1. [store EXCEPT !.fins = cur.fins \cup Own] \in Store
    BY <1>1, StoreSet DEF Own
  <2>2. store' \in Store /\ spc' = "idle" /\ smem' = NoMem
    BY <1>1, <1>3, <2>1 DEF StoreAddFinalizers, StoreDone
  <2> QED
    BY <1>3, <2>2, ConstantTypes DEF StoreAddFinalizers, TypeOK, caches
<1>4. CASE storeProcess
  <2>1. fga' \in [Ids -> FgaStore]
    <3>1. \A id \in Ids : Created(id) \in [Ids -> FgaStore]
      <4>1. [state |-> "live", modules |-> {}, tuples |-> FALSE] \in FgaStore
        BY DEF FgaStore
      <4> QED
        BY <1>1, <4>1 DEF Created
    <3> QED
      BY <1>1, <1>4, <3>1 DEF storeProcess, FindOrCreate
  <2>2. \E o \in Store : StoreStep("model", o)
    BY <1>1, <1>4, StoreSet DEF storeProcess, Recreated
  <2> QED
    BY <2>1, <2>2, StepType
<1>5. CASE modelProcess
  <2>1. fga' \in [Ids -> FgaStore]
    <3>1. DesiredModules(cur) \in SUBSET {"core", "ext"}
      BY DEF DesiredModules
    <3> QED
      BY <1>1, <1>5, <3>1, FgaSet DEF modelProcess, Readable
  <2>2. \E o \in Store : StoreStep("tuple", o)
    BY <1>1, <1>5, StoreSet DEF modelProcess
  <2> QED
    BY <2>1, <2>2, StepType
<1>6. CASE tupleProcess
  <2>1. fga' \in [Ids -> FgaStore]
    BY <1>1, <1>6, FgaSet DEF tupleProcess, Apply
  <2>2. \E o \in Store : StoreStep("patch", o)
    BY <1>1, <1>6, StoreSet DEF tupleProcess
  <2> QED
    BY <2>1, <2>2, StepType
<1>7. CASE tupleFinalize
  <2>1. fga' \in [Ids -> FgaStore]
    BY <1>1, <1>7, FgaSet DEF tupleFinalize, Delete
  <2>2. \E o \in Store : StoreStep("storeFinalize", o)
    <3>1. [cur EXCEPT !.fins = cur.fins \ {"tuples"}, !.managed = FALSE] \in Store
      BY <1>1, StoreSet
    <3> QED
      BY <1>7, <3>1 DEF tupleFinalize
  <2> QED
    BY <2>1, <2>2, StepType
<1>8. CASE storeFinalize
  <2>1. fga' \in [Ids -> FgaStore]
    BY <1>1, <1>8, FgaSet DEF storeFinalize
  <2>2. \E o \in Store : StoreStep("patch", o)
    <3>1. [cur EXCEPT !.fins = cur.fins \ {"store"}] \in Store
      BY <1>1, StoreSet
    <3> QED
      BY <1>8, <3>1 DEF storeFinalize
  <2> QED
    BY <2>1, <2>2, StepType
<1>9. CASE StoreFails
  <2>1. used' \in [binds : Nat, fails : Nat, losses : Nat]
    BY <1>9, FailsType DEF StoreFails, TypeOK
  <2>2. smem' \in [orig : Store, cur : Store, err : BOOLEAN]
    BY <1>9 DEF StoreFails, TypeOK
  <2> QED
    BY <1>9, <2>1, <2>2 DEF StoreFails, TypeOK, caches
<1>10. CASE StorePatch
  <2> DEFINE from == smem.orig
             fins == IF cur.fins # from.fins THEN cur.fins ELSE store.fins
             id == IF cur.id # from.id THEN cur.id ELSE store.id
             model == IF cur.model # from.model THEN cur.model ELSE store.model
             managed == IF cur.managed # from.managed THEN cur.managed ELSE store.managed
             patched == [store EXCEPT !.fins = fins, !.id = id, !.model = model,
                                      !.managed = managed]
  <2>1. /\ fins \in SUBSET {"store", "tuples", "model"} /\ id \in Ids \cup {0}
        /\ model \in BOOLEAN /\ managed \in BOOLEAN
    BY <1>1 DEF Store
  <2>2. patched \in Store
    BY <1>1, <2>1 DEF Store
  <2>3. store' \in {store, Collect(patched)}
    BY <1>10 DEF StorePatch
  <2>4. store' \in Store /\ used' \in [binds : Nat, fails : Nat, losses : Nat]
    BY <1>1, <1>10, <2>2, <2>3, ConstantTypes, FailsType DEF StorePatch, TypeOK
  <2> QED
    BY <1>10, <2>4, ConstantTypes DEF StorePatch, StoreDone, TypeOK, caches
<1> QED
  BY <1>2, <1>3, <1>4, <1>5, <1>6, <1>7, <1>8, <1>9, <1>10 DEF StoreController

(* What a reservation, and taking it back, do to the Store.                *)
LEMMA Registers ==
  ASSUME store \in Store, NEW v, Register(v)
  PROVE  /\ store' \in Store
         /\ store' # store => ~store.deleting
         /\ store'.live = store.live /\ store'.deleting = store.deleting
         /\ store'.id = store.id /\ store'.managed = store.managed
<1>1. CASE store' = store
  BY <1>1
<1>2. CASE ~store.deleting /\ store' = [store EXCEPT !.fins = store.fins \cup {"model"}]
  BY <1>2 DEF Store
<1> QED
  BY <1>1, <1>2 DEF Register

LEMMA Deregisters ==
  ASSUME store \in Store, NEW v, Deregister(v)
  PROVE  /\ store' \in Store
         /\ store'.fins \subseteq store.fins
         /\ \/ store' = NoStore /\ store.deleting
            \/ /\ store'.live = store.live /\ store'.deleting = store.deleting
               /\ store'.id = store.id /\ store'.managed = store.managed
<1> DEFINE left == [store EXCEPT !.fins = store.fins \ {"model"}]
<1>1. CASE store' = store
  BY <1>1
<1>2. CASE store' = Collect(left)
  <2>1. /\ left \in Store /\ left.fins \subseteq store.fins
        /\ left.live = store.live /\ left.deleting = store.deleting
        /\ left.id = store.id /\ left.managed = store.managed
    BY DEF Store
  <2> HIDE DEF left
  <2> QED
    BY <1>2, <2>1, ConstantTypes DEF Collect, NoStore
<1> QED
  BY <1>1, <1>2 DEF Deregister

LEMMA TypeOthers ==
  ASSUME TypeOK,
         \/ Initialize \/ Terminate \/ ModelController
         \/ \E b \in Bindings : Generator(b) \/ Bind(b) \/ Unbind(b)
         \/ DeleteOrg \/ SyncOperator \/ SyncGenerator \/ OperatorCrash
         \/ \E id \in Ids : Lose(id)
  PROVE  TypeOK'
<1> USE DEF caches, storeWorker
<1>1. CASE Initialize
  <2>1. [NoStore EXCEPT !.live = TRUE] \in Store
    BY DEF NoStore, Store
  <2> QED
    BY <1>1, <2>1 DEF Initialize, TypeOK
<1>2. CASE Terminate
  <2>1. Collect([store EXCEPT !.deleting = TRUE]) \in Store
    BY StoreSet, ConstantTypes DEF TypeOK
  <2> QED
    BY <1>2, <2>1 DEF Terminate, TypeOK
<1>3. CASE ModelController
  <2>1. CASE ModelAddFinalizer
    BY <2>1 DEF ModelAddFinalizer, TypeOK
  <2>2. CASE ModelFinalize
    <3>1. store' \in Store
      BY <2>2, Deregisters DEF ModelFinalize, TypeOK
    <3> QED
      BY <2>2, <3>1, ConstantTypes DEF ModelFinalize, TypeOK
  <2> QED
    BY <1>3, <2>1, <2>2 DEF ModelController
<1>4. ASSUME NEW b \in Bindings, Generator(b)
      PROVE  TypeOK'
  <2>1. CASE GeneratorAddFinalizer(b) \/ GeneratorCount(b) \/ GeneratorRelease(b)
    BY <2>1 DEF GeneratorAddFinalizer, GeneratorCount, GeneratorRelease, TypeOK
  <2>2. CASE GeneratorCreate(b)
    <3>1. am' \in [live : BOOLEAN, deleting : BOOLEAN, fin : BOOLEAN]
      BY <2>2 DEF GeneratorCreate, TypeOK
    <3> QED
      BY <2>2, <3>1 DEF GeneratorCreate, TypeOK
  <2>3. CASE GeneratorReserve(b)
    BY <2>3, Registers DEF GeneratorReserve, TypeOK
  <2>4. CASE GeneratorFails(b)
    BY <2>4, FailsType DEF GeneratorFails, TypeOK
  <2>5. CASE GeneratorDelete(b)
    <3>1. store' \in Store
      BY <2>5, Deregisters DEF GeneratorDelete, TypeOK
    <3>2. am' \in [live : BOOLEAN, deleting : BOOLEAN, fin : BOOLEAN]
      <4>1. [am EXCEPT !.deleting = TRUE] \in [live : BOOLEAN, deleting : BOOLEAN, fin : BOOLEAN]
        BY DEF TypeOK
      <4>2. am' \in {am, NoModel, [am EXCEPT !.deleting = TRUE]}
        BY <2>5 DEF GeneratorDelete
      <4> QED
        BY <4>1, <4>2, ConstantTypes DEF TypeOK
    <3> QED
      BY <2>5, <3>1, <3>2 DEF GeneratorDelete, TypeOK
  <2> QED
    BY <1>4, <2>1, <2>2, <2>3, <2>4, <2>5 DEF Generator
<1>5. ASSUME NEW b \in Bindings, Bind(b) \/ Unbind(b)
      PROVE  TypeOK'
  BY <1>5 DEF Bind, Unbind, TypeOK
<1>6. CASE DeleteOrg \/ SyncOperator \/ SyncGenerator
  BY <1>6, ConstantTypes DEF DeleteOrg, SyncOperator, SyncGenerator, TypeOK
<1>7. CASE OperatorCrash
  BY <1>7, FailsType, ConstantTypes DEF OperatorCrash, TypeOK
<1>8. ASSUME NEW id \in Ids, Lose(id)
      PROVE  TypeOK'
  BY <1>8 DEF Lose, TypeOK, FgaStore
<1> QED
  BY <1>1, <1>2, <1>3, <1>4, <1>5, <1>6, <1>7, <1>8

LEMMA TypeStep == TypeOK /\ [Next]_vars => TypeOK'
<1> SUFFICES ASSUME TypeOK, [Next]_vars
             PROVE  TypeOK'
  OBVIOUS
<1>1. CASE UNCHANGED vars
  BY <1>1 DEF vars, caches, storeWorker, TypeOK
<1>2. CASE Next
  BY <1>2, TypeController, TypeOthers DEF Next
<1> QED
  BY <1>1, <1>2

LEMMA TypeInit == Init => TypeOK
BY ConstantTypes DEF Init, TypeOK, FgaStore

(* The Store, its caches, OpenFGA and the workers keep their types.        *)
THEOREM OrgStoreTypeCorrect == Spec => []TypeOK
BY TypeInit, TypeStep, PTL DEF Spec

-----------------------------------------------------------------------------
(* Deletion and reservations.                                              *)

(* What shows the deletion shows every finalizer that is left: none comes  *)
(* to an object that is being deleted, and none is made anew.              *)
Shows(o) ==
  o.deleting =>
    /\ org \in {"terminating", "gone"}
    /\ store.live => store.deleting
    /\ store.fins \subseteq o.fins

DeletionInv ==
  /\ TypeOK
  /\ ~store.live => store = NoStore
  /\ Shows(store) /\ Shows(seen) /\ Shows(smem.orig)
  /\ spc \in {"tupleFinalize", "storeFinalize"} => smem.orig.deleting
  /\ spc = "tupleFinalize" => smem.cur.fins = smem.orig.fins
  /\ spc = "storeFinalize" => smem.cur.fins = smem.orig.fins \ {"tuples"}

(* A deletion that was seen stays true while finalizers only leave.        *)
LEMMA ShowsKept ==
  ASSUME NEW o, Shows(o),
         org \in {"terminating", "gone"} => org' \in {"terminating", "gone"},
         \/ store' = store
         \/ store' = NoStore
         \/ store.live /\ ~store.deleting
         \/ store.live /\ store'.live /\ store'.deleting /\ store'.fins \subseteq store.fins
  PROVE  o.deleting => /\ org' \in {"terminating", "gone"}
                       /\ store'.live => store'.deleting
                       /\ store'.fins \subseteq o.fins
BY DEF Shows, NoStore

(* A list replaces the finalizers, unless the API server refuses it.       *)
LEMMA DeletionWorker ==
  ASSUME DeletionInv, StoreAddFinalizers \/ StorePatch
  PROVE  DeletionInv'
<1> DEFINE cur == smem.cur
<1>1. TypeOK' /\ store \in Store /\ cur \in Store /\ smem.orig \in Store
  BY TypeController DEF DeletionInv, StoreController, TypeOK
<1>2. /\ UNCHANGED <<org, seen>> /\ smem' = NoMem /\ spc' = "idle"
  BY DEF StoreAddFinalizers, StorePatch, StoreDone, caches
<1>3. /\ ~store'.live => store' = NoStore
      /\ Shows(store)'
      /\ \/ store' = store
         \/ store' = NoStore
         \/ store.live /\ ~store.deleting
         \/ store.live /\ store'.live /\ store'.deleting /\ store'.fins \subseteq store.fins
  <2>1. CASE StoreAddFinalizers
    <3>1. \/ store' = store
          \/ /\ store.live /\ (store.deleting => cur.fins \cup Own \subseteq store.fins)
             /\ store' = [store EXCEPT !.fins = cur.fins \cup Own]
      BY <2>1 DEF StoreAddFinalizers
    <3>2. CASE store' = store
      BY <1>2, <3>2 DEF DeletionInv, Shows
    <3>3. CASE /\ store.live /\ (store.deleting => cur.fins \cup Own \subseteq store.fins)
               /\ store' = [store EXCEPT !.fins = cur.fins \cup Own]
      <4>1. /\ store.live /\ store'.live /\ store'.deleting = store.deleting
            /\ store.deleting => store'.fins \subseteq store.fins
        BY <1>1, <3>3 DEF Store
      <4> QED
        BY <1>1, <1>2, <4>1 DEF DeletionInv, Shows
    <3> QED
      BY <3>1, <3>2, <3>3
  <2>2. CASE StorePatch
    <3> DEFINE from == smem.orig
               fins == IF cur.fins # from.fins THEN cur.fins ELSE store.fins
               patched == [store EXCEPT
                 !.fins = fins,
                 !.id = IF cur.id # from.id THEN cur.id ELSE @,
                 !.model = IF cur.model # from.model THEN cur.model ELSE @,
                 !.managed = IF cur.managed # from.managed THEN cur.managed ELSE @]
    <3>1. \/ store' = store
          \/ /\ store.live /\ (store.deleting => fins \subseteq store.fins)
             /\ store' = Collect(patched)
      BY <2>2 DEF StorePatch
    <3>2. patched.live = store.live /\ patched.deleting = store.deleting /\ patched.fins = fins
      BY <1>1 DEF Store
    <3> HIDE DEF patched, fins
    <3>3. \/ store' = store
          \/ store.live /\ store' = NoStore /\ store.deleting
          \/ /\ store.live /\ store'.live /\ store'.deleting = store.deleting
             /\ store.deleting => store'.fins \subseteq store.fins
      BY <3>1, <3>2 DEF Collect
    <3>4. CASE store' \in {store, NoStore}
      BY <1>2, <3>4 DEF DeletionInv, Shows, NoStore
    <3>5. CASE /\ store.live /\ store'.live /\ store'.deleting = store.deleting
               /\ store.deleting => store'.fins \subseteq store.fins
      BY <1>1, <1>2, <3>5 DEF DeletionInv, Shows
    <3> QED
      BY <3>3, <3>4, <3>5
  <2> QED
    BY <2>1, <2>2
<1>4. Shows(seen)'
  BY <1>2, <1>3, ShowsKept DEF DeletionInv, Shows
<1>5. Shows(smem.orig)'
  BY <1>2 DEF NoMem, NoStore, Shows
<1> QED
  BY <1>1, <1>2, <1>3, <1>4, <1>5 DEF DeletionInv

LEMMA DeletionChain ==
  ASSUME DeletionInv,
         \/ StoreStart \/ storeProcess \/ modelProcess \/ tupleProcess
         \/ tupleFinalize \/ storeFinalize \/ StoreFails
  PROVE  DeletionInv'
<1>1. TypeOK' /\ seen \in Store /\ smem \in [orig : Store, cur : Store, err : BOOLEAN]
  BY TypeController DEF DeletionInv, StoreController, TypeOK
<1>2. UNCHANGED <<org, store, seen>>
  BY DEF StoreStart, storeProcess, modelProcess, tupleProcess, tupleFinalize,
         storeFinalize, StoreFails, StoreStep, caches
<1>3. CASE StoreStart
  BY <1>1, <1>2, <1>3 DEF StoreStart, DeletionInv, Shows
<1>4. CASE storeProcess \/ modelProcess \/ tupleProcess \/ storeFinalize \/ StoreFails
  <2>1. smem'.orig = smem.orig /\ spc' \in {"model", "tuple", "patch"}
    BY <1>1, <1>4 DEF storeProcess, modelProcess, tupleProcess, storeFinalize, StoreFails,
                      StoreStep
  <2> QED
    BY <1>1, <1>2, <2>1 DEF DeletionInv, Shows
<1>5. CASE tupleFinalize
  <2>1. /\ smem'.orig = smem.orig /\ spc' = "storeFinalize" /\ spc = "tupleFinalize"
        /\ smem'.cur.fins = smem.cur.fins \ {"tuples"}
    BY <1>1, <1>5 DEF tupleFinalize, StoreStep, Store
  <2> QED
    BY <1>1, <1>2, <2>1 DEF DeletionInv, Shows
<1> QED
  BY <1>3, <1>4, <1>5

LEMMA DeletionOthers ==
  ASSUME DeletionInv,
         \/ Initialize \/ Terminate \/ ModelController
         \/ \E b \in Bindings : Generator(b) \/ Bind(b) \/ Unbind(b)
         \/ DeleteOrg \/ SyncOperator \/ SyncGenerator \/ OperatorCrash
         \/ \E id \in Ids : Lose(id)
  PROVE  DeletionInv'
<1> USE DEF caches, storeWorker
<1>1. TypeOK' /\ store \in Store
  BY TypeOthers DEF DeletionInv, TypeOK
<1>2. CASE Initialize
  <2>1. /\ org = "initializing" /\ UNCHANGED <<seen, spc, smem>>
        /\ ~seen.deleting /\ ~smem.orig.deleting /\ ~store.deleting
    BY <1>2 DEF Initialize, DeletionInv, Shows
  <2>2. store'.live /\ ~store'.deleting
    BY <1>2, <2>1 DEF Initialize, StoreReady, NoStore
  <2> QED
    BY <1>1, <2>1, <2>2 DEF DeletionInv, Shows
<1>3. CASE Terminate
  <2>1. /\ UNCHANGED <<seen, spc, smem>>
        /\ org = "terminating" /\ org' \in {"terminating", "gone"}
    BY <1>3 DEF Terminate
  <2>2. CASE store' = store
    BY <1>1, <2>1, <2>2 DEF DeletionInv, Shows
  <2>3. CASE /\ store.live /\ ~store.deleting
             /\ store' = Collect([store EXCEPT !.deleting = TRUE])
    <3>1. ~seen.deleting /\ ~smem.orig.deleting
      BY <2>3 DEF DeletionInv, Shows
    <3>2. store'.live \/ store' = NoStore
      BY <1>1, <2>3 DEF Collect, Store
    <3>3. store'.live => store'.deleting
      BY <1>1, <2>3 DEF Collect, Store, NoStore
    <3> QED
      BY <1>1, <2>1, <3>1, <3>2, <3>3 DEF DeletionInv, Shows, NoStore
  <2> QED
    BY <1>3, <2>2, <2>3 DEF Terminate
<1>4. ASSUME UNCHANGED <<org, seen, spc, smem>>,
             \E v : Register(v) \/ Deregister(v)
      PROVE  DeletionInv'
  <2>1. \/ store' = store
        \/ store' = NoStore
        \/ ~store.deleting /\ ~store'.deleting /\ store'.live = store.live /\ store.live
        \/ /\ store.live /\ store'.live /\ store.deleting /\ store'.deleting
           /\ store'.fins \subseteq store.fins
    <3>1. CASE \E v : Register(v)
      <4>1. store.live \/ store' = store
        BY <3>1 DEF Register, View, DeletionInv, NoStore, Store
      <4> QED
        BY <1>1, <3>1, <4>1, Registers
    <3>2. CASE \E v : Deregister(v)
      <4>1. store.live \/ store' = store
        BY <3>2 DEF Deregister, View, DeletionInv, NoStore, Store
      <4> QED
        BY <1>1, <3>2, <4>1, Deregisters DEF Store
    <3> QED
      BY <1>4, <3>1, <3>2
  <2>2. Shows(seen)' /\ Shows(smem.orig)'
    BY <1>4, <2>1, ShowsKept DEF DeletionInv, Shows
  <2>3. Shows(store)' /\ (~store'.live => store' = NoStore)
    BY <1>4, <2>1 DEF DeletionInv, Shows, NoStore
  <2> QED
    BY <1>1, <1>4, <2>2, <2>3 DEF DeletionInv
<1>5. ASSUME UNCHANGED <<org, store, seen, spc, smem>>
      PROVE  DeletionInv'
  BY <1>1, <1>5 DEF DeletionInv, Shows
<1>6. CASE ModelController
  BY <1>4, <1>5, <1>6 DEF ModelController, ModelAddFinalizer, ModelFinalize
<1>7. ASSUME NEW b \in Bindings, Generator(b)
      PROVE  DeletionInv'
  <2>1. CASE \/ GeneratorAddFinalizer(b) \/ GeneratorCreate(b) \/ GeneratorFails(b)
             \/ GeneratorCount(b) \/ GeneratorRelease(b)
    BY <1>5, <2>1 DEF GeneratorAddFinalizer, GeneratorCreate, GeneratorFails,
                      GeneratorCount, GeneratorRelease
  <2>2. CASE GeneratorReserve(b)
    BY <1>4, <2>2 DEF GeneratorReserve
  <2>3. CASE GeneratorDelete(b)
    BY <1>4, <1>5, <2>3 DEF GeneratorDelete
  <2> QED
    BY <1>7, <2>1, <2>2, <2>3 DEF Generator
<1>8. ASSUME NEW b \in Bindings, Bind(b) \/ Unbind(b)
      PROVE  DeletionInv'
  BY <1>5, <1>8 DEF Bind, Unbind
<1>9. CASE DeleteOrg
  BY <1>1, <1>9 DEF DeleteOrg, DeletionInv, Shows
<1>10. CASE SyncOperator
  BY <1>1, <1>10 DEF SyncOperator, DeletionInv, Shows
<1>11. CASE SyncGenerator
  BY <1>5, <1>11 DEF SyncGenerator
<1>12. CASE OperatorCrash
  BY <1>1, <1>12 DEF OperatorCrash, DeletionInv, Shows, NoMem, NoStore
<1>13. ASSUME NEW id \in Ids, Lose(id)
       PROVE  DeletionInv'
  BY <1>5, <1>13 DEF Lose
<1> QED
  BY <1>2, <1>3, <1>6, <1>7, <1>8, <1>9, <1>10, <1>11, <1>12, <1>13

LEMMA DeletionStep == DeletionInv /\ [Next]_vars => DeletionInv'
<1> SUFFICES ASSUME DeletionInv, [Next]_vars
             PROVE  DeletionInv'
  OBVIOUS
<1>1. CASE UNCHANGED vars
  BY <1>1, TypeStep DEF vars, caches, storeWorker, DeletionInv, Shows
<1>2. CASE Next
  BY <1>2, DeletionWorker, DeletionChain, DeletionOthers DEF Next, StoreController
<1> QED
  BY <1>1, <1>2

LEMMA DeletionInit == Init => DeletionInv
BY TypeInit DEF Init, DeletionInv, Shows, NoStore, NoMem

(* The operator deletes an OpenFGA store only while no reservation is on   *)
(* the Store, however old the version is that it looks at.                 *)
THEOREM ReservationHonoured == Spec => DeletionHonoursReservation
<1> DEFINE Honours ==
      \A id \in Ids :
        spc = "storeFinalize" /\ Exists(id) /\ fga'[id].state = "deleted" /\ used' = used
          => "model" \notin store.fins
<1>1. ASSUME DeletionInv, [Next]_vars
      PROVE  [Honours]_vars
  <2>1. SUFFICES ASSUME Next, NEW id \in Ids, spc = "storeFinalize", Exists(id),
                        fga'[id].state = "deleted", used' = used
                 PROVE  "model" \notin store.fins
    BY <1>1
  <2>2. storeFinalize
    <3>1. fga' # fga
      BY <2>1 DEF Exists
    <3>2. ~ \E i \in Ids : Lose(i)
      BY <1>1, <2>1 DEF Lose, DeletionInv, TypeOK
    <3> QED
      BY <2>1, <3>1, <3>2
         DEF Next, Initialize, Terminate, StoreController, StoreStart, StoreAddFinalizers,
             storeProcess, modelProcess, tupleProcess, tupleFinalize, StoreFails, StorePatch,
             ModelController, ModelAddFinalizer, ModelFinalize, Generator,
             GeneratorAddFinalizer, GeneratorReserve, GeneratorCreate, GeneratorFails,
             GeneratorCount, GeneratorDelete, GeneratorRelease, Bind, Unbind, DeleteOrg,
             SyncOperator, SyncGenerator, OperatorCrash 
  <2>3. Exists(smem.cur.id)
    BY <2>1, <2>2 DEF storeFinalize, Exists
  <2>4. "model" \notin smem.cur.fins
    BY <2>2, <2>3 DEF storeFinalize, Exists, Reserved
  <2> QED
    BY <1>1, <2>1, <2>4 DEF DeletionInv, Shows
<1> QED
  BY <1>1, DeletionInit, DeletionStep, PTL DEF Spec, DeletionHonoursReservation

-----------------------------------------------------------------------------
(* What an org needs from OpenFGA before it is ready.                      *)

(* OpenFGA has a store with the model and the tuples.                      *)
Served == \E id \in Ids : Exists(id) /\ fga[id].tuples /\ "core" \in fga[id].modules

(* A version of the Store names and claims only what is there.             *)
Truthful(o) ==
  /\ o.id # 0 => Exists(o.id)
  /\ o.managed => Served

(* As long as nothing is lost or deleted there is one OpenFGA store at     *)
(* most: the next one is only created while there is none.                 *)
AuthorizedOk ==
  /\ \A i, j \in Ids : Exists(i) /\ Exists(j) => i = j
  /\ Truthful(store) /\ Truthful(seen) /\ Truthful(smem.orig) /\ Truthful(smem.cur)
  /\ spc = "tuple" => Exists(smem.cur.id) /\ "core" \in fga[smem.cur.id].modules

Undisturbed == org = "initializing" /\ used.losses = 0

AuthorizedInv == DeletionInv /\ (Undisturbed => AuthorizedOk)

LEMMA UndisturbedBefore ==
  ASSUME TypeOK, Next, Undisturbed'
  PROVE  Undisturbed /\ ~ \E id \in Ids : Lose(id)
<1>1. /\ ~ \E id \in Ids : Lose(id)
      /\ used.losses \in Nat
  BY DEF Lose, Undisturbed, TypeOK
<1>2. used'.losses = used.losses
  BY <1>1, FailsType
     DEF Next, Initialize, Terminate, StoreController, StoreStart, StoreAddFinalizers,
         storeProcess, modelProcess, tupleProcess, tupleFinalize, storeFinalize, StoreFails,
         StorePatch, StoreStep, ModelController, ModelAddFinalizer, ModelFinalize, Generator,
         GeneratorAddFinalizer, GeneratorReserve, GeneratorCreate, GeneratorFails,
         GeneratorCount, GeneratorDelete, GeneratorRelease, Bind, Unbind, DeleteOrg,
         SyncOperator, SyncGenerator, OperatorCrash, TypeOK
<1>3. org = "initializing"
  BY DEF Undisturbed, Next, Initialize, Terminate, StoreController, StoreStart,
         StoreAddFinalizers, storeProcess, modelProcess, tupleProcess, tupleFinalize,
         storeFinalize, StoreFails, StorePatch, StoreStep, ModelController, ModelAddFinalizer,
         ModelFinalize, Generator, GeneratorAddFinalizer, GeneratorReserve, GeneratorCreate,
         GeneratorFails, GeneratorCount, GeneratorDelete, GeneratorRelease, Bind, Unbind,
         DeleteOrg, SyncOperator, SyncGenerator, OperatorCrash, Lose
<1> QED
  BY <1>1, <1>2, <1>3 DEF Undisturbed

(* The Store's chain on an org that is initialized.                        *)
LEMMA AuthorizedChain ==
  ASSUME DeletionInv, AuthorizedOk, org = "initializing",
         \/ storeProcess \/ modelProcess \/ tupleProcess
         \/ tupleFinalize \/ storeFinalize \/ StoreFails
  PROVE  AuthorizedOk'
<1> DEFINE cur == smem.cur
<1>1. /\ cur \in Store /\ smem \in [orig : Store, cur : Store, err : BOOLEAN]
      /\ fga \in [Ids -> FgaStore] /\ cur.id \in Ids \cup {0} /\ store \in Store
      /\ seen \in Store /\ smem.orig \in Store
  BY DEF DeletionInv, TypeOK, Store
<1>2. ~tupleFinalize /\ ~storeFinalize
  BY DEF DeletionInv, Shows, tupleFinalize, storeFinalize
<1>3. CASE storeProcess /\ fga' = fga
  <2>1. /\ UNCHANGED <<store, seen, fga>> /\ smem'.orig = smem.orig /\ spc' = "model"
        /\ smem'.cur.managed = cur.managed
        /\ smem'.cur.id # 0 => Exists(smem'.cur.id)
    <3>1. CASE Exists(cur.id)
      BY <1>1, <1>3, <3>1 DEF storeProcess, StoreStep, caches
    <3>2. CASE ~Exists(cur.id)
      <4>1. cur.id = 0
        BY <3>2 DEF AuthorizedOk, Truthful
      <4>2. PICK id \in Ids : /\ FindOrCreate(cur, id)
                              /\ StoreStep("model", [cur EXCEPT !.id = id])
        BY <1>3, <3>2, <4>1 DEF storeProcess
      <4>3. Exists(id)
        <5>1. CASE \E i \in Ids : Exists(i)
          <6>1. PICK i \in Ids : Exists(i)
            BY <5>1
          <6>2. {j \in Ids : Exists(j)} = {i}
            BY <6>1 DEF AuthorizedOk
          <6>3. id = Least({i})
            BY <4>1, <4>2, <6>2 DEF FindOrCreate
          <6>4. id = i
            BY <6>3 DEF Least, Ids
          <6> QED
            BY <6>1, <6>4
        <5>2. CASE ~ \E i \in Ids : Exists(i)
          <6>1. fga' = Created(id)
            BY <4>2, <5>2 DEF FindOrCreate
          <6> QED
            BY <1>1, <1>3, <6>1 DEF Created, Exists, Ids
        <5> QED
          BY <5>1, <5>2
      <4> QED
        BY <1>1, <1>3, <4>2, <4>3 DEF StoreStep, Store, caches
    <3> QED
      BY <3>1, <3>2
  <2> QED
    BY <2>1 DEF AuthorizedOk, Truthful, Exists, Served
<1>4. CASE storeProcess /\ fga' # fga
  <2>1. ~Exists(cur.id)
    BY <1>4 DEF storeProcess
  <2>2. cur.id = 0
    BY <2>1 DEF AuthorizedOk, Truthful
  <2>3. PICK id \in Ids : /\ FindOrCreate(cur, id)
                          /\ StoreStep("model", [cur EXCEPT !.id = id])
    BY <1>4, <2>1, <2>2 DEF storeProcess
  <2>4. /\ fga' = Created(id)
        /\ \A i \in Ids : ~Exists(i)
    BY <1>4, <2>2, <2>3 DEF FindOrCreate
  <2>5. /\ fga'[id].state = "live" /\ id # 0
        /\ \A i \in Ids : i # id => fga'[i] = fga[i]
    BY <1>1, <2>4 DEF Created, Ids
  <2>6. \A o \in Store : Truthful(o) => o.id = 0 /\ ~o.managed
    BY <2>4 DEF Truthful, Served, Store
  <2>7. \A i, j \in Ids : Exists(i)' /\ Exists(j)' => i = j
    BY <2>4, <2>5 DEF Exists
  <2>8. /\ UNCHANGED <<store, seen>> /\ smem'.orig = smem.orig /\ spc' = "model"
        /\ smem'.cur.managed = cur.managed /\ smem'.cur.id = id
    BY <1>1, <2>3 DEF StoreStep, Store, caches
  <2> QED
    BY <1>1, <2>5, <2>6, <2>7, <2>8 DEF AuthorizedOk, Truthful, Exists
<1>5. CASE modelProcess
  <2>1. /\ UNCHANGED <<store, seen>> /\ smem'.orig = smem.orig /\ spc' = "tuple"
        /\ smem'.cur.managed = cur.managed /\ smem'.cur.id = cur.id
        /\ Exists(cur.id) /\ cur.id \in Ids
    BY <1>1, <1>5 DEF modelProcess, Readable, StoreStep, Store, caches, Exists
  <2>2. /\ \A i \in Ids : /\ fga'[i].state = fga[i].state
                          /\ fga'[i].tuples = fga[i].tuples
                          /\ "core" \in fga[i].modules => "core" \in fga'[i].modules
        /\ "core" \in fga'[cur.id].modules
    <3>1. fga' = [fga EXCEPT ![cur.id].modules = DesiredModules(cur)]
      BY <1>5 DEF modelProcess
    <3> QED
      BY <1>1, <2>1, <3>1 DEF DesiredModules, FgaStore
  <2>3. (\A i \in Ids : Exists(i)' <=> Exists(i)) /\ (Served => Served')
    BY <2>2 DEF Exists, Served
  <2> QED
    BY <1>1, <2>1, <2>2, <2>3 DEF AuthorizedOk, Truthful, Store
<1>6. CASE tupleProcess
  <2>1. /\ UNCHANGED <<store, seen>> /\ smem'.orig = smem.orig /\ spc' = "patch"
        /\ smem'.cur.id = cur.id
        /\ Exists(cur.id) /\ cur.id \in Ids /\ "core" \in fga[cur.id].modules
    BY <1>1, <1>6 DEF tupleProcess, Apply, StoreStep, Store, caches, Exists, AuthorizedOk
  <2>2. /\ \A i \in Ids : /\ fga'[i].state = fga[i].state
                          /\ fga'[i].modules = fga[i].modules
                          /\ fga[i].tuples => fga'[i].tuples
        /\ fga'[cur.id].tuples
    <3>1. fga' = [fga EXCEPT ![cur.id].tuples = TRUE]
      BY <1>6 DEF tupleProcess, Apply
    <3> QED
      BY <1>1, <2>1, <3>1 DEF FgaStore
  <2>3. (\A i \in Ids : Exists(i)' <=> Exists(i)) /\ Served'
    BY <2>1, <2>2 DEF Exists, Served
  <2> QED
    BY <1>1, <2>1, <2>3 DEF AuthorizedOk, Truthful, Store
<1>7. CASE StoreFails
  <2>1. UNCHANGED <<store, seen, fga>> /\ smem'.orig = smem.orig /\ smem'.cur = cur
        /\ spc' = "patch"
    BY <1>1, <1>7 DEF StoreFails, caches
  <2> QED
    BY <2>1 DEF AuthorizedOk, Truthful, Exists, Served
<1> QED
  BY <1>2, <1>3, <1>4, <1>5, <1>6, <1>7

LEMMA AuthorizedOthers ==
  ASSUME DeletionInv, AuthorizedOk, Next, UNCHANGED fga,
         ~(storeProcess \/ modelProcess \/ tupleProcess \/ tupleFinalize \/ storeFinalize
           \/ StoreFails)
  PROVE  AuthorizedOk'
<1> USE DEF caches, storeWorker
<1>1. /\ store \in Store /\ smem \in [orig : Store, cur : Store, err : BOOLEAN]
  BY DEF DeletionInv, TypeOK
<1>2. Truthful(NoStore)
  BY DEF Truthful, NoStore
<1> DEFINE StillTruthful ==
      /\ Truthful(store)'
      /\ Truthful(seen)'
      /\ Truthful(smem.orig)'
      /\ Truthful(smem.cur)'
      /\ spc' # "tuple" \/ UNCHANGED <<spc, smem>>
<1>3. NoStore.id = 0 /\ NoStore.managed = FALSE
  BY DEF NoStore
<1>4. StillTruthful
  <2>1. Served' = Served /\ \A id : Exists(id)' = Exists(id)
    BY DEF Served, Exists
  <2>2. \A o : Truthful(o) => /\ o.id # 0 => Exists(o.id)'
                              /\ o.managed => Served'
    BY <2>1 DEF Truthful
  <2>3. ASSUME store'.id \in {store.id, smem.cur.id, 0},
               store'.managed \in {store.managed, smem.cur.managed, FALSE}
        PROVE  Truthful(store)'
    BY <2>1, <2>3 DEF AuthorizedOk, Truthful
  <2>4. ASSUME UNCHANGED <<seen, spc, smem>>, \E v : Register(v) \/ Deregister(v)
        PROVE  StillTruthful
    <3>1. /\ store'.id \in {store.id, 0}
          /\ store'.managed \in {store.managed, FALSE}
      <4>1. PICK v : Register(v) \/ Deregister(v)
        BY <2>4
      <4>2. CASE Register(v)
        BY <1>1, <4>2, Registers
      <4>3. CASE Deregister(v)
        BY <1>1, <1>3, <4>3, Deregisters
      <4> QED
        BY <4>1, <4>2, <4>3
    <3> QED
      BY <2>2, <2>3, <2>4, <3>1 DEF AuthorizedOk, Truthful
  <2>5. CASE UNCHANGED <<store, seen, spc, smem>>
    BY <2>2, <2>5 DEF AuthorizedOk, Truthful
  <2>6. CASE Initialize \/ Terminate
    <3>1. UNCHANGED <<seen, spc, smem>>
      BY <2>6 DEF Initialize, Terminate
    <3>2. store'.id \in {store.id, 0} /\ store'.managed \in {store.managed, FALSE}
      <4>1. CASE Initialize
        BY <4>1 DEF Initialize, NoStore
      <4>2. CASE Terminate
        <5>1. store' \in {store, NoStore, [store EXCEPT !.deleting = TRUE]}
          BY <4>2 DEF Terminate, Collect
        <5> QED
          BY <1>1, <1>3, <5>1 DEF Store
      <4> QED
        BY <2>6, <4>1, <4>2
    <3> QED
      BY <2>2, <2>3, <3>1, <3>2 DEF AuthorizedOk, Truthful
  <2>7. CASE StoreStart
    BY <2>2, <2>7 DEF StoreStart, AuthorizedOk, Truthful
  <2>8. CASE StoreAddFinalizers
    <3>1. /\ UNCHANGED seen /\ smem' = NoMem /\ spc' = "idle"
          /\ store'.id = store.id /\ store'.managed = store.managed
      BY <1>1, <2>8 DEF StoreAddFinalizers, StoreDone, Store
    <3> QED
      BY <1>2, <2>2, <2>3, <3>1 DEF AuthorizedOk, Truthful, NoMem
  <2>9. CASE StorePatch
    <3> DEFINE cur == smem.cur
               from == smem.orig
               fins == IF cur.fins # from.fins THEN cur.fins ELSE store.fins
               patched == [store EXCEPT
                 !.fins = fins,
                 !.id = IF cur.id # from.id THEN cur.id ELSE @,
                 !.model = IF cur.model # from.model THEN cur.model ELSE @,
                 !.managed = IF cur.managed # from.managed THEN cur.managed ELSE @]
    <3>1. /\ UNCHANGED seen /\ smem' = NoMem /\ spc' = "idle"
          /\ store' = store \/ store' = Collect(patched)
      BY <2>9 DEF StorePatch, StoreDone
    <3>2. patched.id \in {store.id, cur.id} /\ patched.managed \in {store.managed, cur.managed}
      BY <1>1 DEF Store
    <3> HIDE DEF patched
    <3>3. /\ store'.id \in {store.id, cur.id, 0}
          /\ store'.managed \in {store.managed, cur.managed, FALSE}
      <4>1. store' \in {store, NoStore, patched}
        BY <3>1 DEF Collect
      <4> QED
        BY <1>3, <3>2, <4>1
    <3> QED
      BY <1>2, <2>2, <2>3, <3>1, <3>3 DEF AuthorizedOk, Truthful, NoMem
  <2>10. CASE SyncOperator \/ OperatorCrash
    <3>1. /\ UNCHANGED store /\ seen' = store
          /\ UNCHANGED <<spc, smem>> \/ (spc' = "idle" /\ smem' = NoMem)
      BY <2>10 DEF SyncOperator, OperatorCrash
    <3> QED
      BY <1>2, <2>2, <3>1 DEF AuthorizedOk, Truthful, NoMem
  <2>11. CASE ModelController \/ \E b \in Bindings : Generator(b) \/ Bind(b) \/ Unbind(b)
    <3>1. /\ UNCHANGED <<seen, spc, smem>>
          /\ UNCHANGED store \/ \E v : Register(v) \/ Deregister(v)
      BY <2>11 DEF ModelController, ModelAddFinalizer, ModelFinalize, Generator,
                   GeneratorAddFinalizer, GeneratorReserve, GeneratorCreate, GeneratorFails,
                   GeneratorCount, GeneratorDelete, GeneratorRelease, Bind, Unbind
    <3> QED
      BY <2>4, <2>5, <3>1
  <2>12. CASE DeleteOrg \/ SyncGenerator \/ \E id \in Ids : Lose(id)
    BY <2>5, <2>12 DEF DeleteOrg, SyncGenerator, Lose
  <2> QED
    BY <2>6, <2>7, <2>8, <2>9, <2>10, <2>11, <2>12 DEF Next, StoreController
<1> QED
  BY <1>4 DEF AuthorizedOk, Exists

LEMMA AuthorizedStep == AuthorizedInv /\ [Next]_vars => AuthorizedInv'
<1> SUFFICES ASSUME AuthorizedInv, [Next]_vars, Undisturbed'
             PROVE  AuthorizedOk'
  BY DeletionStep DEF AuthorizedInv
<1>1. CASE UNCHANGED vars
  BY <1>1 DEF vars, caches, storeWorker, AuthorizedInv, Undisturbed, AuthorizedOk, Truthful,
              Served, Exists
<1>2. CASE Next
  <2>1. /\ DeletionInv /\ AuthorizedOk /\ org = "initializing"
        /\ ~ \E id \in Ids : Lose(id)
    BY <1>2, UndisturbedBefore DEF AuthorizedInv, DeletionInv, Undisturbed
  <2>2. CASE storeProcess \/ modelProcess \/ tupleProcess \/ tupleFinalize \/ storeFinalize
             \/ StoreFails
    BY <2>1, <2>2, AuthorizedChain
  <2>3. CASE ~(storeProcess \/ modelProcess \/ tupleProcess \/ tupleFinalize \/ storeFinalize
               \/ StoreFails)
    <3>1. UNCHANGED fga
      BY <1>2, <2>1, <2>3
         DEF Next, Initialize, Terminate, StoreController, StoreStart, StoreAddFinalizers,
             StorePatch, ModelController, ModelAddFinalizer, ModelFinalize, Generator,
             GeneratorAddFinalizer, GeneratorReserve, GeneratorCreate, GeneratorFails,
             GeneratorCount, GeneratorDelete, GeneratorRelease, Bind, Unbind, DeleteOrg,
             SyncOperator, SyncGenerator, OperatorCrash
    <3> QED
      BY <1>2, <2>1, <2>3, <3>1, AuthorizedOthers
  <2> QED
    BY <2>2, <2>3
<1> QED
  BY <1>1, <1>2

LEMMA AuthorizedInit == Init => AuthorizedInv
<1> SUFFICES ASSUME Init PROVE AuthorizedOk
  BY DeletionInit DEF AuthorizedInv
<1>1. \A id \in Ids : ~Exists(id)
  BY DEF Init, Exists
<1> QED
  BY <1>1 DEF Init, AuthorizedOk, Truthful, NoStore, NoMem

(* An org leaves initialization only when OpenFGA has the store its status *)
(* names, with the model and the tuples, unless OpenFGA loses a store.     *)
THEOREM ReadyIsAuthorized == Spec => ReadyMeansAuthorized
<1> DEFINE Becomes ==
      org' = "ready" /\ org # "ready" /\ used.losses = 0
        => /\ Exists(store.id)
           /\ fga[store.id].tuples /\ "core" \in fga[store.id].modules
<1>1. ASSUME AuthorizedInv, [Next]_vars
      PROVE  [Becomes]_vars
  <2>1. SUFFICES ASSUME Next, org' = "ready", org # "ready", used.losses = 0
                 PROVE  /\ Exists(store.id)
                        /\ fga[store.id].tuples /\ "core" \in fga[store.id].modules
    BY <1>1
  <2>2. org = "initializing" /\ StoreReady
    BY <2>1 DEF Next, Initialize, Terminate, StoreController, StoreStart, StoreAddFinalizers,
         storeProcess, modelProcess, tupleProcess, tupleFinalize, storeFinalize, StoreFails,
         StorePatch, StoreStep, ModelController, ModelAddFinalizer, ModelFinalize, Generator,
         GeneratorAddFinalizer, GeneratorReserve, GeneratorCreate, GeneratorFails,
         GeneratorCount, GeneratorDelete, GeneratorRelease, Bind, Unbind, DeleteOrg,
         SyncOperator, SyncGenerator, OperatorCrash, Lose
  <2>3. AuthorizedOk /\ store.id \in Ids
    BY <1>1, <2>1, <2>2
       DEF AuthorizedInv, Undisturbed, DeletionInv, TypeOK, Store, StoreReady
  <2> QED
    BY <2>2, <2>3 DEF AuthorizedOk, Truthful, Served, StoreReady
<1> QED
  BY <1>1, AuthorizedInit, AuthorizedStep, PTL DEF Spec, ReadyMeansAuthorized
===============================================================================
