------------------------------- MODULE OrgStore -------------------------------
(***************************************************************************)
(* The authorization store of one organization (security-operator): a      *)
(* Store object in root:orgs and the OpenFGA store behind it.  Four        *)
(* processes share it: the initializer and terminator of the org's         *)
(* workspace create and delete the Store, the operator keeps the OpenFGA   *)
(* store in line with it, and the model generator reserves the Store (a    *)
(* finalizer on it) for the AuthorizationModel of an API that accounts of  *)
(* the org bind.  Operator and generator read the Store from informer      *)
(* caches of their own.                                                    *)
(***************************************************************************)
EXTENDS Integers, FiniteSets

CONSTANTS
  Bindings,   (* APIBindings to one API export, each in an account of the org *)
  MaxStores,  (* OpenFGA stores ever created; further creations fail       *)
  MaxBinds,   (* bound on bindings ever made                               *)
  MaxFaults   (* bound on failing calls, crashes and stores OpenFGA loses  *)

ASSUME OrgStoreAssumption ==
  /\ IsFiniteSet(Bindings)
  /\ MaxStores \in Nat /\ MaxBinds \in Nat /\ MaxFaults \in Nat

VARIABLES
  org,     (* the org's workspace, as its initializer and terminator tell  *)
  store,   (* the Store object on the API server                           *)
  seen,    (* the operator's cached version of it                          *)
  gseen,   (* what the model generator's cache shows of it                 *)
  fga,     (* the OpenFGA stores                                           *)
  am,      (* the AuthorizationModel generated for the bound API           *)
  bind,    (* the APIBindings                                              *)
  spc,     (* where the Store controller stands                            *)
  smem,    (* the object it read, the object in its memory, its error      *)
  bpc,     (* where the generator stands with each binding                 *)
  used     (* how much of each bound is used up                            *)

caches == <<seen, gseen>>
storeWorker == <<spc, smem>>
vars == <<org, store, caches, fga, am, bind, storeWorker, bpc, used>>

Ids == 1..MaxStores

(* id 0: no OpenFGA store; model: AuthorizationModelID is set; managed:    *)
(* status.ManagedTuples holds the tuples of the spec.                      *)
Store ==
  [live : BOOLEAN, deleting : BOOLEAN, fins : SUBSET {"store", "tuples", "model"},
   id : Ids \cup {0}, model : BOOLEAN, managed : BOOLEAN]

NoStore == [live |-> FALSE, deleting |-> FALSE, fins |-> {},
            id |-> 0, model |-> FALSE, managed |-> FALSE]

FgaStore == [state : {"none", "live", "deleted"}, modules : SUBSET {"core", "ext"},
             tuples : BOOLEAN]

NoMem == [orig |-> NoStore, cur |-> NoStore, err |-> FALSE]

Own == {"store", "tuples"}

(* What a reservation looks at.                                            *)
View(o) == [live |-> o.live, deleting |-> o.deleting, fins |-> o.fins]

Exists(id) == id # 0 /\ fga[id].state = "live"

Free == {id \in Ids : fga[id].state = "none"}

Least(S) == CHOOSE x \in S : \A y \in S : x <= y

Left == used.fails + used.losses < MaxFaults

Fails == Left /\ used' = [used EXCEPT !.fails = @ + 1]

(* An object that is being deleted goes when its last finalizer does.      *)
Collect(o) == IF o.live /\ o.deleting /\ o.fins = {} THEN NoStore ELSE o

-----------------------------------------------------------------------------
(* workspaceInitializer: the org's initializer and terminator.             *)

MutIgnoresTuples == store.live /\ store.id # 0

StoreReady == store.live /\ store.managed /\ store.id # 0

Initialize ==
  /\ org = "initializing"
  /\ \/ /\ ~store.live
        /\ store' = [NoStore EXCEPT !.live = TRUE]
        /\ org' = org
     \/ /\ StoreReady
        /\ org' = "ready" /\ store' = store
  /\ UNCHANGED <<caches, fga, am, bind, storeWorker, bpc, used>>

Terminate ==
  /\ org = "terminating"
  /\ \/ /\ store.live /\ ~store.deleting
        /\ store' = Collect([store EXCEPT !.deleting = TRUE])
        /\ org' = org
     \/ /\ ~store.live
        /\ org' = "gone" /\ store' = store
  /\ UNCHANGED <<caches, fga, am, bind, storeWorker, bpc, used>>

-----------------------------------------------------------------------------
(* The Store controller: the chain Store, AuthorizationModel, Tuple.       *)

StoreStart ==
  /\ spc = "idle" /\ seen.live
  /\ smem' = [orig |-> seen, cur |-> seen, err |-> FALSE]
  /\ spc' = IF seen.deleting THEN "tupleFinalize"
            ELSE IF Own \subseteq seen.fins THEN "store" ELSE "fins"
  /\ UNCHANGED <<org, store, caches, fga, am, bind, bpc, used>>

StoreDone == spc' = "idle" /\ smem' = NoMem

(* The engine writes the list it read together with its own finalizers.    *)
StoreAddFinalizers ==
  /\ spc = "fins"
  /\ LET to == smem.cur.fins \cup Own
         refused == ~store.live \/ (store.deleting /\ ~(to \subseteq store.fins))
     IN  store' = IF refused THEN store ELSE [store EXCEPT !.fins = to]
  /\ StoreDone
  /\ UNCHANGED <<org, caches, fga, am, bind, bpc, used>>

StoreStep(label, cur) ==
  /\ spc' = label /\ smem' = [smem EXCEPT !.cur = cur]
  /\ UNCHANGED <<org, store, caches, am, bind, bpc, used>>

Created(id) == [fga EXCEPT ![id] = [state |-> "live", modules |-> {}, tuples |-> FALSE]]

(* Without an ID the store is looked up by its name before one is created. *)
FindOrCreate(cur, id) ==
  LET named == {i \in Ids : Exists(i)}
  IN  IF cur.id = 0 /\ named # {}
      THEN id = Least(named) /\ fga' = fga
      ELSE id = Least(Free) /\ fga' = Created(id)

MutKeepsModelID(cur, id) == [cur EXCEPT !.id = id]

Recreated(cur, id) == [cur EXCEPT !.id = id, !.model = FALSE]

(* storeSubroutine.Process: an ID that OpenFGA no longer knows is replaced *)
(* by a new store without a model.                                         *)
storeProcess ==
  LET cur == smem.cur
  IN  /\ spc = "store"
      /\ IF Exists(cur.id) THEN fga' = fga /\ StoreStep("model", cur)
         ELSE /\ Free # {}
              /\ \E id \in Ids :
                   /\ FindOrCreate(cur, id)
                   /\ StoreStep("model", IF cur.id = 0 THEN [cur EXCEPT !.id = id]
                                         ELSE Recreated(cur, id))

MutModelsAtCreation(cur) == {"core"} \cup IF am.live /\ ~cur.model THEN {"ext"} ELSE {}

DesiredModules(cur) == {"core"} \cup IF am.live THEN {"ext"} ELSE {}

(* The model the status names can be read.                                 *)
Readable(cur) == Exists(cur.id) /\ (cur.model => fga[cur.id].modules # {})

(* authorizationModelSubroutine.Process.                                   *)
modelProcess ==
  LET cur == smem.cur
  IN  /\ spc = "model" /\ Readable(cur)
      /\ fga' = [fga EXCEPT ![cur.id].modules = DesiredModules(cur)]
      /\ StoreStep("tuple", [cur EXCEPT !.model = TRUE])

(* TupleManager writes or deletes a set of tuples in one transaction and   *)
(* ignores those that are there, or not there, already.                    *)
Apply(id) == Exists(id) /\ fga' = [fga EXCEPT ![id].tuples = TRUE]

Delete(id) == Exists(id) /\ fga' = [fga EXCEPT ![id].tuples = FALSE]

(* tupleSubroutine.Process.                                                *)
tupleProcess ==
  LET cur == smem.cur
  IN  /\ spc = "tuple" /\ Apply(cur.id)
      /\ StoreStep("patch", [cur EXCEPT !.managed = TRUE])

(* tupleSubroutine.Finalize: it runs first on a Store that is deleted.     *)
tupleFinalize ==
  LET cur == smem.cur
  IN  /\ spc = "tupleFinalize"
      /\ IF "tuples" \in cur.fins /\ cur.managed THEN Delete(cur.id) ELSE fga' = fga
      /\ StoreStep("storeFinalize",
                   [cur EXCEPT !.fins = @ \ {"tuples"}, !.managed = FALSE])

MutIgnoresReservations(cur) == FALSE

(* A finalizer of an AuthorizationModel blocks the deletion.               *)
Reserved(cur) == "model" \in cur.fins

(* storeSubroutine.Finalize.                                               *)
storeFinalize ==
  LET cur == smem.cur
  IN  /\ spc = "storeFinalize"
      /\ cur.id # 0 => ~Reserved(cur)
      /\ fga' = IF Exists(cur.id) THEN [fga EXCEPT ![cur.id].state = "deleted"] ELSE fga
      /\ StoreStep("patch", [cur EXCEPT !.fins = @ \ {"store"}])

(* A subroutine fails: the rest of the chain is left out, what the others  *)
(* have changed is written.                                                *)
StoreFails ==
  LET cur == smem.cur
  IN  /\ \/ spc = "model" /\ ~Readable(cur) /\ used' = used
         \/ spc = "tuple" /\ ~Exists(cur.id) /\ used' = used
         \/ spc = "store" /\ ~Exists(cur.id) /\ Free = {} /\ used' = used
         \/ spc = "tupleFinalize" /\ "tuples" \in cur.fins /\ cur.managed
            /\ ~Exists(cur.id) /\ used' = used
         \/ spc = "storeFinalize" /\ cur.id # 0 /\ Reserved(cur) /\ used' = used
         \/ spc \in {"store", "model", "tuple", "tupleFinalize", "storeFinalize"} /\ Fails
      /\ spc' = "patch" /\ smem' = [smem EXCEPT !.err = TRUE]
      /\ UNCHANGED <<org, store, caches, fga, am, bind, bpc>>

(* patchChanges: lists that changed are replaced, fields that changed set. *)
StorePatch ==
  LET from == smem.orig
      to == smem.cur
      fins == IF to.fins # from.fins THEN to.fins ELSE store.fins
      refused == ~store.live \/ (store.deleting /\ ~(fins \subseteq store.fins))
      patched == [store EXCEPT
                    !.fins = fins,
                    !.id = IF to.id # from.id THEN to.id ELSE @,
                    !.model = IF to.model # from.model THEN to.model ELSE @,
                    !.managed = IF to.managed # from.managed THEN to.managed ELSE @]
  IN  /\ spc = "patch"
      /\ \/ store' = (IF refused THEN store ELSE Collect(patched)) /\ used' = used
         \/ store' = store /\ Fails
      /\ StoreDone
      /\ UNCHANGED <<org, caches, fga, am, bind, bpc>>

-----------------------------------------------------------------------------
(* The AuthorizationModel and its reservation on the Store.                *)

(* registerAuthorizationModelWithStore on the Store as the caller's cache  *)
(* shows it; the Update needs the current version, and the API server      *)
(* takes no new finalizer once the Store is being deleted.                 *)
Register(view) ==
  \/ /\ view.live /\ "model" \in view.fins
     /\ store' = store
  \/ /\ view.live /\ "model" \notin view.fins /\ view = View(store) /\ ~store.deleting
     /\ store' = [store EXCEPT !.fins = @ \cup {"model"}]

(* deregisterAuthorizationModelFromStore.                                  *)
Deregister(view) ==
  \/ (~view.live \/ "model" \notin view.fins) /\ store' = store
  \/ /\ view.live /\ "model" \in view.fins /\ view = View(store)
     /\ store' = Collect([store EXCEPT !.fins = @ \ {"model"}])

(* The AuthorizationModel controller adds its finalizer.                   *)
ModelAddFinalizer ==
  /\ am.live /\ ~am.deleting /\ ~am.fin
  /\ am' = [am EXCEPT !.fin = TRUE]
  /\ UNCHANGED <<org, store, caches, fga, bind, storeWorker, bpc, used>>

NoModel == [live |-> FALSE, deleting |-> FALSE, fin |-> FALSE]

(* tupleSubroutine.Finalize of a model, without tuples of its own, and the *)
(* patch.                                                                  *)
ModelFinalize ==
  /\ am.live /\ am.deleting /\ am.fin
  /\ Deregister(View(seen))
  /\ am' = NoModel
  /\ UNCHANGED <<org, caches, fga, bind, spc, smem, bpc, used>>

(* Bindings: "none", "new" (without finalizer), "bound", "deleting".       *)
GeneratorAddFinalizer(b) ==
  /\ bind[b] = "new" /\ bpc[b] = "idle"
  /\ bind' = [bind EXCEPT ![b] = "bound"]
  /\ UNCHANGED <<org, store, caches, fga, am, storeWorker, bpc, used>>

(* Process, up to the reservation.                                         *)
GeneratorReserve(b) ==
  /\ bind[b] = "bound" /\ bpc[b] = "idle"
  /\ Register(gseen)
  /\ bpc' = [bpc EXCEPT ![b] = "reserved"]
  /\ UNCHANGED <<org, caches, fga, am, bind, storeWorker, used>>

(* Process, the rest: an update of an existing model changes nothing here. *)
GeneratorCreate(b) ==
  /\ bpc[b] = "reserved"
  /\ am' = IF am.live THEN am ELSE [live |-> TRUE, deleting |-> FALSE, fin |-> FALSE]
  /\ bpc' = [bpc EXCEPT ![b] = "idle"]
  /\ UNCHANGED <<org, store, caches, fga, bind, spc, smem, used>>

(* The creation fails, or the generator dies before it.                    *)
GeneratorFails(b) ==
  /\ bpc[b] # "idle" /\ Fails
  /\ bpc' = [bpc EXCEPT ![b] = "idle"]
  /\ UNCHANGED <<org, store, caches, fga, am, bind, storeWorker>>

(* Finalize counts the bindings of the org to the export; another one      *)
(* keeps the model.                                                        *)
GeneratorCount(b) ==
  /\ bind[b] = "deleting" /\ bpc[b] = "idle"
  /\ bpc' = [bpc EXCEPT ![b] =
               IF \E o \in Bindings \ {b} : bind[o] # "none" THEN "finalized" ELSE "last"]
  /\ UNCHANGED <<org, store, caches, fga, am, bind, storeWorker, used>>

(* Finalize of the last binding deletes the model, or releases the         *)
(* reservation of a model that was never created.                          *)
GeneratorDelete(b) ==
  /\ bpc[b] = "last"
  /\ bpc' = [bpc EXCEPT ![b] = "finalized"]
  /\ IF am.live
     THEN /\ am' = IF am.fin THEN [am EXCEPT !.deleting = TRUE] ELSE NoModel
          /\ store' = store
     ELSE Deregister(gseen) /\ am' = am
  /\ UNCHANGED <<org, caches, fga, bind, spc, smem, used>>

(* The engine's patch takes the finalizer, and the binding goes.           *)
GeneratorRelease(b) ==
  /\ bpc[b] = "finalized"
  /\ bind' = [bind EXCEPT ![b] = "none"] /\ bpc' = [bpc EXCEPT ![b] = "idle"]
  /\ UNCHANGED <<org, store, caches, fga, am, storeWorker, used>>

-----------------------------------------------------------------------------
(* The environment.                                                        *)

DeleteOrg ==
  /\ org \in {"initializing", "ready"}
  /\ org' = "terminating"
  /\ UNCHANGED <<store, caches, fga, am, bind, storeWorker, bpc, used>>

(* Accounts, and with them bindings, need an initialized org.              *)
Bind(b) ==
  /\ org = "ready" /\ bind[b] = "none" /\ used.binds < MaxBinds
  /\ bind' = [bind EXCEPT ![b] = "new"]
  /\ used' = [used EXCEPT !.binds = @ + 1]
  /\ UNCHANGED <<org, store, caches, fga, am, storeWorker, bpc>>

Unbind(b) ==
  /\ bind[b] \in {"new", "bound"}
  /\ bind' = [bind EXCEPT ![b] = IF @ = "new" THEN "none" ELSE "deleting"]
  /\ UNCHANGED <<org, store, caches, fga, am, storeWorker, bpc, used>>

SyncOperator ==
  /\ seen # store /\ seen' = store
  /\ UNCHANGED <<org, store, gseen, fga, am, bind, spc, smem, bpc, used>>

SyncGenerator ==
  /\ gseen # View(store) /\ gseen' = View(store)
  /\ UNCHANGED <<org, store, seen, fga, am, bind, storeWorker, bpc, used>>

(* OpenFGA loses a store.                                                  *)
Lose(id) ==
  /\ Exists(id) /\ Left
  /\ fga' = [fga EXCEPT ![id].state = "deleted"]
  /\ used' = [used EXCEPT !.losses = @ + 1]
  /\ UNCHANGED <<org, store, caches, am, bind, storeWorker, bpc>>

(* The operator dies; when it is back it lists all Stores.                 *)
OperatorCrash ==
  /\ spc # "idle" /\ Fails
  /\ spc' = "idle" /\ smem' = NoMem /\ seen' = store
  /\ UNCHANGED <<org, store, gseen, fga, am, bind, bpc>>

-----------------------------------------------------------------------------
Init ==
  /\ org = "initializing" /\ store = NoStore /\ seen = NoStore /\ gseen = View(NoStore)
  /\ fga = [id \in Ids |-> [state |-> "none", modules |-> {}, tuples |-> FALSE]]
  /\ am = NoModel /\ bind = [b \in Bindings |-> "none"]
  /\ spc = "idle" /\ smem = NoMem
  /\ bpc = [b \in Bindings |-> "idle"]
  /\ used = [binds |-> 0, fails |-> 0, losses |-> 0]

StoreController ==
  \/ StoreStart \/ StoreAddFinalizers \/ storeProcess \/ modelProcess \/ tupleProcess
  \/ tupleFinalize \/ storeFinalize \/ StoreFails \/ StorePatch

ModelController == ModelAddFinalizer \/ ModelFinalize

Generator(b) ==
  \/ GeneratorAddFinalizer(b) \/ GeneratorReserve(b) \/ GeneratorCreate(b)
  \/ GeneratorFails(b) \/ GeneratorCount(b) \/ GeneratorDelete(b) \/ GeneratorRelease(b)

Next ==
  \/ Initialize \/ Terminate \/ StoreController \/ ModelController
  \/ \E b \in Bindings : Generator(b) \/ Bind(b) \/ Unbind(b)
  \/ DeleteOrg \/ SyncOperator \/ SyncGenerator \/ OperatorCrash
  \/ \E id \in Ids : Lose(id)

Spec == Init /\ [][Next]_vars

(* Workers and watches run, the initializer and terminator requeue every   *)
(* five seconds, informers resync, and the accounts of a deleted org go.   *)
FairSpec ==
  /\ Spec
  /\ WF_vars(Initialize) /\ WF_vars(Terminate)
  /\ WF_vars(StoreController) /\ WF_vars(ModelController)
  /\ \A b \in Bindings : WF_vars(Generator(b)) /\ WF_vars(org = "terminating" /\ Unbind(b))
  /\ WF_vars(SyncOperator) /\ WF_vars(SyncGenerator)

-----------------------------------------------------------------------------
TypeOK ==
  /\ org \in {"initializing", "ready", "terminating", "gone"}
  /\ store \in Store /\ seen \in Store
  /\ gseen \in [live : BOOLEAN, deleting : BOOLEAN, fins : SUBSET {"store", "tuples", "model"}]
  /\ fga \in [Ids -> FgaStore]
  /\ am \in [live : BOOLEAN, deleting : BOOLEAN, fin : BOOLEAN]
  /\ bind \in [Bindings -> {"none", "new", "bound", "deleting"}]
  /\ spc \in {"idle", "fins", "store", "model", "tuple", "tupleFinalize",
              "storeFinalize", "patch"}
  /\ smem \in [orig : Store, cur : Store, err : BOOLEAN]
  /\ bpc \in [Bindings -> {"idle", "reserved", "last", "finalized"}]
  /\ used \in [binds : Nat, fails : Nat, losses : Nat]

(* The operator deletes an OpenFGA store only while the Store on the API   *)
(* server carries no reservation, although Finalize looks for reservations *)
(* in a cached version of it ("finalizers instead of a list to avoid stale *)
(* reads", storeSubroutine.Finalize).                                      *)
DeletionHonoursReservation ==
  [][\A id \in Ids :
       spc = "storeFinalize" /\ Exists(id) /\ fga'[id].state = "deleted" /\ used' = used
         => "model" \notin store.fins]_vars

(* An org leaves initialization only when OpenFGA has its model and its    *)
(* tuples (workspaceInitializer.reconcile looks at the Store's status      *)
(* only), as long as OpenFGA keeps what it was given.                      *)
ReadyMeansAuthorized ==
  [][org' = "ready" /\ org # "ready" /\ used.losses = 0
       => /\ Exists(store.id)
          /\ fga[store.id].tuples /\ "core" \in fga[store.id].modules]_vars

(* Crashes, failing calls and stale caches never make the operator create  *)
(* a second OpenFGA store of the same name (storeSubroutine.Process        *)
(* creates before it records), unless OpenFGA has lost one.                *)
OneStore ==
  used.losses = 0 => Cardinality({id \in Ids : fga[id].state = "live"}) <= 1

Authorized == Exists(store.id) /\ fga[store.id].tuples /\ "core" \in fga[store.id].modules

(* An OpenFGA that has lost a store gets it back, with its model and its   *)
(* tuples ("Store ID not found, recreating store").                        *)
Recovers == org = "ready" ~> Authorized \/ org # "ready"

(* A binding that stays has its API in the org's authorization model in    *)
(* the end, although models come and go with bindings.                     *)
BoundIsAuthorized ==
  \A b \in Bindings :
    bind[b] = "bound" ~> \/ bind[b] # "bound" \/ org # "ready"
                         \/ Exists(store.id) /\ "ext" \in fga[store.id].modules

(* A deleted org's Store goes in the end, and the org with it.             *)
OrgTerminates == org = "terminating" ~> org = "gone"
===============================================================================
