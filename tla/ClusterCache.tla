----------------------------- MODULE ClusterCache -----------------------------
(***************************************************************************)
(* The cluster cache of rebac-authz-webhook, which resolves engaged        *)
(* clusters in the background, and the batch handler that reads it.        *)
(*                                                                         *)
(* All clusters but those Outside are workspaces of one organisation, so   *)
(* there is one Store.  A cluster object is a number, its Engage call.     *)
(***************************************************************************)
EXTENDS Integers

CONSTANTS
  Cluster,       \* names of logical clusters
  Outside,       \* those whose path is not below root:orgs
  MaxEngage,     \* bound on Engage calls per cluster
  MaxStoreIDs    \* bound on the FGA stores made for the organisation

ASSUME CacheAssumption ==
  Outside \subseteq Cluster /\ MaxEngage \in Nat /\ MaxStoreIDs \in Nat

VARIABLES
  storeId,     \* status.storeId of the organisation's Store, 0 while unset
  attached,    \* the cluster object engaged last, 0 when none was
  ended,       \* cluster objects whose resolver's context is cancelled
  resolvers,   \* the map of the same name: the registered cluster object
  goroutine,   \* where the goroutine of a cluster object is
  storeSeen,   \* the storeId that goroutine has read
  info,        \* cache: the StoreID and the cluster object it was resolved with
  batch        \* the batch request: items not yet looked at, StoreID, outcome

resolverVars == <<attached, ended, resolvers, goroutine, storeSeen, info>>
cacheVars == <<storeId, resolverVars, batch>>

Object == 1..MaxEngage
StoreID == 0..MaxStoreIDs
NoInfo == [store |-> 0, by |-> 0]
NoBatch == [left |-> {}, store |-> 0, outcome |-> "none"]

CacheTypeOK ==
  /\ storeId \in StoreID
  /\ attached \in [Cluster -> 0..MaxEngage]
  /\ ended \in [Cluster -> SUBSET Object]
  /\ resolvers \in [Cluster -> 0..MaxEngage]
  /\ goroutine \in [Cluster -> [Object -> {"none", "try", "cache", "wait", "leave"}]]
  /\ storeSeen \in [Cluster -> [Object -> StoreID]]
  /\ info \in [Cluster -> [store : StoreID, by : 0..MaxEngage]]
  /\ \A c \in Cluster : (info[c].by = 0) = (info[c].store = 0)
  /\ batch \in [left : SUBSET Cluster, store : StoreID,
                outcome : {"none", "reading", "sent", "failed", "mismatch"}]

-------------------------------------------------------------------------------
(* The cluster cache.                                                      *)

(* The first cluster object, or a new one after the provider made the      *)
(* cluster anew.  A resolver that still runs for an older object is        *)
(* cancelled and replaced; with the same object Engage does nothing.       *)
Supersedes(c, g) == resolvers[c] # g

Engage(c) ==
  LET g == attached[c] + 1 IN
  /\ g <= MaxEngage
  /\ attached' = [attached EXCEPT ![c] = g]
  /\ IF Supersedes(c, g)
     THEN /\ ended' = [ended EXCEPT ![c] =
                         @ \cup (IF resolvers[c] = 0 THEN {} ELSE {resolvers[c]})
                           \cup (IF attached[c] = 0 THEN {} ELSE {attached[c]})]
          /\ resolvers' = [resolvers EXCEPT ![c] = g]
          /\ goroutine' = [goroutine EXCEPT ![c][g] = "try"]
     ELSE /\ ended' = [ended EXCEPT ![c] =
                         @ \cup (IF attached[c] = 0 THEN {} ELSE {attached[c]})]
          /\ UNCHANGED <<resolvers, goroutine>>
  /\ UNCHANGED <<storeId, storeSeen, info, batch>>

(* tryResolve: skipped outside root:orgs, otherwise everything is read;    *)
(* a read can fail, and fails while the Store has no storeId.              *)
TrySkips(c, g) ==
  /\ goroutine[c][g] = "try" /\ c \in Outside
  /\ goroutine' = [goroutine EXCEPT ![c][g] = "leave"]
  /\ UNCHANGED <<storeId, attached, ended, resolvers, storeSeen, info, batch>>

TryReads(c, g) ==
  /\ goroutine[c][g] = "try" /\ c \notin Outside /\ storeId # 0
  /\ storeSeen' = [storeSeen EXCEPT ![c][g] = storeId]
  /\ goroutine' = [goroutine EXCEPT ![c][g] = "cache"]
  /\ UNCHANGED <<storeId, attached, ended, resolvers, info, batch>>

MutGivesUp == "leave"
AfterFailure == "wait"

TryFails(c, g) ==
  /\ goroutine[c][g] = "try"
  /\ goroutine' = [goroutine EXCEPT ![c][g] = AfterFailure]
  /\ UNCHANGED <<storeId, attached, ended, resolvers, storeSeen, info, batch>>

(* The last lines of tryResolve: nobody looks at the context any more.     *)
TryCaches(c, g) ==
  /\ goroutine[c][g] = "cache"
  /\ info' = [info EXCEPT ![c] = [store |-> storeSeen[c][g], by |-> g]]
  /\ goroutine' = [goroutine EXCEPT ![c][g] = "leave"]
  /\ UNCHANGED <<storeId, attached, ended, resolvers, storeSeen, batch>>

(* The select between two attempts.                                        *)
Backoff(c, g) ==
  /\ goroutine[c][g] = "wait"
  /\ goroutine' = [goroutine EXCEPT ![c][g] = IF g \in ended[c] THEN "leave" ELSE "try"]
  /\ UNCHANGED <<storeId, attached, ended, resolvers, storeSeen, info, batch>>

(* The goroutine ends and takes itself off the map if it is still there.   *)
Registered(c, g) == IF resolvers[c] = g THEN 0 ELSE resolvers[c]

Leave(c, g) ==
  /\ goroutine[c][g] = "leave"
  /\ goroutine' = [goroutine EXCEPT ![c][g] = "none"]
  /\ resolvers' = [resolvers EXCEPT ![c] = Registered(c, g)]
  /\ UNCHANGED <<storeId, attached, ended, storeSeen, info, batch>>

Resolve(c, g) ==
  \/ TrySkips(c, g) \/ TryReads(c, g) \/ TryFails(c, g)
  \/ TryCaches(c, g) \/ Backoff(c, g) \/ Leave(c, g)

-------------------------------------------------------------------------------
(* The batch handler: buildChecks looks at one item after the other.  A    *)
(* batch leaves nothing behind, so one is enough.                          *)

BatchStart ==
  /\ batch.outcome = "none"
  /\ batch' = [left |-> Cluster, store |-> 0, outcome |-> "reading"]
  /\ UNCHANGED <<storeId, resolverVars>>

BatchItem(c) ==
  /\ batch.outcome = "reading" /\ c \in batch.left
  /\ batch' = [left |-> batch.left \ {c},
               store |-> IF batch.store = 0 THEN info[c].store ELSE batch.store,
               outcome |-> IF info[c].store \in {0, batch.store} \/ batch.store = 0
                           THEN "reading" ELSE "mismatch"]
  /\ UNCHANGED <<storeId, resolverVars>>

BatchSend ==
  /\ batch.outcome = "reading" /\ batch.left = {}
  /\ batch' = [batch EXCEPT !.outcome = IF batch.store = 0 THEN "failed" ELSE "sent"]
  /\ UNCHANGED <<storeId, resolverVars>>

-------------------------------------------------------------------------------
(* security-operator makes the FGA store, and a new one when it is lost.   *)
MakeStore ==
  /\ storeId < MaxStoreIDs
  /\ storeId' = storeId + 1
  /\ UNCHANGED <<resolverVars, batch>>

CacheInit ==
  /\ storeId = 0
  /\ attached = [c \in Cluster |-> 0] /\ ended = [c \in Cluster |-> {}]
  /\ resolvers = [c \in Cluster |-> 0]
  /\ goroutine = [c \in Cluster |-> [g \in Object |-> "none"]]
  /\ storeSeen = [c \in Cluster |-> [g \in Object |-> 0]]
  /\ info = [c \in Cluster |-> NoInfo]
  /\ batch = NoBatch

CacheNext ==
  \/ MakeStore
  \/ \E c \in Cluster : Engage(c) \/ BatchItem(c)
  \/ \E c \in Cluster, g \in Object : Resolve(c, g)
  \/ BatchStart \/ BatchSend

(* Goroutines run; a read that is repeated for ever succeeds in the end.   *)
CacheFairness ==
  \A c \in Cluster, g \in Object :
    WF_cacheVars(Resolve(c, g)) /\ SF_cacheVars(TryReads(c, g))

CacheSpec == CacheInit /\ [][CacheNext]_cacheVars /\ CacheFairness

-------------------------------------------------------------------------------
(* A goroutine whose context lives is the registered one: a new Engage     *)
(* finds it and can cancel it (the cleanup in Engage compares identities). *)
ActiveIsRegistered ==
  \A c \in Cluster, g \in Object :
    goroutine[c][g] # "none" /\ g \notin ended[c] => resolvers[c] = g

(* A workspace of the organisation that was engaged is cached once the     *)
(* Store has its storeId, however late that is and however often the       *)
(* cluster was engaged anew (resolve loops by hand).                       *)
EngagedIsServed ==
  \A c \in Cluster \ Outside :
    (storeId # 0 /\ attached[c] # 0) ~> info[c] # NoInfo

(* All items of a batch have the same StoreID, since they are about one    *)
(* organisation (comment in buildChecks).                                  *)
BatchInOneStore == batch.outcome # "mismatch"

(* What is cached in the end comes from the cluster object engaged last.   *)
LatestObjectServes ==
  \A c \in Cluster \ Outside :
    <>[](storeId # 0 /\ attached[c] # 0 => info[c].by = attached[c])
===============================================================================
