---------------------------- MODULE SearchIndexing ----------------------------
(***************************************************************************)
(* The search-operator.  A bound APIBinding makes sure that a SearchIndex  *)
(* describes the index of a resource, the SearchIndex makes sure that the  *)
(* index exists in OpenSearch, and every indexable resource keeps its      *)
(* document in the index that the SearchIndex's status names.  An index of *)
(* the old naming scheme ("legacy") is taken over when there is one.       *)
(*                                                                         *)
(* The three controllers run on the older engine of golang-commons: it     *)
(* patches a missing finalizer and goes on, and it removes the finalizer   *)
(* by a patch of its own as soon as Finalize succeeded.                    *)
(***************************************************************************)
EXTENDS Integers, FiniteSets

CONSTANTS Resource,       \* indexable resources of one kind in one organisation
          MaxEdition,     \* bound: contents of a resource
          MaxTroubles     \* bound: restarts, changes of the field lists, removals of the
                          \* SearchIndex by an administrator

ASSUME IndexingAssumption == {MaxEdition, MaxTroubles} \subseteq Nat

VARIABLES
  fields,     \* field list the bindings ask for
  si,         \* SearchIndex on the server
  current,    \* passes whose copy of the SearchIndex is the stored one
  binding,    \* pass of the APIBinding controller
  lifecycle,  \* pass of the SearchIndex controller
  opensearch, \* the index of the current name, the legacy index, the alias between them
  docs,       \* [index -> [resource -> edition of its document, 0 for none]]
  account,    \* the workspace has its AccountInfo
  object,     \* resources on the server
  cached,     \* resources in the informer's cache
  unseen,     \* resources with a watch event on its way
  passes,     \* passes of the IndexableResource controller
  queued,     \* resources with a reconcile due
  removed,    \* history: the SearchIndex was removed
  troubles

indexingVars == <<fields, si, current, binding, lifecycle, opensearch, docs, account, object,
                  cached, unseen, passes, queued, removed, troubles>>

Index == {"desired", "legacy"}
NoIndex == [exists |-> FALSE, deleting |-> FALSE, held |-> FALSE, fields |-> 0, name |-> "none"]
NoObject == [exists |-> FALSE, deleting |-> FALSE, held |-> FALSE, edition |-> 0]
BindingIdle == [pc |-> "idle", found |-> FALSE, want |-> 0]
IndexIdle == [pc |-> "idle", copy |-> NoIndex]
ResourceIdle == [pc |-> "idle", copy |-> NoObject, index |-> "none"]

IndexingInit ==
  /\ fields = 1 /\ si = NoIndex /\ current = {}
  /\ binding = BindingIdle /\ lifecycle = IndexIdle
  /\ \E legacy \in BOOLEAN :
       opensearch = [desired |-> "absent", legacy |-> legacy, alias |-> FALSE]
  /\ docs = [i \in Index |-> [r \in Resource |-> 0]]
  /\ account = FALSE
  /\ object = [r \in Resource |-> NoObject] /\ cached = object /\ unseen = {}
  /\ passes = [r \in Resource |-> ResourceIdle] /\ queued = {}
  /\ removed = FALSE /\ troubles = 0

indexVars == <<si, current, binding, lifecycle, opensearch>>
resourceVars == <<account, object, cached, unseen, passes, queued>>

---------------------------------------------------------------------------
(* APIBinding: the SearchIndex is read, and created or updated.             *)
BindingReads ==
  /\ binding.pc = "idle"
  /\ binding' = [pc |-> "write", found |-> si.exists, want |-> fields]
  /\ ~(si.exists /\ si.fields = fields)
  /\ current' = current \cup {"binding"}
  /\ UNCHANGED <<fields, si, lifecycle, opensearch, docs, resourceVars, removed, troubles>>

(* Create fails when there is one, Update when it is another version.       *)
EnsureSearchIndex ==
  /\ binding.pc = "write"
  /\ IF ~binding.found
     THEN IF si.exists THEN UNCHANGED <<si, current>>
          ELSE si' = [NoIndex EXCEPT !.exists = TRUE, !.fields = binding.want] /\ current' = {}
     ELSE IF "binding" \notin current THEN UNCHANGED <<si, current>>
          ELSE si' = [si EXCEPT !.fields = binding.want] /\ current' = {}
  /\ binding' = BindingIdle
  /\ UNCHANGED <<fields, lifecycle, opensearch, docs, resourceVars, removed, troubles>>

---------------------------------------------------------------------------
(* SearchIndex: the finalizer and the label first, then OpenSearch, then    *)
(* the status.                                                              *)
Collected(s) == IF s.deleting /\ ~s.held THEN NoIndex ELSE s

LifecycleStart ==
  /\ lifecycle.pc = "idle" /\ si.exists
  /\ si' = IF si.deleting THEN si ELSE [si EXCEPT !.held = TRUE]
  /\ lifecycle' = [pc |-> IF si.deleting THEN "drop" ELSE "ensure", copy |-> si']
  /\ current' = (IF si' = si THEN current ELSE {}) \cup {"lifecycle"}
  /\ UNCHANGED <<fields, binding, opensearch, docs, resourceVars, removed, troubles>>

(* IndexExists also finds an alias.                                         *)
Found(name) == CASE name = "desired" -> opensearch.desired # "absent" \/ opensearch.alias
                 [] name = "legacy"  -> opensearch.legacy
                 [] OTHER            -> FALSE

(* The settings of an alias are returned under the name of its index, where *)
(* GetIndexSettings does not look.                                          *)
EnsureIndex ==
  /\ lifecycle.pc = "ensure"
  /\ IF Found("desired")
     THEN /\ UNCHANGED opensearch
          /\ lifecycle' = IF opensearch.alias THEN IndexIdle
                          ELSE [lifecycle EXCEPT !.pc = "status", !.copy.name = "desired"]
     ELSE IF Found("legacy")
     THEN /\ opensearch' = [opensearch EXCEPT !.alias = TRUE]
          /\ lifecycle' = [lifecycle EXCEPT !.pc = "status", !.copy.name = "legacy"]
     ELSE /\ opensearch' = [opensearch EXCEPT !.desired = "mapped"]
          /\ lifecycle' = [lifecycle EXCEPT !.pc = "status", !.copy.name = "desired"]
  /\ UNCHANGED <<fields, si, current, binding, docs, resourceVars, removed, troubles>>

(* Status().Update with the version that was read.                          *)
StoreIndexName == [si EXCEPT !.name = lifecycle.copy.name]

LifecycleStatus ==
  /\ lifecycle.pc = "status"
  /\ IF "lifecycle" \in current /\ si.name # lifecycle.copy.name
     THEN si' = StoreIndexName /\ current' = {}
     ELSE UNCHANGED <<si, current>>
  /\ lifecycle' = IndexIdle
  /\ UNCHANGED <<fields, binding, opensearch, docs, resourceVars, removed, troubles>>

(* Finalize deletes the index the status names; then the finalizer goes.    *)
DropIndex ==
  /\ lifecycle.pc = "drop"
  /\ opensearch' = CASE lifecycle.copy.name = "desired" -> [opensearch EXCEPT !.desired = "absent"]
                     [] lifecycle.copy.name = "legacy" ->
                          [opensearch EXCEPT !.legacy = FALSE, !.alias = FALSE]
                     [] OTHER -> opensearch
  /\ docs' = IF lifecycle.copy.name = "none" THEN docs
             ELSE [docs EXCEPT ![lifecycle.copy.name] = [r \in Resource |-> 0]]
  /\ lifecycle' = [lifecycle EXCEPT !.pc = "release"]
  /\ UNCHANGED <<fields, si, current, binding, resourceVars, removed, troubles>>

ReleaseIndex ==
  /\ lifecycle.pc = "release"
  /\ si' = Collected([si EXCEPT !.held = FALSE]) /\ current' = {}
  /\ lifecycle' = IndexIdle
  /\ UNCHANGED <<fields, binding, opensearch, docs, resourceVars, removed, troubles>>

---------------------------------------------------------------------------
(* IndexableResource                                                        *)
Gone(o) == IF o.deleting /\ ~o.held THEN NoObject ELSE o

Store(r, o) ==
  /\ object' = [object EXCEPT ![r] = Gone(o)]
  /\ unseen' = IF object' = object THEN unseen ELSE unseen \cup {r}
Keep == UNCHANGED <<object, unseen>>

Look(r, o) == passes' = [passes EXCEPT ![r] = [pc |-> "lookup", copy |-> o, index |-> "none"]]

(* The finalizer is patched onto whatever has the name now; an object that  *)
(* is deleted or gone refuses it, and the pass is repeated.                 *)
ResourceStart(r) ==
  LET seen == cached[r] now == object[r]
  IN /\ passes[r].pc = "idle" /\ r \in queued
     /\ \/ seen.held /\ Look(r, seen) /\ Keep /\ queued' = queued \ {r}
        \/ /\ ~seen.held /\ (seen.deleting \/ ~seen.exists)
           /\ queued' = queued \ {r} /\ Keep /\ UNCHANGED passes
        \/ /\ ~seen.held /\ ~seen.deleting /\ seen.exists
           /\ IF now.exists /\ ~now.deleting
              THEN /\ Store(r, [now EXCEPT !.held = TRUE]) /\ Look(r, object'[r])
                   /\ queued' = queued \ {r}
              ELSE Keep /\ UNCHANGED <<passes, queued>>
     /\ UNCHANGED <<fields, indexVars, docs, account, cached, removed, troubles>>

EndPass(r) == passes' = [passes EXCEPT ![r] = ResourceIdle]
MutLater(r) == EndPass(r) /\ UNCHANGED queued
Later(r) == EndPass(r) /\ queued' = queued \cup {r}

(* Nothing is done without a SearchIndex, and Process also waits for its    *)
(* index name and for the AccountInfo.                                      *)
ResourceLookup(r) ==
  LET deleting == passes[r].copy.deleting
  IN /\ passes[r].pc = "lookup"
     /\ CASE si.exists /\ si.name # "none" /\ (deleting \/ account) ->
               /\ passes' = [passes EXCEPT ![r].pc = "write", ![r].index = si.name]
               /\ UNCHANGED queued
          [] si.exists /\ si.name = "none" /\ deleting ->
               passes' = [passes EXCEPT ![r].pc = "release"] /\ UNCHANGED queued
          [] OTHER -> Later(r)
     /\ UNCHANGED <<fields, indexVars, docs, account, object, cached, unseen, removed, troubles>>

(* OpenSearch creates an index it does not have, with dynamic mappings.     *)
IndexDocument(r) ==
  LET index == passes[r].index
  IN /\ passes[r].pc = "write" /\ ~passes[r].copy.deleting
     /\ LET target == IF index = "desired" /\ opensearch.alias THEN "legacy" ELSE index
        IN docs' = [docs EXCEPT ![target][r] = passes[r].copy.edition]
     /\ opensearch' = IF Found(index) THEN opensearch
                      ELSE IF index = "desired"
                      THEN [opensearch EXCEPT !.desired = "dynamic"]
                      ELSE [opensearch EXCEPT !.legacy = TRUE]
     /\ EndPass(r)
     /\ UNCHANGED <<fields, si, current, binding, lifecycle, account, object, cached, unseen,
                    queued, removed, troubles>>

(* The deletion of a document that is not there is an error, and is retried.*)
MutDeletes(r) == docs
Deletes(r) == [docs EXCEPT ![passes[r].index][r] = 0]

DeleteDocument(r) ==
  /\ passes[r].pc = "write" /\ passes[r].copy.deleting
  /\ IF docs[passes[r].index][r] = 0
     THEN Later(r) /\ UNCHANGED docs
     ELSE /\ docs' = Deletes(r)
          /\ passes' = [passes EXCEPT ![r].pc = "release"] /\ UNCHANGED queued
  /\ UNCHANGED <<fields, indexVars, account, object, cached, unseen, removed, troubles>>

ReleaseResource(r) ==
  /\ passes[r].pc = "release"
  /\ Store(r, [object[r] EXCEPT !.held = FALSE])
  /\ EndPass(r)
  /\ UNCHANGED <<fields, indexVars, docs, account, cached, queued, removed, troubles>>

---------------------------------------------------------------------------
(* Cache, users and administrators                                          *)
SyncResource(r) ==
  /\ r \in unseen /\ unseen' = unseen \ {r}
  /\ cached' = [cached EXCEPT ![r] = object[r]] /\ queued' = queued \cup {r}
  /\ UNCHANGED <<fields, indexVars, docs, account, object, passes, removed, troubles>>

ChangeResource(r) ==
  /\ object[r].edition < MaxEdition /\ ~object[r].deleting
  /\ Store(r, [object[r] EXCEPT !.exists = TRUE, !.edition = @ + 1])
  /\ UNCHANGED <<fields, indexVars, docs, account, cached, passes, queued, removed, troubles>>

DeleteResource(r) ==
  /\ object[r].exists /\ ~object[r].deleting
  /\ Store(r, [object[r] EXCEPT !.deleting = TRUE])
  /\ UNCHANGED <<fields, indexVars, docs, account, cached, passes, queued, removed, troubles>>

AccountAppears ==
  /\ ~account /\ account' = TRUE
  /\ UNCHANGED <<fields, indexVars, docs, object, cached, unseen, passes, queued, removed,
                 troubles>>

FieldsChange ==
  /\ troubles < MaxTroubles /\ troubles' = troubles + 1 /\ fields' = fields + 1
  /\ UNCHANGED <<indexVars, docs, resourceVars, removed>>

RemoveIndex ==
  /\ troubles < MaxTroubles /\ si.exists /\ ~si.deleting
  /\ troubles' = troubles + 1 /\ removed' = TRUE
  /\ si' = Collected([si EXCEPT !.deleting = TRUE]) /\ current' = {}
  /\ UNCHANGED <<fields, binding, lifecycle, opensearch, docs, resourceVars>>

(* The operator restarts, between any two calls.                            *)
Break ==
  /\ troubles < MaxTroubles /\ troubles' = troubles + 1
  /\ binding' = BindingIdle /\ lifecycle' = IndexIdle
  /\ passes' = [r \in Resource |-> ResourceIdle]
  /\ cached' = object /\ unseen' = {} /\ queued' = {r \in Resource : object[r].exists}
  /\ UNCHANGED <<fields, si, current, opensearch, docs, account, object, removed>>

BindingStep == BindingReads \/ EnsureSearchIndex
LifecycleStep == LifecycleStart \/ EnsureIndex \/ LifecycleStatus \/ DropIndex \/ ReleaseIndex
ResourceStep(r) == \/ ResourceStart(r) \/ ResourceLookup(r) \/ IndexDocument(r)
                   \/ DeleteDocument(r) \/ ReleaseResource(r)

IndexingNext ==
  \/ BindingStep \/ LifecycleStep \/ AccountAppears \/ FieldsChange \/ RemoveIndex \/ Break
  \/ \E r \in Resource :
       ResourceStep(r) \/ SyncResource(r) \/ ChangeResource(r) \/ DeleteResource(r)

IndexingFairness ==
  /\ WF_indexingVars(BindingStep) /\ WF_indexingVars(LifecycleStep)
  /\ WF_indexingVars(AccountAppears)
  /\ \A r \in Resource :
       WF_indexingVars(ResourceStep(r)) /\ WF_indexingVars(SyncResource(r))

IndexingSpec == IndexingInit /\ [][IndexingNext]_indexingVars /\ IndexingFairness
---------------------------------------------------------------------------
(* Type invariant.                                                          *)
IndexName == Index \cup {"none"}
SearchIndices == [exists : BOOLEAN, deleting : BOOLEAN, held : BOOLEAN,
                  fields : 0..(MaxTroubles + 1), name : IndexName]
Resources == [exists : BOOLEAN, deleting : BOOLEAN, held : BOOLEAN, edition : 0..MaxEdition]

IndexingTypeOK ==
  /\ fields \in 1..(MaxTroubles + 1) /\ troubles \in 0..MaxTroubles /\ fields <= troubles + 1
  /\ si \in SearchIndices /\ current \subseteq {"binding", "lifecycle"}
  /\ binding \in [pc : {"idle", "write"}, found : BOOLEAN, want : 0..(MaxTroubles + 1)]
  /\ lifecycle \in [pc : {"idle", "ensure", "status", "drop", "release"}, copy : SearchIndices]
  /\ opensearch \in [desired : {"absent", "mapped", "dynamic"}, legacy : BOOLEAN, alias : BOOLEAN]
  /\ docs \in [Index -> [Resource -> 0..MaxEdition]]
  /\ object \in [Resource -> Resources] /\ cached \in [Resource -> Resources]
  /\ passes \in [Resource -> [pc : {"idle", "lookup", "write", "release"},
                              copy : Resources, index : IndexName]]
  /\ unseen \subseteq Resource /\ queued \subseteq Resource
  /\ account \in BOOLEAN /\ removed \in BOOLEAN

(* A resource that is gone is not found any more, and neither is one whose  *)
(* finalizer is gone: Finalize deleted the document the last pass of        *)
(* Process wrote, in whatever index that was, with a cache behind the       *)
(* server and an operator that may stop after every call.  Not when the     *)
(* SearchIndex was removed: until the new one has an index name, Finalize   *)
(* deletes nothing, although a write in flight may have reached the index.  *)
GoneIsNotFound ==
  \A r \in Resource, i \in Index :
    ~object[r].exists /\ ~removed => docs[i][r] = 0

(* A resource that stays is found with its current content, once the        *)
(* SearchIndex, the index and the AccountInfo have come to be, whatever     *)
(* conflicts, restarts and changes of the field lists come in between.  Not *)
(* with a legacy index: when its alias is made and the status is not        *)
(* written, no later pass gets past GetIndexSettings.                       *)
Indexed ==
  \A r \in Resource :
    <>[](~removed /\ ~opensearch.legacy /\ object[r].exists /\ ~object[r].deleting)
      => <>[](\E i \in Index : docs[i][r] = object[r].edition)
===============================================================================
