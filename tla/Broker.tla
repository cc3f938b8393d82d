-------------------------------- MODULE Broker --------------------------------
(***************************************************************************)
(* One consumer object of the resource broker and the providers that may   *)
(* serve it.  The brokered resource controller runs the chain Assignment,  *)
(* Copy, RelatedResources: it assigns the object to a provider whose       *)
(* AcceptAPI applies, copies it into the provider's staging workspace and  *)
(* brings related resources back.  When the provider no longer applies it  *)
(* starts a Migration; the migration controller decides when to cut over.  *)
(* Deletion runs the chain backwards.                                      *)
(*                                                                         *)
(* A provider stands for its cluster, its AcceptAPI, its APIExport and the *)
(* staging workspace that the broker derives from them.  StagingRefs has   *)
(* the details of reference counting.                                      *)
(***************************************************************************)
EXTENDS Integers, FiniteSets

CONSTANTS
  Providers,   (* providers of the object's kind                           *)
  None,        (* no provider                                              *)
  Shared,      (* providers whose staging workspace others reference too   *)
  MaxOffers,   (* how often an AcceptAPI changes                           *)
  MaxFails     (* how often the controller fails in the middle of a pass   *)

ASSUME BrokerAssumption ==
  /\ IsFiniteSet(Providers) /\ None \notin Providers /\ Shared \subseteq Providers
  /\ MaxOffers \in Nat /\ MaxFails \in Nat

VARIABLES
  api,      (* each provider's AcceptAPI: "none", "other" or "applies"     *)
  obj,      (* the consumer object                                         *)
  fins,     (* its finalizers                                              *)
  asg,      (* the Assignment                                              *)
  mig,      (* the Migration                                               *)
  sw,       (* the StagingWorkspace of each provider                       *)
  refs,     (* StagingWorkspaces that carry our reference finalizer        *)
  copy,     (* the staging copy in each StagingWorkspace                   *)
  related,  (* providers whose related resources the consumer has          *)
  pc,       (* where the brokered resource controller stands               *)
  mem,      (* status of the Assignment in its memory                      *)
  pick,     (* the provider startMigration has picked                      *)
  offers,   (* changes of AcceptAPIs so far                                *)
  fails     (* failures so far                                             *)

worker == <<pc, mem, pick>>
staging == <<sw, refs, copy>>
bounds == <<offers, fails>>
vars == <<api, obj, fins, asg, mig, staging, related, worker, bounds>>

Subroutines == {"Assignment", "Copy", "RelatedResources"}

(* prov: ProviderCluster and AcceptAPIName; export: APIExportName is set;  *)
(* ws: StagingWorkspace.                                                   *)
AssignmentStatus ==
  [prov : Providers \cup {None}, export : BOOLEAN, ws : Providers \cup {None},
   phase : {"none", "Pending", "Bound"}]

NoStatus == [prov |-> None, export |-> FALSE, ws |-> None, phase |-> "none"]

Assignment == [live : BOOLEAN, spec : Providers \cup {None}, status : AssignmentStatus]

NoAssignment == [live |-> FALSE, spec |-> None, status |-> NoStatus]

Migration ==
  [live : BOOLEAN, deleting : BOOLEAN, from : Providers \cup {None},
   to : Providers \cup {None}, state : {"running", "cutover", "completed"}]

NoMigration ==
  [live |-> FALSE, deleting |-> FALSE, from |-> None, to |-> None, state |-> "running"]

Applying == {p \in Providers : api[p] = "applies"}

-----------------------------------------------------------------------------
(* Staging workspaces.                                                     *)

(* releaseStagingWorkspace: without references it is deleted.              *)
Release(p) ==
  /\ refs' = refs \ {p}
  /\ sw' = IF sw[p] # "none" /\ p \notin Shared THEN [sw EXCEPT ![p] = "deleting"] ELSE sw

(* A StagingWorkspace is created with our reference or gets it.            *)
Reference(p) ==
  /\ refs' = refs \cup {p}
  /\ sw' = IF sw[p] = "none" THEN [sw EXCEPT ![p] = "pending"] ELSE sw

(* The kcp workspace behind it exists.                                     *)
Usable(p) == sw[p] \in {"ready", "deleting"}

Exists(p) == copy[p] # "none"

-----------------------------------------------------------------------------
(* assignmentSubroutine.Process.                                           *)

Starts == obj = "live" /\ pc = "assign"

(* Pending lets the chain go on.                                           *)
createAssignment ==
  /\ Starts /\ ~asg.live
  /\ \/ \E p \in Applying : asg' = [live |-> TRUE, spec |-> p, status |-> NoStatus]
     \/ Applying = {} /\ asg' = asg
  /\ pc' = "copy"
  /\ UNCHANGED <<api, obj, fins, mig, staging, related, mem, pick, bounds>>

waitForMigration ==
  /\ Starts /\ asg.live /\ mig.live /\ (mig.deleting \/ mig.state # "completed")
  /\ pc' = "copy"
  /\ UNCHANGED <<api, obj, fins, asg, mig, staging, related, mem, pick, bounds>>

(* finishMigration: the status is repointed in memory; the old copy goes   *)
(* first, then the reference and the Migration.                            *)
finishMigration ==
  /\ Starts /\ asg.live /\ mig.live /\ ~mig.deleting /\ mig.state = "completed"
  /\ mem' = [prov |-> mig.to, export |-> FALSE, ws |-> mig.to, phase |-> "Bound"]
  /\ \/ /\ Exists(mig.from)
        /\ copy' = [copy EXCEPT ![mig.from] = "deleting"]
        /\ UNCHANGED <<mig, sw, refs>>
     \/ /\ ~Exists(mig.from)
        /\ Release(mig.from)
        /\ mig' = [mig EXCEPT !.deleting = TRUE]
        /\ UNCHANGED copy
  /\ pc' = "store"
  /\ UNCHANGED <<api, obj, fins, asg, related, pick, bounds>>

(* An empty status adopts the provider in the spec.                        *)
Adopted ==
  IF asg.status.prov = None
  THEN [asg.status EXCEPT !.prov = asg.spec, !.export = FALSE] ELSE asg.status

(* resolveAPIExportName fails if the AcceptAPI is gone.                    *)
Resolvable == Adopted.export \/ api[Adopted.prov] # "none"

Binds == Starts /\ asg.live /\ ~mig.live

resolveFails ==
  /\ Binds /\ ~Resolvable
  /\ mem' = Adopted /\ pc' = "storeError"
  /\ UNCHANGED <<api, obj, fins, asg, mig, staging, related, pick, bounds>>

Serving(p, phase) == [prov |-> p, export |-> TRUE, ws |-> p, phase |-> phase]

(* ensureBound while the StagingWorkspace is not there, is terminating or  *)
(* is not ready.                                                           *)
ensureBoundWaits ==
  LET p == Adopted.prov
  IN  /\ Binds /\ Resolvable
      /\ \/ sw[p] \in {"none", "pending"} /\ Reference(p)
         \/ sw[p] = "deleting" /\ Release(p)
      /\ mem' = Serving(p, "Pending") /\ pc' = "store"
      /\ UNCHANGED <<api, obj, fins, asg, mig, copy, related, pick, bounds>>

(* ensureBound, then validate: the provider still applies, or there is no  *)
(* other one to go to.                                                     *)
validate ==
  LET p == Adopted.prov
  IN  /\ Binds /\ Resolvable /\ sw[p] = "ready"
      /\ p \in Applying \/ Applying = {}
      /\ Reference(p)
      /\ mem' = Serving(p, "Bound") /\ pc' = "store"
      /\ UNCHANGED <<api, obj, fins, asg, mig, copy, related, pick, bounds>>

(* validate, then startMigration: another provider is picked.              *)
startMigration ==
  LET p == Adopted.prov
  IN  /\ Binds /\ Resolvable /\ sw[p] = "ready"
      /\ p \notin Applying
      /\ Reference(p)
      /\ \E q \in Applying : pick' = q /\ pc' = IF asg.spec = q THEN "destination" ELSE "spec"
      /\ mem' = Serving(p, "Bound")
      /\ UNCHANGED <<api, obj, fins, asg, mig, copy, related, bounds>>

(* Update decodes the stored status over the one in memory.                *)
Decode(m, stored) ==
  [prov   |-> IF stored.prov = None THEN m.prov ELSE stored.prov,
   export |-> m.export \/ stored.export,
   ws     |-> IF stored.ws = None THEN m.ws ELSE stored.ws,
   phase  |-> IF stored.phase = "none" THEN m.phase ELSE stored.phase]

repointSpec ==
  /\ pc = "spec"
  /\ asg' = [asg EXCEPT !.spec = pick]
  /\ mem' = Decode(mem, asg.status)
  /\ pc' = "destination"
  /\ UNCHANGED <<api, obj, fins, mig, staging, related, pick, bounds>>

MutDestinationUnreferenced ==
  /\ pc = "destination"
  /\ IF sw[pick] = "deleting" THEN pc' = "store" ELSE pc' = "create"
  /\ IF sw[pick] = "none" THEN Reference(pick) ELSE UNCHANGED <<sw, refs>>
  /\ UNCHANGED <<api, obj, fins, asg, mig, copy, related, mem, pick, bounds>>

destination ==
  /\ pc = "destination"
  /\ \/ sw[pick] = "deleting" /\ pc' = "store" /\ UNCHANGED <<sw, refs>>
     \/ sw[pick] # "deleting" /\ pc' = "create" /\ Reference(pick)
  /\ UNCHANGED <<api, obj, fins, asg, mig, copy, related, mem, pick, bounds>>

createMigration ==
  /\ pc = "create"
  /\ mig' = [live |-> TRUE, deleting |-> FALSE, from |-> mem.ws, to |-> pick,
             state |-> "running"]
  /\ pc' = "store"
  /\ UNCHANGED <<api, obj, fins, asg, staging, related, mem, pick, bounds>>

MutStatusForgotten ==
  /\ pc \in {"store", "storeError"}
  /\ asg' = IF pc = "store" THEN asg ELSE [asg EXCEPT !.status = mem]
  /\ pc' = IF pc = "store" THEN "copy" ELSE "assign"
  /\ mem' = NoStatus /\ pick' = None
  /\ UNCHANGED <<api, obj, fins, mig, staging, related, bounds>>

(* Process stores the status; an error ends the pass.                      *)
storeStatus ==
  /\ pc \in {"store", "storeError"}
  /\ asg' = [asg EXCEPT !.status = mem]
  /\ pc' = IF pc = "store" THEN "copy" ELSE "assign"
  /\ mem' = NoStatus /\ pick' = None
  /\ UNCHANGED <<api, obj, fins, mig, staging, related, bounds>>

-----------------------------------------------------------------------------
(* copySubroutine and relatedResourcesSubroutine.                          *)

ActiveMigration == mig.live /\ mig.state # "completed"

IsBound == asg.live /\ asg.status.phase = "Bound" /\ asg.status.ws # None

(* The copy that stagingClient leads to.                                   *)
HasCopy == IsBound /\ Exists(asg.status.ws)

Stage(p) == copy' = IF Exists(p) THEN copy ELSE [copy EXCEPT ![p] = "new"]

copyToMigrationTarget ==
  /\ pc = "copy" /\ ActiveMigration
  /\ IF sw[mig.to] = "ready" THEN Stage(mig.to) ELSE UNCHANGED copy
  /\ pc' = "related"
  /\ UNCHANGED <<api, obj, fins, asg, mig, sw, refs, related, mem, pick, bounds>>

(* Copying into a workspace that is not there is an error.                 *)
copyProcess ==
  /\ pc = "copy" /\ ~ActiveMigration
  /\ IF ~IsBound THEN pc' = "related" /\ UNCHANGED copy
     ELSE IF Usable(asg.status.ws) THEN pc' = "related" /\ Stage(asg.status.ws)
     ELSE pc' = "assign" /\ UNCHANGED copy
  /\ UNCHANGED <<api, obj, fins, asg, mig, sw, refs, related, mem, pick, bounds>>

(* Providers publish related resources with an available copy.             *)
relatedProcess ==
  /\ pc = "related"
  /\ related' = IF IsBound /\ copy[asg.status.ws] = "available"
                THEN related \cup {asg.status.ws} ELSE related
  /\ pc' = "assign"
  /\ UNCHANGED <<api, obj, fins, asg, mig, staging, mem, pick, bounds>>

-----------------------------------------------------------------------------
(* Deletion: the chain runs backwards, each subroutine until it is done.   *)

Ends(s) ==
  /\ obj = "deleting" /\ pc = "assign" /\ s \in fins
  /\ s = "Copy" => "RelatedResources" \notin fins
  /\ s = "Assignment" => "Copy" \notin fins

relatedFinalize ==
  /\ Ends("RelatedResources")
  /\ IF HasCopy /\ asg.status.ws \in related
     THEN related' = related \ {asg.status.ws} /\ fins' = fins
     ELSE related' = related /\ fins' = fins \ {"RelatedResources"}
  /\ UNCHANGED <<api, obj, asg, mig, staging, worker, bounds>>

MutCopyNotAwaited ==
  /\ Ends("Copy")
  /\ copy' = IF HasCopy THEN [copy EXCEPT ![asg.status.ws] = "deleting"] ELSE copy
  /\ fins' = fins \ {"Copy"}
  /\ UNCHANGED <<api, obj, asg, mig, sw, refs, related, worker, bounds>>

copyFinalize ==
  /\ Ends("Copy")
  /\ IF HasCopy
     THEN copy' = [copy EXCEPT ![asg.status.ws] = "deleting"] /\ fins' = fins
     ELSE copy' = copy /\ fins' = fins \ {"Copy"}
  /\ UNCHANGED <<api, obj, asg, mig, sw, refs, related, worker, bounds>>

MutMigrationKept ==
  /\ Ends("Assignment") /\ mig.live /\ ~mig.deleting
  /\ Release(mig.to)
  /\ UNCHANGED <<api, obj, fins, asg, mig, copy, related, worker, bounds>>

(* Assignment.Finalize: first the Migration, ...                           *)
finalizeMigration ==
  /\ Ends("Assignment") /\ mig.live /\ ~mig.deleting
  /\ Release(mig.to)
  /\ mig' = [mig EXCEPT !.deleting = TRUE]
  /\ UNCHANGED <<api, obj, fins, asg, copy, related, worker, bounds>>

(* ... then the reference and the Assignment, ...                          *)
finalizeAssignment ==
  /\ Ends("Assignment") /\ ~mig.live /\ asg.live
  /\ IF asg.status.ws # None THEN Release(asg.status.ws) ELSE UNCHANGED <<sw, refs>>
  /\ asg' = NoAssignment
  /\ UNCHANGED <<api, obj, fins, mig, copy, related, worker, bounds>>

(* ... and the object is free to go.                                       *)
finalizeDone ==
  /\ Ends("Assignment") /\ ~mig.live /\ ~asg.live
  /\ fins' = fins \ {"Assignment"} /\ obj' = "gone"
  /\ UNCHANGED <<api, asg, mig, staging, related, worker, bounds>>

-----------------------------------------------------------------------------
(* The migration controller.                                               *)

MutStages ==
  /\ mig.live /\ ~mig.deleting /\ mig.state = "running"
  /\ Exists(mig.from) /\ Exists(mig.to)
  /\ mig' = [mig EXCEPT !.state = "completed"]
  /\ UNCHANGED <<api, obj, fins, asg, staging, related, worker, bounds>>

(* stagesSubroutine.Process mirrors the related resources of both copies   *)
(* and works through the stages.                                           *)
stagesProcess ==
  /\ mig.live /\ ~mig.deleting /\ mig.state = "running"
  /\ Exists(mig.from) /\ Exists(mig.to)
  /\ mig' = [mig EXCEPT !.state = "cutover"]
  /\ UNCHANGED <<api, obj, fins, asg, staging, related, worker, bounds>>

cutoverProcess ==
  /\ mig.live /\ ~mig.deleting /\ mig.state = "cutover"
  /\ copy[mig.to] = "available"
  /\ mig' = [mig EXCEPT !.state = "completed"]
  /\ UNCHANGED <<api, obj, fins, asg, staging, related, worker, bounds>>

(* stagesSubroutine.Finalize.                                              *)
MigrationGone ==
  /\ mig.live /\ mig.deleting
  /\ mig' = NoMigration
  /\ UNCHANGED <<api, obj, fins, asg, staging, related, worker, bounds>>

-----------------------------------------------------------------------------
(* Staging workspaces, providers, the user, failures.                      *)

StagingReady(p) ==
  /\ sw[p] = "pending" /\ sw' = [sw EXCEPT ![p] = "ready"]
  /\ UNCHANGED <<api, obj, fins, asg, mig, refs, copy, related, worker, bounds>>

StagingGone(p) ==
  /\ sw[p] = "deleting" /\ p \notin refs
  /\ sw' = [sw EXCEPT ![p] = "none"] /\ copy' = [copy EXCEPT ![p] = "none"]
  /\ UNCHANGED <<api, obj, fins, asg, mig, refs, related, worker, bounds>>

ProviderServes(p) ==
  /\ copy[p] = "new" /\ copy' = [copy EXCEPT ![p] = "available"]
  /\ UNCHANGED <<api, obj, fins, asg, mig, sw, refs, related, worker, bounds>>

CopyGone(p) ==
  /\ copy[p] = "deleting" /\ copy' = [copy EXCEPT ![p] = "none"]
  /\ UNCHANGED <<api, obj, fins, asg, mig, sw, refs, related, worker, bounds>>

(* An AcceptAPI is created, withdrawn or changed, or the object is.        *)
OfferChanges(p, a) ==
  /\ offers < MaxOffers /\ a # api[p]
  /\ api' = [api EXCEPT ![p] = a] /\ offers' = offers + 1
  /\ UNCHANGED <<obj, fins, asg, mig, staging, related, worker, fails>>

UserDelete ==
  /\ obj = "live" /\ obj' = "deleting"
  /\ UNCHANGED <<api, fins, asg, mig, staging, related, worker, bounds>>

(* A call fails or the process dies; memory is lost.                       *)
Fail ==
  /\ pc # "assign" /\ fails < MaxFails
  /\ pc' = "assign" /\ mem' = NoStatus /\ pick' = None /\ fails' = fails + 1
  /\ UNCHANGED <<api, obj, fins, asg, mig, staging, related, offers>>

-----------------------------------------------------------------------------
Init ==
  /\ api = [p \in Providers |-> "applies"]
  /\ obj = "live" /\ fins = Subroutines
  /\ asg = NoAssignment /\ mig = NoMigration
  /\ sw = [p \in Providers |-> IF p \in Shared THEN "ready" ELSE "none"]
  /\ refs = {} /\ copy = [p \in Providers |-> "none"] /\ related = {}
  /\ pc = "assign" /\ mem = NoStatus /\ pick = None
  /\ offers = 0 /\ fails = 0

Assign ==
  \/ createAssignment \/ waitForMigration \/ finishMigration \/ resolveFails
  \/ ensureBoundWaits \/ validate \/ startMigration
  \/ repointSpec \/ destination \/ createMigration \/ storeStatus

Finalize ==
  \/ relatedFinalize \/ copyFinalize
  \/ finalizeMigration \/ finalizeAssignment \/ finalizeDone

Worker == Assign \/ copyToMigrationTarget \/ copyProcess \/ relatedProcess \/ Finalize

MigrationController == stagesProcess \/ cutoverProcess \/ MigrationGone

ProviderSide(p) == StagingReady(p) \/ StagingGone(p) \/ ProviderServes(p) \/ CopyGone(p)

Next ==
  \/ Worker \/ MigrationController \/ UserDelete \/ Fail
  \/ \E p \in Providers :
       ProviderSide(p) \/ \E a \in {"none", "other", "applies"} : OfferChanges(p, a)

Spec == Init /\ [][Next]_vars

(* Every waiting answer of the controllers is a requeue, every error a     *)
(* retry; workspaces and providers get on with their work.                 *)
Fairness ==
  /\ WF_vars(Worker) /\ WF_vars(MigrationController)
  /\ \A p \in Providers :
       /\ WF_vars(StagingReady(p)) /\ WF_vars(StagingGone(p))
       /\ WF_vars(ProviderServes(p)) /\ WF_vars(CopyGone(p))

FairSpec == Spec /\ Fairness

-----------------------------------------------------------------------------
TypeOK ==
  /\ api \in [Providers -> {"none", "other", "applies"}]
  /\ obj \in {"live", "deleting", "gone"} /\ fins \subseteq Subroutines
  /\ asg \in Assignment /\ mig \in Migration
  /\ sw \in [Providers -> {"none", "pending", "ready", "deleting"}]
  /\ refs \subseteq Providers /\ related \subseteq Providers
  /\ copy \in [Providers -> {"none", "new", "available", "deleting"}]
  /\ pc \in {"assign", "spec", "destination", "create", "store", "storeError",
             "copy", "related"}
  /\ mem \in AssignmentStatus /\ pick \in Providers \cup {None}
  /\ offers \in 0..MaxOffers /\ fails \in 0..MaxFails

Available == {p \in Providers : copy[p] = "available"}

(* Once the object is served, migrations never leave it without any        *)
(* available copy, as long as it is not deleted (finishMigration removes   *)
(* the old copy only after cutoverSubroutine saw the new one available).   *)
KeepsServing ==
  [][obj = "live" /\ Available # {} => Available' # {}]_vars

(* Both staging workspaces of an active migration are referenced, and thus *)
(* kept from teardown, while the object lives (ensureBound, startMigration,*)
(* workspaceReady.Finalize).                                               *)
MigrationHeld ==
  obj = "live" /\ ActiveMigration /\ ~mig.deleting => {mig.from, mig.to} \subseteq refs

(* A deleted consumer object goes in the end, even in the midst of a       *)
(* migration (the three Finalize methods).                                 *)
DeletionCompletes == (obj = "deleting") ~> (obj = "gone")

(* While providers keep their offers, the object gets an available copy at *)
(* the provider it is assigned to, whatever fails on the way.              *)
EventuallyServed ==
  <>(obj # "live" \/ offers > 0 \/ (IsBound /\ copy[asg.status.ws] = "available"))

(* An object that never was in a migration leaves neither copies nor       *)
(* related resources behind when it goes, and no reference either if no    *)
(* pass failed (the three Finalize methods and the order they run in).     *)
CleansUp ==
  obj = "gone" /\ offers = 0 =>
    /\ related = {}
    /\ \A p \in Providers : copy[p] = "none" \/ sw[p] = "deleting"
    /\ fails = 0 => refs = {}

(* A consumer object that is gone has left no staging copy behind, except  *)
(* in workspaces that are being torn down with all they hold (the two      *)
(* Finalize methods of copy and assignment).                               *)
NoOrphanCopy ==
  obj = "gone" => \A p \in Providers : copy[p] = "none" \/ sw[p] = "deleting"

(* A consumer object that is gone holds no staging workspace any more.     *)
ReferencesReleased == obj = "gone" => refs = {}

(* A consumer object that is gone has left no related resources behind.    *)
RelatedCleaned == obj = "gone" => related = {}

(* A provider that withdraws its AcceptAPI does not keep the object as     *)
(* long as another provider applies.                                       *)
MigratesAway ==
  \A p \in Providers :
    []<>(obj # "live" \/ asg.status.prov # p \/ api[p] # "none" \/ Applying = {})

(* A migration that was started ends.                                      *)
MigrationEnds == mig.live ~> ~mig.live
===============================================================================
