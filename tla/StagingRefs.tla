----------------------------- MODULE StagingRefs -----------------------------
(***************************************************************************)
(* The life of one StagingWorkspace of the resource broker.  It is shared  *)
(* by all Assignments of a consumer cluster to the same provider and       *)
(* export: each holds a reference finalizer, written by the brokered       *)
(* resource controllers (ensureBound, addStagingWorkspaceRef,              *)
(* releaseStagingWorkspace), one call to the API server at a time.  The    *)
(* StagingWorkspace controller, a lifecycle engine over an informer cache, *)
(* creates the kcp workspace behind it and tears it down.                  *)
(***************************************************************************)
EXTENDS Integers, FiniteSets

CONSTANTS
  Owners,       (* Assignments that share the staging workspace            *)
  MaxRequests,  (* how often a consumer object is created, all in all      *)
  MaxDeletes,   (* how often one is deleted                                *)
  MaxChanges,   (* how often the provider changes its permission claims    *)
  MaxFails      (* how often a brokered resource controller fails mid-pass *)

ASSUME RefsAssumption ==
  /\ IsFiniteSet(Owners)
  /\ MaxRequests \in Nat /\ MaxDeletes \in Nat /\ MaxChanges \in Nat
  /\ MaxFails \in Nat

VARIABLES
  sw,       (* the StagingWorkspace object on the API server               *)
  cache,    (* the version the StagingWorkspace controller has of it       *)
  ws,       (* the kcp workspace behind it                                 *)
  binding,  (* the APIBinding in the kcp workspace                         *)
  copies,   (* owners whose staging copy is in the kcp workspace           *)
  want,     (* owners whose consumer object exists and is not deleted      *)
  asg,      (* stored status of each owner's Assignment                    *)
  pc,       (* where each brokered resource controller stands              *)
  read,     (* the StagingWorkspace it has read last                       *)
  requests, (* consumer objects created so far                             *)
  deletes,  (* consumer objects deleted so far                             *)
  changes,  (* changes of permission claims so far                         *)
  fails     (* failures mid-pass so far                                    *)

owner == <<want, asg, pc, read>>
kcp == <<ws, binding, copies>>
bounds == <<requests, deletes, changes, fails>>
vars == <<sw, cache, kcp, owner, bounds>>

(* "New" has an empty status, "Named" names the staging workspace only.    *)
Status == {"none", "New", "Named", "Pending", "Bound"}

Phase == {"none", "Pending", "Ready", "Terminating"}

(* staging: StagingFinalizer is set; refs: owners of reference finalizers. *)
Workspace == [live : BOOLEAN, deleting : BOOLEAN, staging : BOOLEAN,
              refs : SUBSET Owners, phase : Phase]

NoWorkspace == [live |-> FALSE, deleting |-> FALSE, staging |-> FALSE,
                refs |-> {}, phase |-> "none"]

NewWorkspace(o) == [NoWorkspace EXCEPT !.live = TRUE, !.refs = {o}]

(* The API server lets a deleted object go with its last finalizer.        *)
Collect(w) ==
  IF w.deleting /\ ~w.staging /\ w.refs = {} THEN NoWorkspace ELSE w

-----------------------------------------------------------------------------
(* Brokered resource controllers: a worker per owner, since the owners     *)
(* may be objects of different kinds.                                      *)

Goto(o, l) == pc' = [pc EXCEPT ![o] = l]

Forget(o) == read' = [read EXCEPT ![o] = NoWorkspace]

Stay(o, l) == Goto(o, l) /\ UNCHANGED <<want, asg, read>>

Remember(o, l) ==
  read' = [read EXCEPT ![o] = sw] /\ Goto(o, l) /\ UNCHANGED <<want, asg>>

(* Where the worker goes from assignmentSubroutine.Process: a bound        *)
(* Assignment lets the copy subroutine do its work.                        *)
After(p) == IF p = "Bound" THEN "copy" ELSE "idle"

(* assignmentSubroutine.Process stores the new status if it has changed.   *)
SetStatus(o, p) ==
  /\ Forget(o) /\ Goto(o, IF asg[o] = p THEN After(p) ELSE p)
  /\ UNCHANGED <<want, asg>>

(* An error: the status names the staging workspace all the same.          *)
Error(o) ==
  /\ Forget(o) /\ Goto(o, IF asg[o] = "New" THEN "Named" ELSE "idle")
  /\ UNCHANGED <<want, asg>>

(* createAssignment, for a new consumer object.                            *)
createAssignment(o) ==
  /\ o \in want /\ asg[o] = "none" /\ pc[o] = "idle"
  /\ asg' = [asg EXCEPT ![o] = "New"]
  /\ UNCHANGED <<sw, cache, kcp, want, pc, read, bounds>>

updateStatus(o) ==
  /\ pc[o] \in {"Named", "Pending", "Bound"}
  /\ asg' = [asg EXCEPT ![o] = pc[o]]
  /\ Goto(o, After(pc[o]))
  /\ UNCHANGED <<sw, cache, kcp, want, read, bounds>>

(* ensureBound reads the StagingWorkspace and decides what to do.          *)
ensureBound(o) ==
  /\ o \in want /\ asg[o] # "none" /\ pc[o] = "idle"
  /\ Remember(o, IF ~sw.live THEN "create" ELSE IF sw.deleting THEN "release" ELSE "add")
  /\ UNCHANGED <<sw, cache, kcp, bounds>>

(* The StagingWorkspace is created with the reference in place; another    *)
(* owner may have been faster.                                             *)
createStagingWorkspace(o) ==
  /\ pc[o] = "create"
  /\ \/ ~sw.live /\ sw' = NewWorkspace(o) /\ SetStatus(o, "Pending")
     \/ sw.live /\ sw' = sw /\ Error(o)
  /\ UNCHANGED <<cache, kcp, bounds>>

(* The phase ensureBound has seen before it made sure of the reference.    *)
Bound(o) == SetStatus(o, IF read[o].phase = "Ready" THEN "Bound" ELSE "Pending")

(* addStagingWorkspaceRef reads again ...                                  *)
addRefGet(o) ==
  /\ pc[o] = "add"
  /\ \/ ~sw.live /\ Error(o)
     \/ sw.live /\ o \in sw.refs /\ Bound(o)
     \/ /\ sw.live /\ o \notin sw.refs
        /\ read' = [read EXCEPT ![o] = [sw EXCEPT !.phase = read[o].phase]]
        /\ Goto(o, "addUpdate") /\ UNCHANGED <<want, asg>>
  /\ UNCHANGED <<sw, cache, kcp, bounds>>

(* Nobody has written the object since o read it.                          *)
Unchanged(o) ==
  sw.live /\ sw.deleting = read[o].deleting /\ sw.staging = read[o].staging
    /\ sw.refs = read[o].refs

MutConflictIgnored(o) ==
  /\ pc[o] = "addUpdate" /\ Bound(o)
  /\ sw' = IF Unchanged(o) /\ ~sw.deleting /\ read[o].refs = {}
            THEN [sw EXCEPT !.refs = @ \cup {o}] ELSE sw
  /\ UNCHANGED <<cache, kcp, bounds>>

(* ... and updates, starting over on a conflict.  A deleted object takes   *)
(* no new finalizer.                                                       *)
addRefUpdate(o) ==
  /\ pc[o] = "addUpdate"
  /\ \/ /\ Unchanged(o) /\ ~sw.deleting
        /\ sw' = [sw EXCEPT !.refs = @ \cup {o}]
        /\ Bound(o)
     \/ ~Unchanged(o) /\ sw' = sw /\ Stay(o, "add")
     \/ Unchanged(o) /\ sw.deleting /\ sw' = sw /\ Error(o)
  /\ UNCHANGED <<cache, kcp, bounds>>

(* Copy.Process writes the staging copy of a bound Assignment, or fails    *)
(* because the workspace is not there.                                     *)
copyProcess(o) ==
  /\ pc[o] = "copy"
  /\ copies' = IF ws = "ready" THEN copies \cup {o} ELSE copies
  /\ Stay(o, "idle")
  /\ UNCHANGED <<sw, cache, ws, binding, bounds>>

(* Copy.Finalize: the copy is deleted and its end awaited, but only if the *)
(* Assignment is bound.                                                    *)
copyFinalize(o) ==
  /\ o \notin want /\ asg[o] = "Bound" /\ pc[o] = "idle" /\ o \in copies
  /\ copies' = copies \ {o}
  /\ UNCHANGED <<sw, cache, ws, binding, owner, bounds>>

(* The copy stands no longer in the way of Assignment.Finalize.            *)
CopyDone(o) == asg[o] # "Bound" \/ o \notin copies

DeleteAssignment(o) ==
  /\ asg' = [asg EXCEPT ![o] = "none"]
  /\ Forget(o) /\ Goto(o, "idle") /\ UNCHANGED want

(* Assignment.Finalize: a status without a staging workspace means that    *)
(* there is none to release.                                               *)
assignmentFinalize(o) ==
  /\ o \notin want /\ asg[o] # "none" /\ pc[o] = "idle" /\ CopyDone(o)
  /\ IF asg[o] = "New" THEN DeleteAssignment(o) ELSE Stay(o, "release")
  /\ UNCHANGED <<sw, cache, kcp, bounds>>

(* The reference is gone: the Assignment is deleted, or, if the workspace  *)
(* was found terminating, awaits a new one.                                *)
Released(o) == IF o \in want THEN SetStatus(o, "Pending") ELSE DeleteAssignment(o)

(* releaseStagingWorkspace reads ...                                       *)
releaseGet(o) ==
  /\ pc[o] = "release"
  /\ \/ ~sw.live /\ Released(o)
     \/ sw.live /\ o \in sw.refs /\ Remember(o, "releaseUpdate")
     \/ sw.live /\ o \notin sw.refs /\ sw.refs # {} /\ Released(o)
     \/ sw.live /\ sw.refs = {} /\ Remember(o, "delete")
  /\ UNCHANGED <<sw, cache, kcp, bounds>>

(* ... updates, starting over on a conflict, ...                           *)
releaseUpdate(o) ==
  /\ pc[o] = "releaseUpdate"
  /\ \/ /\ Unchanged(o)
        /\ LET refs == sw.refs \ {o}
           IN  /\ sw' = Collect([sw EXCEPT !.refs = refs])
               /\ IF refs = {} THEN Stay(o, "delete")
                               ELSE Released(o)
     \/ ~Unchanged(o) /\ sw' = sw /\ Stay(o, "release")
  /\ UNCHANGED <<cache, kcp, bounds>>

(* ... and deletes what it saw without references, by name.                *)
releaseDelete(o) ==
  /\ pc[o] = "delete"
  /\ sw' = IF sw.live THEN Collect([sw EXCEPT !.deleting = TRUE]) ELSE sw
  /\ Released(o)
  /\ UNCHANGED <<cache, kcp, bounds>>

(* A call fails or the process dies, and with it what was not yet stored.  *)
Fail(o) ==
  /\ pc[o] # "idle" /\ fails < MaxFails
  /\ Forget(o) /\ Goto(o, "idle") /\ fails' = fails + 1
  /\ UNCHANGED <<sw, cache, kcp, want, asg, requests, deletes, changes>>

-----------------------------------------------------------------------------
(* The StagingWorkspace controller.                                        *)

(* The engine's addFinalizers: a merge patch of the list in the cache.     *)
addFinalizers ==
  /\ cache.live /\ ~cache.deleting /\ ~cache.staging
  /\ sw.live /\ ~sw.deleting
  /\ sw' = [sw EXCEPT !.staging = TRUE, !.refs = cache.refs]
  /\ UNCHANGED <<cache, kcp, owner, bounds>>

Report(p) ==
  sw' = IF sw.live /\ p # cache.phase THEN [sw EXCEPT !.phase = p] ELSE sw

(* workspaceReady.Process, bindingReady.Process and the status patch.      *)
Process ==
  /\ cache.live /\ ~cache.deleting /\ cache.staging
  /\ \/ /\ ws = "none"
        /\ ws' = "creating" /\ binding' = "unset" /\ Report("Pending")
     \/ /\ ws \in {"creating", "deleting"}
        /\ Report("Pending") /\ UNCHANGED <<ws, binding>>
     \/ /\ ws = "ready" /\ binding = "unset"
        /\ binding' = "set" /\ ws' = ws /\ Report("Pending")
     \/ /\ ws = "ready" /\ binding = "set"
        /\ Report("Pending") /\ UNCHANGED <<ws, binding>>
     \/ /\ ws = "ready" /\ binding = "bound"
        /\ Report("Ready") /\ UNCHANGED <<ws, binding>>
  /\ UNCHANGED <<cache, copies, owner, bounds>>

MutTeardown ==
  /\ cache.live /\ cache.deleting /\ cache.staging
  /\ ws \in {"creating", "ready"}
  /\ ws' = "deleting" /\ Report("Terminating")
  /\ UNCHANGED <<cache, binding, copies, owner, bounds>>

(* workspaceReady.Finalize while the kcp workspace exists: references hold *)
(* the teardown back.                                                      *)
FinalizeTeardown ==
  /\ cache.live /\ cache.deleting /\ cache.staging /\ cache.refs = {}
  /\ ws \in {"creating", "ready"}
  /\ ws' = "deleting" /\ Report("Terminating")
  /\ UNCHANGED <<cache, binding, copies, owner, bounds>>

(* workspaceReady.Finalize once it is gone: the engine's patch writes the  *)
(* list without the finalizer, to whatever object has the name now.        *)
FinalizeDone ==
  /\ cache.live /\ cache.deleting /\ cache.staging /\ cache.refs = {}
  /\ ws = "none"
  /\ sw' = IF sw.live THEN Collect([sw EXCEPT !.staging = FALSE, !.refs = {}]) ELSE sw
  /\ sw' # sw
  /\ UNCHANGED <<cache, kcp, owner, bounds>>

Sync ==
  /\ cache # sw
  /\ cache' = sw
  /\ UNCHANGED <<sw, kcp, owner, bounds>>

-----------------------------------------------------------------------------
(* kcp, the provider and the consumers.                                    *)

WorkspaceBecomesReady ==
  /\ ws = "creating" /\ ws' = "ready"
  /\ UNCHANGED <<sw, cache, binding, copies, owner, bounds>>

BindingBecomesBound ==
  /\ ws = "ready" /\ binding = "set" /\ binding' = "bound"
  /\ UNCHANGED <<sw, cache, ws, copies, owner, bounds>>

(* What is in a workspace goes with it.                                    *)
WorkspaceGone ==
  /\ ws = "deleting"
  /\ ws' = "none" /\ binding' = "unset" /\ copies' = {}
  /\ UNCHANGED <<sw, cache, owner, bounds>>

ClaimsChange ==
  /\ binding = "bound" /\ changes < MaxChanges
  /\ binding' = "unset" /\ changes' = changes + 1
  /\ UNCHANGED <<sw, cache, ws, copies, owner, requests, deletes, fails>>

ConsumerCreated(o) ==
  /\ o \notin want /\ asg[o] = "none" /\ requests < MaxRequests
  /\ want' = want \cup {o} /\ requests' = requests + 1
  /\ UNCHANGED <<sw, cache, kcp, asg, pc, read, deletes, changes, fails>>

(* The worker is between passes when it sees the deletion.                 *)
ConsumerDeleted(o) ==
  /\ o \in want /\ pc[o] = "idle" /\ deletes < MaxDeletes
  /\ want' = want \ {o} /\ deletes' = deletes + 1
  /\ UNCHANGED <<sw, cache, kcp, asg, pc, read, requests, changes, fails>>

-----------------------------------------------------------------------------
Init ==
  /\ sw = NoWorkspace /\ cache = NoWorkspace
  /\ ws = "none" /\ binding = "unset" /\ copies = {}
  /\ want = {} /\ asg = [o \in Owners |-> "none"]
  /\ pc = [o \in Owners |-> "idle"] /\ read = [o \in Owners |-> NoWorkspace]
  /\ requests = 0 /\ deletes = 0 /\ changes = 0 /\ fails = 0

OwnerStep(o) ==
  \/ createAssignment(o) \/ ensureBound(o) \/ createStagingWorkspace(o)
  \/ addRefGet(o) \/ addRefUpdate(o) \/ updateStatus(o)
  \/ copyProcess(o) \/ copyFinalize(o) \/ assignmentFinalize(o)
  \/ releaseGet(o) \/ releaseUpdate(o) \/ releaseDelete(o)

ControllerStep == addFinalizers \/ Process \/ FinalizeTeardown \/ FinalizeDone

KcpStep == WorkspaceBecomesReady \/ BindingBecomesBound \/ WorkspaceGone

Next ==
  \/ \E o \in Owners : OwnerStep(o) \/ Fail(o) \/ ConsumerCreated(o) \/ ConsumerDeleted(o)
  \/ ControllerStep \/ Sync \/ KcpStep \/ ClaimsChange

Spec == Init /\ [][Next]_vars

(* Workers and controllers come back as long as there is something to do   *)
(* (every waiting answer is a requeue, every error a retry) and kcp makes  *)
(* progress; failures are at most MaxFails.                                *)
Fairness ==
  /\ \A o \in Owners : WF_vars(OwnerStep(o))
  /\ WF_vars(addFinalizers) /\ WF_vars(Process)
  /\ WF_vars(FinalizeTeardown) /\ WF_vars(FinalizeDone)
  /\ WF_vars(Sync) /\ WF_vars(KcpStep)

FairSpec == Spec /\ Fairness

-----------------------------------------------------------------------------
TypeOK ==
  /\ sw \in Workspace /\ cache \in Workspace
  /\ ws \in {"none", "creating", "ready", "deleting"}
  /\ binding \in {"unset", "set", "bound"}
  /\ copies \subseteq Owners /\ want \subseteq Owners
  /\ asg \in [Owners -> Status]
  /\ pc \in [Owners -> {"idle", "create", "add", "addUpdate", "release",
                       "releaseUpdate", "delete", "copy", "Named", "Pending", "Bound"}]
  /\ read \in [Owners -> Workspace]
  /\ requests \in 0..MaxRequests /\ deletes \in 0..MaxDeletes
  /\ changes \in 0..MaxChanges /\ fails \in 0..MaxFails

(* The kcp workspace is torn down only while nobody holds a reference on   *)
(* the StagingWorkspace, although the controller looks for references in   *)
(* its cache (workspaceReady.Finalize).                                    *)
TeardownUnreferenced ==
  [][ws # "deleting" /\ ws' = "deleting" => sw.refs = {}]_vars

(* The StagingWorkspace is deleted only when no reference finalizers       *)
(* remain (releaseStagingWorkspace).                                       *)
DeletedUnreferenced ==
  [][~sw.deleting /\ sw'.deleting => sw.refs = {}]_vars

(* The staging copy is gone before the Assignment is (Copy.Finalize,       *)
(* Assignment.Finalize).                                                   *)
CopyGoneFirst ==
  [][\A o \in copies : asg[o] # "none" => asg'[o] # "none" \/ o \notin copies']_vars

(* No reference outlives its Assignment: nobody would ever release it      *)
(* (ensureBound, Assignment.Finalize).                                     *)
NoReferenceLeaked ==
  \A o \in Owners \ want : asg[o] = "none" => o \notin sw.refs

(* As long as nothing is deleted every consumer object ends up with a      *)
(* bound Assignment, a reference and a staging copy for good, whatever     *)
(* order workers and controller go in, and whatever reference the engine's *)
(* finalizer patch has overwritten (ensureBound, copySubroutine.Process).  *)
SelfHeals ==
  [](deletes = 0) =>
    \A o \in Owners :
      (o \in want) ~> [](asg[o] = "Bound" /\ o \in sw.refs /\ o \in copies)

(* Every consumer object gets a bound Assignment in the end, whatever      *)
(* deletions and re-creations of the shared workspace come in between      *)
(* (ensureBound).                                                          *)
EventuallyBound ==
  \A o \in Owners : (o \in want) ~> (asg[o] = "Bound" \/ o \notin want)
==============================================================================
