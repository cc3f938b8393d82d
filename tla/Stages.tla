-------------------------------- MODULE Stages --------------------------------
(***************************************************************************)
(* One Migration and its stages (resource broker, migration controller).   *)
(* A stage deploys templates as workloads of the compute cluster, waits    *)
(* for them, deletes them and names the next stage in the status; after    *)
(* the last one the cutover waits for the copy at the destination.  The    *)
(* pass reads the Migration from a cache and may end at any point.         *)
(***************************************************************************)
EXTENDS Naturals, FiniteSets

CONSTANTS
  StageCount,   (* the number of stages                                    *)
  Template,     (* the names of templates                                  *)
  TemplatesOf,  (* function: the templates of each stage                   *)
  Checked,      (* the stages with success conditions                      *)
  Progress,     (* the stages marked progress                              *)
  MaxFaults,    (* bound on passes that end early                          *)
  MaxStale      (* bound on passes that start from an outdated copy        *)

ASSUME StagesAssumption ==
  /\ StageCount \in Nat /\ IsFiniteSet(Template)
  /\ TemplatesOf \in [1..StageCount -> SUBSET Template]
  /\ Checked \subseteq 1..StageCount /\ Progress \subseteq 1..StageCount
  /\ MaxFaults \in Nat /\ MaxStale \in Nat

VARIABLES
  migration, (* the Migration on the API server                            *)
  cachedMig, (* the controller's cached version of it                      *)
  copies,    (* the staging copies at origin and destination               *)
  met,       (* the stages whose preconditions hold                        *)
  work,      (* the workloads in the compute cluster, by name              *)
  finished,  (* the <<stage, template>> whose workload has completed       *)
  at,        (* where the pass stands                                      *)
  hand,      (* what it has read and got in hand                           *)
  used       (* how much of each bound is used up                          *)

world == <<copies, met>>
compute == <<work, finished>>
stagesVars == <<migration, cachedMig, world, compute, at, hand, used>>

(* stage 0: none named yet.                                                *)
NoStages == [state |-> "none", stage |-> 0, fins |-> FALSE, deleting |-> FALSE]

NoWork == [state |-> "none", stage |-> 0]

(* The status as read, the status in memory, the workloads in hand as they *)
(* were read.                                                              *)
NoHand == [orig |-> NoStages, cur |-> NoStages, taken |-> [t \in {} |-> NoWork]]

Current == IF hand.cur.stage = 0 THEN 1 ELSE hand.cur.stage

Quiet == at' = "idle" /\ hand' = NoHand

Fails == used.faults < MaxFaults /\ used' = [used EXCEPT !.faults = @ + 1]

-----------------------------------------------------------------------------
(* The consumer's assignment creates and deletes the Migration; the copies *)
(* and the workloads live their own lives.                                 *)

CreateMigration ==
  /\ migration = NoStages /\ ~used.created
  /\ migration' = [NoStages EXCEPT !.state = "unknown"]
  /\ used' = [used EXCEPT !.created = TRUE]
  /\ UNCHANGED <<cachedMig, world, compute, at, hand>>

DeleteMigration ==
  /\ migration.state = "cutoverCompleted" /\ ~migration.deleting
  /\ migration' = IF migration.fins THEN [migration EXCEPT !.deleting = TRUE] ELSE NoStages
  /\ UNCHANGED <<cachedMig, world, compute, at, hand, used>>

Sync ==
  /\ cachedMig # migration /\ cachedMig' = migration
  /\ UNCHANGED <<migration, world, compute, at, hand, used>>

CopyAppears ==
  /\ copies # "available"
  /\ copies' = IF copies = "none" THEN "present" ELSE "available"
  /\ UNCHANGED <<migration, cachedMig, met, compute, at, hand, used>>

PreconditionsHold ==
  /\ \E s \in (1..StageCount) \ met : met' = met \cup {s}
  /\ UNCHANGED <<migration, cachedMig, copies, compute, at, hand, used>>

WorkCompletes ==
  /\ \E t \in Template :
       /\ work[t].state = "running"
       /\ work' = [work EXCEPT ![t].state = "done"]
       /\ finished' = finished \cup {<<work[t].stage, t>>}
  /\ UNCHANGED <<migration, cachedMig, world, at, hand, used>>

WorkGoes ==
  /\ \E t \in Template :
       /\ work[t].state \in {"terminating", "terminatingDone"}
       /\ work' = [work EXCEPT ![t] = NoWork]
  /\ UNCHANGED <<migration, cachedMig, world, finished, at, hand, used>>

-----------------------------------------------------------------------------
(* The pass.                                                               *)

StagesStart ==
  /\ at = "idle" /\ cachedMig.state # "none"
  /\ \/ cachedMig = migration /\ used' = used
     \/ /\ cachedMig # migration /\ used.stale < MaxStale
        /\ used' = [used EXCEPT !.stale = @ + 1]
  /\ hand' = [NoHand EXCEPT !.orig = cachedMig, !.cur = cachedMig]
  /\ at' = CASE cachedMig.deleting -> "finalize"
             [] ~cachedMig.deleting /\ ~cachedMig.fins -> "fins"
             [] OTHER -> "process"
  /\ UNCHANGED <<migration, cachedMig, world, compute>>

AddFinalizer ==
  /\ at = "fins"
  /\ migration' = IF migration.state = "none" \/ migration.deleting THEN migration
                  ELSE [migration EXCEPT !.fins = TRUE]
  /\ Quiet
  /\ UNCHANGED <<cachedMig, world, compute, used>>

(* The end of the chain: the changed fields of the status are patched.     *)
Patched(m) ==
  IF migration.state = "none" THEN migration
  ELSE [migration EXCEPT !.state = IF m.state # hand.orig.state THEN m.state ELSE @,
                   !.stage = IF m.stage # hand.orig.stage THEN m.stage ELSE @]

EndWith(m) == migration' = Patched(m) /\ Quiet

(* stagesSubroutine.Process up to the preconditions.                       *)
Picked(m) == IF m.state = "unknown" THEN [m EXCEPT !.state = "pending"] ELSE m

Begin ==
  /\ at = "process"
  /\ LET m == Picked(hand.cur)
         s == Current
     IN  \/ /\ hand.cur.state \in {"cutoverInProgress", "cutoverCompleted"}
            /\ at' = "cutover" /\ UNCHANGED <<migration, hand>>
         \/ /\ hand.cur.state \notin {"cutoverInProgress", "cutoverCompleted"}
            /\ copies # "none"
            /\ IF StageCount = 0
               THEN /\ hand' = [hand EXCEPT !.cur = [m EXCEPT !.state = "cutoverInProgress"]]
                    /\ at' = "cutover" /\ migration' = migration
               ELSE IF s \in met
               THEN /\ hand' = [hand EXCEPT !.cur = [m EXCEPT
                                 !.state = IF @ = "pending" THEN "initialInProgress" ELSE @]]
                    /\ at' = "deploy" /\ migration' = migration
               ELSE EndWith(m)
         \/ /\ hand.cur.state \notin {"cutoverInProgress", "cutoverCompleted"}
            /\ copies = "none" /\ EndWith(m)
  /\ UNCHANGED <<cachedMig, world, compute, used>>

(* A workload of the right name is taken as it is.                         *)
Taken(t) == work[t]

(* deployStage, one template after the other.                              *)
Deploy ==
  /\ at = "deploy"
  /\ LET todo == TemplatesOf[Current] \ DOMAIN hand.taken
     IN  IF todo = {} THEN at' = "check" /\ UNCHANGED <<hand, work>>
         ELSE \E t \in todo :
                /\ at' = at
                /\ work' = IF work[t].state # "none" THEN work
                           ELSE [work EXCEPT ![t] = [state |-> "running", stage |-> Current]]
                /\ hand' = [hand EXCEPT
                             !.taken = [u \in (DOMAIN @) \cup {t} |->
                                          IF u = t THEN Taken(t) ELSE @[u]]]
  /\ UNCHANGED <<migration, cachedMig, world, finished, used>>

MutAnySucceeds == \E t \in DOMAIN hand.taken : hand.taken[t].state = "done"

(* checkSuccessConditions over the workloads as they were read.            *)
Success ==
  Current \notin Checked
    \/ \A t \in DOMAIN hand.taken : hand.taken[t].state \in {"done", "terminatingDone"}

CheckSuccess ==
  /\ at = "check"
  /\ IF Success THEN at' = "delete" /\ UNCHANGED <<migration, hand>> ELSE EndWith(hand.cur)
  /\ UNCHANGED <<cachedMig, world, compute, used>>

Terminating(w) == [w EXCEPT !.state = CASE w.state \in {"running", "terminating"} -> "terminating"
                                        [] w.state = "none" -> "none"
                                        [] OTHER -> "terminatingDone"]

Removed(t) == Terminating(work[t])

MutForgetsStage(m) == [m EXCEPT !.state = IF @ = "initialInProgress"
                                          THEN "initialCompleted" ELSE @]

(* The status names the next stage.                                        *)
Advanced(m) ==
  [m EXCEPT !.stage = Current + 1,
            !.state = IF Current \in Progress /\ @ = "initialInProgress"
                      THEN "initialCompleted" ELSE @]

(* The workloads are deleted one after the other, then the status moves on.*)
DeleteOrAdvance ==
  /\ at = "delete"
  /\ IF DOMAIN hand.taken # {}
     THEN \E t \in DOMAIN hand.taken :
            /\ work' = [work EXCEPT ![t] = Removed(t)]
            /\ hand' = [hand EXCEPT !.taken = [u \in (DOMAIN @) \ {t} |-> @[u]]]
            /\ UNCHANGED <<at, migration>>
     ELSE /\ work' = work
          /\ IF Current + 1 > StageCount
             THEN /\ hand' = [hand EXCEPT !.cur.state = "cutoverInProgress"]
                  /\ at' = "cutover" /\ migration' = migration
             ELSE EndWith(Advanced(hand.cur))
  /\ UNCHANGED <<cachedMig, world, finished, used>>

DestinationAvailable == copies = "available"

(* cutoverSubroutine.Process.                                              *)
Cutover ==
  /\ at = "cutover"
  /\ EndWith(IF hand.cur.state = "cutoverInProgress" /\ DestinationAvailable
             THEN [hand.cur EXCEPT !.state = "cutoverCompleted"] ELSE hand.cur)
  /\ UNCHANGED <<cachedMig, world, compute, used>>

(* stagesSubroutine.Finalize deletes the templates of all stages.          *)
FinalizedTemplates == UNION {TemplatesOf[s] : s \in 1..StageCount}

FinalizeStages ==
  /\ at = "finalize"
  /\ \E t \in FinalizedTemplates : work[t].state \in {"running", "done"}
  /\ \E t \in FinalizedTemplates :
       /\ work[t].state \in {"running", "done"}
       /\ work' = [work EXCEPT ![t] = Terminating(@)]
  /\ UNCHANGED <<migration, cachedMig, world, finished, at, hand, used>>

Finalized ==
  /\ at = "finalize"
  /\ \A t \in FinalizedTemplates : work[t].state \notin {"running", "done"}
  /\ migration' = IF migration.deleting THEN NoStages ELSE migration
  /\ Quiet
  /\ UNCHANGED <<cachedMig, world, compute, used>>

(* A call fails or the process stops: what is in memory is lost.           *)
PassEnds ==
  /\ at # "idle" /\ Fails /\ Quiet
  /\ UNCHANGED <<migration, cachedMig, world, compute>>

-----------------------------------------------------------------------------
StagesInit ==
  /\ migration = NoStages /\ cachedMig = NoStages
  /\ copies = "none" /\ met = {}
  /\ work = [t \in Template |-> NoWork] /\ finished = {}
  /\ at = "idle" /\ hand = NoHand
  /\ used = [created |-> FALSE, faults |-> 0, stale |-> 0]

Pass ==
  \/ StagesStart \/ AddFinalizer \/ Begin \/ Deploy \/ CheckSuccess \/ DeleteOrAdvance \/ Cutover
  \/ FinalizeStages \/ Finalized

World == CopyAppears \/ PreconditionsHold \/ WorkCompletes \/ WorkGoes

StagesNext == CreateMigration \/ DeleteMigration \/ Sync \/ World \/ Pass \/ PassEnds

StagesSpec == StagesInit /\ [][StagesNext]_stagesVars

(* The controller polls, informers deliver, the data gets migrated.  A     *)
(* world step each makes progress, so one condition serves them all.       *)
StagesFairness ==
  WF_stagesVars(Pass) /\ WF_stagesVars(Sync) /\ WF_stagesVars(World)

-----------------------------------------------------------------------------
Migrations ==
  [state : {"none", "unknown", "pending", "initialInProgress", "initialCompleted",
            "cutoverInProgress", "cutoverCompleted"},
   stage : 0..StageCount, fins : BOOLEAN, deleting : BOOLEAN]
Workloads ==
  [state : {"none", "running", "done", "terminating", "terminatingDone"}, stage : 0..StageCount]

StagesTypeOK ==
  /\ migration \in Migrations /\ cachedMig \in Migrations
  /\ copies \in {"none", "present", "available"} /\ met \subseteq 1..StageCount
  /\ work \in [Template -> Workloads] /\ finished \subseteq (1..StageCount) \X Template
  /\ at \in {"idle", "fins", "process", "deploy", "check", "delete", "cutover", "finalize"}
  /\ hand = [orig |-> hand.orig, cur |-> hand.cur, taken |-> hand.taken]
  /\ hand.orig \in Migrations /\ hand.cur \in Migrations
  /\ DOMAIN hand.taken \subseteq Template /\ hand.taken \in [DOMAIN hand.taken -> Workloads]
  /\ used \in [created : BOOLEAN, faults : 0..MaxFaults, stale : 0..MaxStale]

(* A stage without success conditions moves on at once, as the API's       *)
(* warning has it, and a stage without templates has nothing to wait for.  *)
Waiting == {s \in Checked : TemplatesOf[s] # {}}
Moved == {s \in Waiting : \A t \in TemplatesOf[s] : <<s, t>> \in finished}

(* A Migration that has come and gone has been completed.                  *)
Phase ==
  IF migration.state = "cutoverInProgress" THEN "cutover"
  ELSE IF migration.state = "cutoverCompleted" \/ (migration = NoStages /\ used.created)
  THEN "completed" ELSE "stages"

(* The stages of the status refine the phases of a migration.              *)
Phases == INSTANCE MigrationPhases WITH Waiting <- Waiting, moved <- Moved, phase <- Phase

StagesInOrder == Phases!Spec

(* The consumer is moved in the end.                                       *)
MigrationCompletes == used.created ~> migration.state \in {"cutoverCompleted", "none"}
=============================================================================
