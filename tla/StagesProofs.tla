----------------------------- MODULE StagesProofs -----------------------------
(***************************************************************************)
(* Proofs about Stages, for any number of stages and templates: the stages *)
(* implement MigrationPhases when no two of them use the name of a         *)
(* template.                                                               *)
(***************************************************************************)
EXTENDS Stages, TLAPS

(* The names of a migration's workloads are those of its templates: stages *)
(* that share one take each other's workloads, and a stage may end with    *)
(* what an earlier one has left.                                           *)
NamesApart ==
  \A s, u \in 1..StageCount : s # u => TemplatesOf[s] \cap TemplatesOf[u] = {}

Before(n) == {s \in Waiting : s < n}

(* A status names a stage once the earlier ones have moved, and speaks of  *)
(* the cutover once all have; it is completed once the copy is there.      *)
Sound(m, moved, there) ==
  /\ Before(m.stage) \subseteq moved
  /\ m.state \in {"cutoverInProgress", "cutoverCompleted"} => moved = Waiting
  /\ m.state = "cutoverCompleted" => there = "available"
  /\ m.deleting => moved = Waiting

(* A workload was deployed by the stage of its template, after the earlier *)
(* ones had moved, and what it has done is remembered.                     *)
Deployed(t, w, moved, done) ==
  w.state # "none" =>
    /\ w.stage \in 1..StageCount /\ t \in TemplatesOf[w.stage]
    /\ Before(w.stage) \subseteq moved
    /\ w.state \in {"done", "terminatingDone"} => <<w.stage, t>> \in done

(* The stage of the pass is one whose turn it is; it is left once it has   *)
(* moved itself.                                                           *)
Turn ==
  /\ Current \in 1..StageCount /\ Before(Current) \subseteq Moved
  /\ hand.cur.state \notin {"cutoverInProgress", "cutoverCompleted"}
  /\ DOMAIN hand.taken \subseteq TemplatesOf[Current]
  /\ at = "check" => DOMAIN hand.taken = TemplatesOf[Current]
  /\ at = "delete" /\ Current \in Waiting => Current \in Moved

Statuses ==
  /\ Sound(migration, Moved, copies) /\ Sound(cachedMig, Moved, copies)
  /\ Sound(hand.cur, Moved, copies) /\ Sound(hand.orig, Moved, copies)

Works ==
  /\ \A t \in Template : Deployed(t, work[t], Moved, finished)
  /\ \A t \in DOMAIN hand.taken : Deployed(t, hand.taken[t], Moved, finished)

PassFacts ==
  /\ at # "idle" => hand.cur.state # "none" /\ hand.orig.state # "none"
  /\ at = "process" => DOMAIN hand.taken = {}
  /\ at \in {"deploy", "check", "delete"} => Turn

(* Before it is created and after it has gone there is no Migration.       *)
Ends ==
  /\ migration.state = "none" => migration = NoStages
  /\ cachedMig.state = "none" => cachedMig = NoStages
  /\ migration = NoStages /\ used.created => Moved = Waiting
  /\ ~used.created => migration = NoStages /\ cachedMig = NoStages

StagesInv == StagesTypeOK /\ Statuses /\ Works /\ PassFacts /\ Ends

---------------------------------------------------------------------------
LEMMA Constants ==
  /\ StageCount \in Nat /\ Waiting \subseteq 1..StageCount
  /\ \A s \in 1..StageCount : TemplatesOf[s] \subseteq Template
  /\ NoStages \in Migrations /\ NoWork \in Workloads
  /\ Before(0) = {} /\ Before(1) = {}
<1>1. StageCount \in Nat /\ Waiting \subseteq 1..StageCount
  BY StagesAssumption DEF Waiting
<1>2. \A s \in 1..StageCount : TemplatesOf[s] \subseteq Template
  BY StagesAssumption
<1>3. NoStages \in Migrations /\ NoWork \in Workloads
  BY <1>1 DEF NoStages, NoWork, Migrations, Workloads
<1>4. Before(0) = {} /\ Before(1) = {}
  <2>1. \A s \in Waiting : s \in Nat /\ ~(s < 0) /\ ~(s < 1)
    BY <1>1
  <2> QED
    BY <2>1 DEF Before
<1> QED
  BY <1>1, <1>2, <1>3, <1>4

(* What has moved has moved for good.                                      *)
LEMMA MovedGrows ==
  ASSUME finished \subseteq finished'
  PROVE  Moved \subseteq Moved' /\ Moved \subseteq Waiting /\ Moved' \subseteq Waiting
BY DEF Moved

LEMMA SoundGrows ==
  ASSUME NEW m, NEW moved, NEW there, Sound(m, moved, there),
         NEW moved2, NEW there2, moved \subseteq moved2, moved2 \subseteq Waiting,
         there = "available" => there2 = "available"
  PROVE  Sound(m, moved2, there2)
BY DEF Sound

LEMMA DeployedGrows ==
  ASSUME NEW t, NEW w, NEW moved, NEW done, Deployed(t, w, moved, done),
         NEW moved2, NEW done2, moved \subseteq moved2, done \subseteq done2
  PROVE  Deployed(t, w, moved2, done2)
BY DEF Deployed

LEMMA NoneSound ==
  ASSUME NEW moved, NEW there
  PROVE  Sound(NoStages, moved, there)
BY Constants DEF Sound, NoStages

(* The empty hand.                                                         *)
LEMMA QuietHand ==
  ASSUME Quiet
  PROVE  /\ at' = "idle" /\ hand'.orig = NoStages /\ hand'.cur = NoStages
         /\ DOMAIN hand'.taken = {}
         /\ hand' = [orig |-> hand'.orig, cur |-> hand'.cur, taken |-> hand'.taken]
         /\ hand'.taken \in [DOMAIN hand'.taken -> Workloads]
BY DEF Quiet, NoHand

LEMMA StagesInvInit == StagesInit => StagesInv
<1> SUFFICES ASSUME StagesInit PROVE StagesInv
  OBVIOUS
<1>1. StagesTypeOK
  BY Constants, StagesAssumption DEF StagesInit, StagesTypeOK, NoHand
<1>2. Statuses
  BY NoneSound DEF StagesInit, Statuses, NoHand
<1>3. Works
  BY DEF StagesInit, Works, Deployed, NoWork, NoHand
<1>4. PassFacts /\ Ends
  BY DEF StagesInit, PassFacts, Ends
<1> QED
  BY <1>1, <1>2, <1>3, <1>4 DEF StagesInv

(* Steps outside the pass: what has moved grows, the copies grow, and the   *)
(* pass and the statuses stay.                                              *)
LEMMA OutsideInv ==
  ASSUME StagesInv, UNCHANGED <<migration, cachedMig, at, hand, used>>,
         copies' \in {"none", "present", "available"}, met' \subseteq 1..StageCount,
         copies = "available" => copies' = "available", finished \subseteq finished',
         finished' \subseteq (1..StageCount) \X Template, work' \in [Template -> Workloads],
         \A t \in Template : Deployed(t, work'[t], Moved', finished')
  PROVE  StagesInv'
<1>1. StagesTypeOK'
  BY DEF StagesInv, StagesTypeOK
<1>2. Moved \subseteq Moved' /\ Moved \subseteq Waiting /\ Moved' \subseteq Waiting
  BY MovedGrows
<1>3. Statuses'
  BY <1>2, SoundGrows DEF StagesInv, Statuses
<1>4. Works'
  BY <1>2, DeployedGrows DEF StagesInv, Works
<1>5. PassFacts'
  BY <1>2 DEF StagesInv, PassFacts, Turn, Current
<1>6. Ends'
  BY <1>2 DEF StagesInv, Ends
<1> QED
  BY <1>1, <1>3, <1>4, <1>5, <1>6 DEF StagesInv

LEMMA WorkCompletesInv == StagesInv /\ WorkCompletes => StagesInv'
<1> SUFFICES ASSUME StagesInv, WorkCompletes PROVE StagesInv'
  OBVIOUS
<1>1. PICK t \in Template :
        /\ work[t].state = "running" /\ work' = [work EXCEPT ![t].state = "done"]
        /\ finished' = finished \cup {<<work[t].stage, t>>}
  BY DEF WorkCompletes
<1>2. work \in [Template -> Workloads] /\ Deployed(t, work[t], Moved, finished)
  BY DEF StagesInv, StagesTypeOK, Works
<1>3. work[t].stage \in 1..StageCount /\ finished' \subseteq (1..StageCount) \X Template
  BY <1>1, <1>2 DEF Deployed, StagesInv, StagesTypeOK
<1>4. work' \in [Template -> Workloads]
  BY <1>1, <1>2 DEF Workloads
<1>5. Moved \subseteq Moved'
  BY <1>1, MovedGrows
<1>6. ASSUME NEW u \in Template
      PROVE  Deployed(u, work'[u], Moved', finished')
  <2>1. CASE u = t
    <3>1. work'[t].state = "done" /\ work'[t].stage = work[t].stage
      BY <1>1, <1>2 DEF Workloads
    <3>2. /\ work[t].stage \in 1..StageCount /\ t \in TemplatesOf[work[t].stage]
          /\ Before(work[t].stage) \subseteq Moved
      BY <1>1, <1>2 DEF Deployed
    <3> QED
      BY <1>1, <1>5, <2>1, <3>1, <3>2 DEF Deployed
  <2>2. CASE u # t
    BY <1>1, <1>2, <1>5, <2>2, DeployedGrows DEF StagesInv, Works
  <2> QED
    BY <2>1, <2>2
<1>7. /\ UNCHANGED <<migration, cachedMig, copies, met, at, hand, used>>
      /\ copies \in {"none", "present", "available"} /\ met \subseteq 1..StageCount
  BY DEF WorkCompletes, world, StagesInv, StagesTypeOK
<1> QED
  BY <1>1, <1>3, <1>4, <1>6, <1>7, OutsideInv

LEMMA WorkGoesInv == StagesInv /\ WorkGoes => StagesInv'
<1> SUFFICES ASSUME StagesInv, WorkGoes PROVE StagesInv'
  OBVIOUS
<1>1. PICK t \in Template : work' = [work EXCEPT ![t] = NoWork]
  BY DEF WorkGoes
<1>2. /\ UNCHANGED <<migration, cachedMig, copies, met, finished, at, hand, used>>
      /\ StagesTypeOK
  BY DEF WorkGoes, world, StagesInv
<1>3. work' \in [Template -> Workloads]
  BY <1>1, <1>2, Constants DEF StagesTypeOK
<1>4. Moved' = Moved
  BY <1>2 DEF Moved
<1>5. \A u \in Template : Deployed(u, work'[u], Moved', finished')
  BY <1>1, <1>2, <1>4 DEF StagesInv, Works, StagesTypeOK, Deployed, NoWork
<1> QED
  BY <1>2, <1>3, <1>5, OutsideInv DEF StagesTypeOK

LEMMA CopyInv == StagesInv /\ (CopyAppears \/ PreconditionsHold) => StagesInv'
<1> SUFFICES ASSUME StagesInv, CopyAppears \/ PreconditionsHold PROVE StagesInv'
  OBVIOUS
<1>1. /\ UNCHANGED <<migration, cachedMig, at, hand, used, work, finished>>
      /\ copies' \in {"none", "present", "available"}
      /\ copies = "available" => copies' = "available"
      /\ met' \subseteq 1..StageCount
  BY DEF CopyAppears, PreconditionsHold, compute, StagesInv, StagesTypeOK
<1>2. Moved' = Moved
  BY <1>1 DEF Moved
<1> QED
  BY <1>1, <1>2, OutsideInv DEF StagesInv, StagesTypeOK, Works

---------------------------------------------------------------------------
(* Steps of the pass.  The status is patched field by field, onto whatever  *)
(* the Migration is by then.                                                *)
LEMMA PatchedFacts ==
  ASSUME StagesInv, NEW m \in Migrations, m.state # "none", Sound(m, Moved, copies)
  PROVE  /\ Patched(m) \in Migrations /\ Sound(Patched(m), Moved, copies)
         /\ Patched(m).state = "none" => Patched(m) = NoStages
         /\ migration.state = "none" => Patched(m) = migration
         /\ Patched(m).state \in {migration.state, m.state}
<1>1. /\ migration \in Migrations /\ Sound(migration, Moved, copies)
      /\ migration.state = "none" => migration = NoStages
  BY DEF StagesInv, StagesTypeOK, Statuses, Ends
<1>2. CASE migration.state = "none"
  BY <1>1, <1>2 DEF Patched
<1>3. CASE migration.state # "none"
  <2>1. /\ Patched(m).state \in {migration.state, m.state}
        /\ Patched(m).stage \in {migration.stage, m.stage}
        /\ Patched(m).deleting = migration.deleting /\ Patched(m).fins = migration.fins
    BY <1>1, <1>3 DEF Patched, Migrations
  <2>2. Patched(m) \in Migrations
    BY <1>1, <1>3 DEF Patched, Migrations
  <2>3. Sound(Patched(m), Moved, copies)
    BY <1>1, <2>1 DEF Sound
  <2> QED
    BY <1>1, <1>3, <2>1, <2>2, <2>3
<1> QED
  BY <1>2, <1>3

(* What the pass leaves alone, and what it may do to the rest.              *)
LEMMA PassInv ==
  ASSUME StagesInv, UNCHANGED <<cachedMig, copies, met, finished>>,
         used' \in [created : BOOLEAN, faults : 0..MaxFaults, stale : 0..MaxStale],
         used'.created = used.created,
         migration' \in Migrations, Sound(migration', Moved, copies),
         migration'.state = "none" => migration' = NoStages,
         migration = NoStages => migration' = NoStages,
         migration' = NoStages => migration = NoStages \/ Moved = Waiting,
         work' \in [Template -> Workloads],
         \A t \in Template : Deployed(t, work'[t], Moved, finished),
         at' \in {"idle", "fins", "process", "deploy", "check", "delete", "cutover", "finalize"},
         hand' = [orig |-> hand'.orig, cur |-> hand'.cur, taken |-> hand'.taken],
         hand'.orig \in Migrations, Sound(hand'.orig, Moved, copies),
         hand'.cur \in Migrations, Sound(hand'.cur, Moved, copies),
         DOMAIN hand'.taken \subseteq Template,
         hand'.taken \in [DOMAIN hand'.taken -> Workloads],
         \A t \in DOMAIN hand'.taken : Deployed(t, hand'.taken[t], Moved, finished),
         PassFacts'
  PROVE  StagesInv'
<1>1. Moved' = Moved
  BY DEF Moved
<1>2. StagesTypeOK'
  BY DEF StagesInv, StagesTypeOK
<1>3. Statuses'
  BY <1>1 DEF StagesInv, Statuses
<1>4. Works'
  BY <1>1 DEF Works
<1>5. Ends'
  BY <1>1 DEF StagesInv, Ends
<1> QED
  BY <1>2, <1>3, <1>4, <1>5 DEF StagesInv

(* A pass that ends, with the stored Migration changed or not.              *)
LEMMA QuietInv ==
  ASSUME StagesInv, Quiet, UNCHANGED <<cachedMig, copies, met, finished>>,
         used' \in [created : BOOLEAN, faults : 0..MaxFaults, stale : 0..MaxStale],
         used'.created = used.created,
         migration' \in Migrations, Sound(migration', Moved, copies),
         migration'.state = "none" => migration' = NoStages,
         migration = NoStages => migration' = NoStages,
         migration' = NoStages => migration = NoStages \/ Moved = Waiting,
         work' = work
  PROVE  StagesInv'
<1>1. /\ Sound(NoStages, Moved, copies) /\ NoStages \in Migrations
  BY NoneSound, Constants
<1>2. PassFacts'
  BY QuietHand DEF PassFacts
<1>3. /\ work' \in [Template -> Workloads]
      /\ \A t \in Template : Deployed(t, work'[t], Moved, finished)
  BY DEF StagesInv, StagesTypeOK, Works
<1> QED
  BY <1>1, <1>2, <1>3, QuietHand, PassInv

LEMMA EndWithInv ==
  ASSUME StagesInv, NEW m \in Migrations, m.state # "none", Sound(m, Moved, copies),
         EndWith(m), UNCHANGED <<cachedMig, copies, met, work, finished, used>>
  PROVE  StagesInv'
<1>1. migration' = Patched(m) /\ Quiet
  BY DEF EndWith
<1>2. used' \in [created : BOOLEAN, faults : 0..MaxFaults, stale : 0..MaxStale]
  BY DEF StagesInv, StagesTypeOK
<1>3. migration = NoStages => migration.state = "none"
  BY DEF NoStages
<1>4. /\ migration' \in Migrations /\ Sound(migration', Moved, copies)
      /\ migration'.state = "none" => migration' = NoStages
      /\ migration = NoStages => migration' = NoStages
      /\ migration' = NoStages => migration = NoStages
  <2>1. /\ migration' \in Migrations /\ Sound(migration', Moved, copies)
        /\ migration'.state = "none" => migration' = NoStages
        /\ migration.state = "none" => migration' = migration
        /\ migration'.state \in {migration.state, m.state}
    BY <1>1, PatchedFacts
  <2>2. migration' = NoStages => migration.state = "none"
    BY <2>1 DEF NoStages
  <2> QED
    BY <1>3, <2>1, <2>2
<1> QED
  BY <1>1, <1>2, <1>4, QuietInv

LEMMA ApiInv == StagesInv /\ (CreateMigration \/ DeleteMigration \/ Sync) => StagesInv'
<1> SUFFICES ASSUME StagesInv, CreateMigration \/ DeleteMigration \/ Sync PROVE StagesInv'
  OBVIOUS
<1>1. UNCHANGED <<copies, met, work, finished, at, hand>>
  BY DEF CreateMigration, DeleteMigration, Sync, world, compute
<1>2. Moved' = Moved
  BY <1>1 DEF Moved
<1>3. Works' /\ PassFacts'
  BY <1>1, <1>2 DEF StagesInv, Works, PassFacts, Turn, Current
<1>4. /\ migration' \in Migrations /\ cachedMig' \in Migrations
      /\ used' \in [created : BOOLEAN, faults : 0..MaxFaults, stale : 0..MaxStale]
      /\ Sound(migration', Moved, copies) /\ Sound(cachedMig', Moved, copies) /\ Ends'
  <2>0. /\ migration \in Migrations /\ cachedMig \in Migrations
        /\ used \in [created : BOOLEAN, faults : 0..MaxFaults, stale : 0..MaxStale]
        /\ Sound(migration, Moved, copies) /\ Sound(cachedMig, Moved, copies) /\ Ends
    BY DEF StagesInv, StagesTypeOK, Statuses
  <2>1. CASE CreateMigration
    <3>1. /\ migration' = [NoStages EXCEPT !.state = "unknown"] /\ cachedMig' = cachedMig
          /\ used' = [used EXCEPT !.created = TRUE]
      BY <2>1 DEF CreateMigration
    <3>2. migration' \in Migrations /\ migration'.state = "unknown"
      BY <3>1, Constants DEF NoStages, Migrations
    <3>3. Sound(migration', Moved, copies)
      BY <3>1, NoneSound DEF Sound, NoStages
    <3>4. /\ used'.created
          /\ used' \in [created : BOOLEAN, faults : 0..MaxFaults, stale : 0..MaxStale]
      BY <2>0, <3>1
    <3>5. Ends'
      BY <2>0, <3>1, <3>2, <3>4 DEF Ends, NoStages
    <3> QED
      BY <2>0, <3>1, <3>2, <3>3, <3>4, <3>5
  <2>2. CASE DeleteMigration
    <3>1. /\ cachedMig' = cachedMig /\ used' = used /\ migration.state = "cutoverCompleted"
          /\ migration' \in {[migration EXCEPT !.deleting = TRUE], NoStages}
      BY <2>2 DEF DeleteMigration
    <3>2. Moved = Waiting /\ migration # NoStages
      BY <2>0, <3>1 DEF Sound, NoStages
    <3>3. CASE migration' = NoStages
      BY <2>0, <1>2, <3>1, <3>2, <3>3, NoneSound, Constants DEF Ends
    <3>4. CASE migration' = [migration EXCEPT !.deleting = TRUE]
      <4>1. /\ migration' \in Migrations /\ migration'.state = migration.state
            /\ migration'.stage = migration.stage
        BY <2>0, <3>4 DEF Migrations
      <4>2. Sound(migration', Moved, copies)
        BY <2>0, <3>2, <4>1 DEF Sound
      <4>3. Ends'
        BY <2>0, <1>2, <3>1, <3>2, <4>1 DEF Ends
      <4> QED
        BY <2>0, <3>1, <4>1, <4>2, <4>3
    <3> QED
      BY <3>1, <3>3, <3>4
  <2>3. CASE Sync
    <3>1. migration' = migration /\ cachedMig' = migration /\ used' = used
      BY <2>3 DEF Sync
    <3> QED
      BY <2>0, <1>2, <3>1 DEF Ends
  <2> QED
    BY <2>1, <2>2, <2>3
<1>5. StagesTypeOK'
  BY <1>1, <1>4 DEF StagesInv, StagesTypeOK
<1>6. Statuses'
  BY <1>1, <1>2, <1>4 DEF StagesInv, Statuses
<1> QED
  BY <1>3, <1>4, <1>5, <1>6 DEF StagesInv

(* The facts a step of the pass starts from.                                *)
LEMMA PassTypes ==
  ASSUME StagesInv
  PROVE  /\ migration \in Migrations /\ cachedMig \in Migrations
         /\ hand.orig \in Migrations /\ hand.cur \in Migrations
         /\ Sound(migration, Moved, copies) /\ Sound(cachedMig, Moved, copies)
         /\ Sound(hand.cur, Moved, copies) /\ Sound(hand.orig, Moved, copies)
         /\ used \in [created : BOOLEAN, faults : 0..MaxFaults, stale : 0..MaxStale]
         /\ migration.state = "none" => migration = NoStages
         /\ work \in [Template -> Workloads]
         /\ \A t \in Template : Deployed(t, work[t], Moved, finished)
         /\ hand = [orig |-> hand.orig, cur |-> hand.cur, taken |-> hand.taken]
         /\ DOMAIN hand.taken \subseteq Template
         /\ hand.taken \in [DOMAIN hand.taken -> Workloads]
         /\ \A t \in DOMAIN hand.taken : Deployed(t, hand.taken[t], Moved, finished)
         /\ PassFacts
BY DEF StagesInv, StagesTypeOK, Statuses, Works, Ends

LEMMA StartInv == StagesInv /\ StagesStart => StagesInv'
<1> SUFFICES ASSUME StagesInv, StagesStart PROVE StagesInv'
  OBVIOUS
<1>0. /\ cachedMig \in Migrations /\ Sound(cachedMig, Moved, copies)
      /\ used \in [created : BOOLEAN, faults : 0..MaxFaults, stale : 0..MaxStale]
  BY PassTypes
<1>1. /\ hand'.orig = cachedMig /\ hand'.cur = cachedMig /\ DOMAIN hand'.taken = {}
      /\ hand' = [orig |-> hand'.orig, cur |-> hand'.cur, taken |-> hand'.taken]
      /\ hand'.taken \in [DOMAIN hand'.taken -> Workloads]
  BY DEF StagesStart, NoHand
<1>2. at' \in {"fins", "process", "finalize"} /\ cachedMig.state # "none"
  BY DEF StagesStart
<1>3. UNCHANGED <<migration, cachedMig, copies, met, work, finished>>
  BY DEF StagesStart, world, compute
<1>4. /\ used' \in [created : BOOLEAN, faults : 0..MaxFaults, stale : 0..MaxStale]
      /\ used'.created = used.created
  BY <1>0, StagesAssumption DEF StagesStart
<1>5. PassFacts'
  BY <1>1, <1>2 DEF PassFacts
<1> QED
  BY <1>0, <1>1, <1>2, <1>3, <1>4, <1>5, PassTypes, PassInv

LEMMA FinalizeInv == StagesInv /\ (AddFinalizer \/ Finalized \/ PassEnds) => StagesInv'
<1> SUFFICES ASSUME StagesInv, AddFinalizer \/ Finalized \/ PassEnds PROVE StagesInv'
  OBVIOUS
<1>0. /\ migration \in Migrations /\ Sound(migration, Moved, copies)
      /\ migration.state = "none" => migration = NoStages
      /\ used \in [created : BOOLEAN, faults : 0..MaxFaults, stale : 0..MaxStale]
  BY PassTypes
<1>1. Quiet /\ UNCHANGED <<cachedMig, copies, met, work, finished>>
  BY DEF AddFinalizer, Finalized, PassEnds, world, compute
<1>2. /\ used' \in [created : BOOLEAN, faults : 0..MaxFaults, stale : 0..MaxStale]
      /\ used'.created = used.created
  BY <1>0, StagesAssumption DEF AddFinalizer, Finalized, PassEnds, Fails
<1>3. \/ migration' = migration
      \/ migration' = [migration EXCEPT !.fins = TRUE] /\ migration.state # "none"
      \/ migration' = NoStages /\ migration.deleting
  BY DEF AddFinalizer, Finalized, PassEnds
<1>4. migration' \in Migrations /\ Sound(migration', Moved, copies)
  BY <1>0, <1>3, NoneSound, Constants DEF Migrations, Sound
<1>5. /\ migration'.state = "none" => migration' = NoStages
      /\ migration = NoStages => migration' = NoStages
      /\ migration' = NoStages => migration = NoStages \/ Moved = Waiting
  BY <1>0, <1>3 DEF Migrations, Sound, NoStages
<1> QED
  BY <1>1, <1>2, <1>4, <1>5, QuietInv

(* A step that only changes what the pass has in hand, or the workloads.    *)
LEMMA HandInv ==
  ASSUME StagesInv, UNCHANGED <<migration, cachedMig, copies, met, finished, used>>,
         work' \in [Template -> Workloads],
         \A t \in Template : Deployed(t, work'[t], Moved, finished),
         at' \in {"process", "deploy", "check", "delete", "cutover", "finalize"},
         hand' = [orig |-> hand.orig, cur |-> hand'.cur, taken |-> hand'.taken],
         hand'.cur \in Migrations, Sound(hand'.cur, Moved, copies),
         DOMAIN hand'.taken \subseteq Template,
         hand'.taken \in [DOMAIN hand'.taken -> Workloads],
         \A t \in DOMAIN hand'.taken : Deployed(t, hand'.taken[t], Moved, finished),
         PassFacts'
  PROVE  StagesInv'
<1>1. hand' = [orig |-> hand'.orig, cur |-> hand'.cur, taken |-> hand'.taken]
      /\ hand'.orig = hand.orig
  OBVIOUS
<1> QED
  BY <1>1, PassTypes, PassInv

LEMMA PickedFacts ==
  ASSUME NEW m \in Migrations, NEW moved, NEW there, Sound(m, moved, there),
         m.state # "none"
  PROVE  /\ Picked(m) \in Migrations /\ Sound(Picked(m), moved, there)
         /\ Picked(m).state \in {m.state, "pending"} /\ Picked(m).stage = m.stage
         /\ Picked(m).deleting = m.deleting
BY DEF Picked, Migrations, Sound

LEMMA BeginInv == StagesInv /\ Begin => StagesInv'
<1> SUFFICES ASSUME StagesInv, Begin PROVE StagesInv'
  OBVIOUS
<1> DEFINE m == Picked(hand.cur)
<1>0. /\ hand.cur \in Migrations /\ Sound(hand.cur, Moved, copies) /\ hand.cur.state # "none"
      /\ hand.orig.state # "none" /\ DOMAIN hand.taken = {}
      /\ hand = [orig |-> hand.orig, cur |-> hand.cur, taken |-> hand.taken]
  BY PassTypes DEF PassFacts, Begin
<1>1. /\ m \in Migrations /\ Sound(m, Moved, copies) /\ m.state \in {hand.cur.state, "pending"}
      /\ m.stage = hand.cur.stage /\ m.state # "none"
  BY <1>0, PickedFacts
<1>2. UNCHANGED <<cachedMig, copies, met, work, finished, used>>
  BY DEF Begin, world, compute
<1>3. CASE EndWith(m)
  BY <1>1, <1>2, <1>3, EndWithInv
<1>4. CASE at' = "cutover" /\ UNCHANGED <<migration, hand>>
  <2>1. PassFacts'
    BY <1>0, <1>4 DEF PassFacts
  <2> QED
    BY <1>0, <1>2, <1>4, <2>1, PassTypes, HandInv
<1>5. CASE /\ StageCount = 0 /\ at' = "cutover" /\ migration' = migration
           /\ hand' = [hand EXCEPT !.cur = [m EXCEPT !.state = "cutoverInProgress"]]
  <2>1. /\ hand' = [orig |-> hand.orig, cur |-> hand'.cur, taken |-> hand'.taken]
        /\ hand'.cur = [m EXCEPT !.state = "cutoverInProgress"] /\ hand'.taken = hand.taken
    BY <1>0, <1>5
  <2>2. Moved = Waiting
    BY <1>5, Constants DEF Moved
  <2>3. /\ hand'.cur \in Migrations /\ hand'.cur.state = "cutoverInProgress"
        /\ hand'.cur.stage = m.stage
    BY <1>1, <2>1 DEF Migrations
  <2>4. Sound(hand'.cur, Moved, copies)
    BY <1>1, <2>2, <2>3 DEF Sound
  <2>5. PassFacts'
    BY <1>0, <1>5, <2>1, <2>3 DEF PassFacts
  <2> QED
    BY <1>0, <1>2, <1>5, <2>1, <2>3, <2>4, <2>5, PassTypes, HandInv
<1>6. CASE /\ hand.cur.state \notin {"cutoverInProgress", "cutoverCompleted"}
           /\ Current \in met /\ at' = "deploy" /\ migration' = migration
           /\ hand' = [hand EXCEPT !.cur = [m EXCEPT
                         !.state = IF @ = "pending" THEN "initialInProgress" ELSE @]]
  <2>1. /\ hand' = [orig |-> hand.orig, cur |-> hand'.cur, taken |-> hand'.taken]
        /\ hand'.cur = [m EXCEPT !.state = IF @ = "pending" THEN "initialInProgress" ELSE @]
        /\ hand'.taken = hand.taken
    BY <1>0, <1>6
  <2>2. /\ hand'.cur \in Migrations /\ hand'.cur.stage = m.stage
        /\ hand'.cur.state \in {m.state, "initialInProgress"}
        /\ hand'.cur.deleting = m.deleting
    BY <1>1, <2>1 DEF Migrations
  <2>3. Sound(hand'.cur, Moved, copies)
    BY <1>1, <2>2 DEF Sound
  <2>4. Current' = Current /\ Current \in 1..StageCount /\ Before(Current) \subseteq Moved
    <3>1. Current' = Current
      BY <1>1, <2>2 DEF Current
    <3>2. Current \in 1..StageCount
      BY <1>6 DEF StagesInv, StagesTypeOK
    <3>3. Before(Current) \subseteq Moved
      BY <1>0, Constants DEF Current, Sound
    <3> QED
      BY <3>1, <3>2, <3>3
  <2>5. Moved' = Moved
    BY <1>2 DEF Moved
  <2>6. PassFacts'
    BY <1>0, <1>1, <1>6, <2>1, <2>2, <2>4, <2>5 DEF PassFacts, Turn
  <2> QED
    BY <1>0, <1>2, <1>6, <2>1, <2>2, <2>3, <2>6, PassTypes, HandInv
<1> QED
  BY <1>3, <1>4, <1>5, <1>6 DEF Begin

LEMMA DeployInv == StagesInv /\ Deploy => StagesInv'
<1> SUFFICES ASSUME StagesInv, Deploy PROVE StagesInv'
  OBVIOUS
<1>0. /\ Turn /\ hand.cur.state # "none" /\ hand.orig.state # "none"
      /\ hand = [orig |-> hand.orig, cur |-> hand.cur, taken |-> hand.taken]
      /\ hand.cur \in Migrations /\ Sound(hand.cur, Moved, copies)
  BY PassTypes DEF PassFacts, Deploy
<1>1. UNCHANGED <<migration, cachedMig, copies, met, finished, used>> /\ Moved' = Moved
  BY DEF Deploy, world, Moved
<1>2. TemplatesOf[Current] \subseteq Template
  BY <1>0, Constants DEF Turn
<1>3. CASE /\ TemplatesOf[Current] \ DOMAIN hand.taken = {}
           /\ at' = "check" /\ UNCHANGED <<hand, work>>
  <2>1. DOMAIN hand.taken = TemplatesOf[Current]
    BY <1>0, <1>3 DEF Turn
  <2>2. PassFacts'
    BY <1>0, <1>1, <1>3, <2>1 DEF PassFacts, Turn, Current
  <2> QED
    BY <1>0, <1>1, <1>3, <2>2, PassTypes, HandInv
<1>4. ASSUME NEW t \in TemplatesOf[Current] \ DOMAIN hand.taken, at' = at, at = "deploy",
             work' = IF work[t].state # "none" THEN work
                     ELSE [work EXCEPT ![t] = [state |-> "running", stage |-> Current]],
             hand' = [hand EXCEPT !.taken = [u \in DOMAIN @ \cup {t} |->
                                              IF u = t THEN Taken(t) ELSE @[u]]]
      PROVE  StagesInv'
  <2>0. t \in Template
    BY <1>2, <1>4
  <2>1. /\ hand' = [orig |-> hand.orig, cur |-> hand.cur, taken |-> hand'.taken]
        /\ hand'.taken = [u \in DOMAIN hand.taken \cup {t} |->
                            IF u = t THEN work[t] ELSE hand.taken[u]]
    BY <1>0, <1>4 DEF Taken
  <2>2. /\ work \in [Template -> Workloads]
        /\ DOMAIN hand'.taken = DOMAIN hand.taken \cup {t}
        /\ hand'.taken \in [DOMAIN hand'.taken -> Workloads]
    BY <2>0, <2>1, PassTypes
  <2>3. \A u \in DOMAIN hand'.taken : Deployed(u, hand'.taken[u], Moved, finished)
    BY <2>0, <2>1, PassTypes
  <2>4. [state |-> "running", stage |-> Current] \in Workloads
    BY <1>0, StagesAssumption DEF Turn, Workloads
  <2>5. work' \in [Template -> Workloads]
    BY <1>4, <2>0, <2>2, <2>4
  <2>6. \A u \in Template : Deployed(u, work'[u], Moved, finished)
    <3>1. Deployed(t, [state |-> "running", stage |-> Current], Moved, finished)
      BY <1>0, <1>4 DEF Deployed, Turn
    <3> QED
      BY <1>4, <2>2, <3>1, PassTypes
  <2>7. hand'.cur = hand.cur /\ hand'.orig = hand.orig
    BY <2>1
  <2>8. PassFacts'
    BY <1>0, <1>1, <1>4, <2>2, <2>7 DEF PassFacts, Turn, Current
  <2>9. DOMAIN hand'.taken \subseteq Template
    BY <2>0, <2>2, PassTypes
  <2> QED
    BY <1>0, <1>1, <1>4, <2>1, <2>2, <2>3, <2>5, <2>6, <2>7, <2>8, <2>9, HandInv
<1> QED
  BY <1>3, <1>4 DEF Deploy

(* A stage succeeds with workloads of its own: the names are apart, so      *)
(* what was taken under its templates was deployed by it.                   *)
LEMMA SuccessMoves ==
  ASSUME NamesApart, StagesInv, at = "check", Success, Current \in Waiting
  PROVE  Current \in Moved
<1>1. /\ Current \in 1..StageCount /\ DOMAIN hand.taken = TemplatesOf[Current]
  BY PassTypes DEF PassFacts, Turn
<1>2. \A t \in TemplatesOf[Current] : hand.taken[t].state \in {"done", "terminatingDone"}
  BY <1>1 DEF Success, Waiting
<1>3. ASSUME NEW t \in TemplatesOf[Current]
      PROVE  <<Current, t>> \in finished
  <2>1. Deployed(t, hand.taken[t], Moved, finished)
    BY <1>1, PassTypes
  <2>2. /\ hand.taken[t].stage \in 1..StageCount /\ t \in TemplatesOf[hand.taken[t].stage]
        /\ <<hand.taken[t].stage, t>> \in finished
    BY <1>2, <2>1 DEF Deployed
  <2>3. hand.taken[t].stage = Current
    BY <1>1, <2>2 DEF NamesApart
  <2> QED
    BY <2>2, <2>3
<1> QED
  BY <1>3 DEF Moved

LEMMA CheckInv == NamesApart /\ StagesInv /\ CheckSuccess => StagesInv'
<1> SUFFICES ASSUME NamesApart, StagesInv, CheckSuccess PROVE StagesInv'
  OBVIOUS
<1>0. /\ Turn /\ hand.cur.state # "none" /\ hand.orig.state # "none" /\ at = "check"
      /\ hand.cur \in Migrations /\ Sound(hand.cur, Moved, copies)
  BY PassTypes DEF PassFacts, CheckSuccess
<1>1. UNCHANGED <<cachedMig, copies, met, work, finished, used>> /\ Moved' = Moved
  BY DEF CheckSuccess, world, compute, Moved
<1>2. CASE EndWith(hand.cur)
  BY <1>0, <1>1, <1>2, EndWithInv
<1>3. CASE Success /\ at' = "delete" /\ UNCHANGED <<migration, hand>>
  <2>1. Current \in Waiting => Current \in Moved
    BY <1>0, <1>3, SuccessMoves
  <2>2. PassFacts'
    BY <1>0, <1>1, <1>3, <2>1 DEF PassFacts, Turn, Current
  <2> QED
    BY <1>1, <1>3, <2>2, PassTypes, HandInv
<1> QED
  BY <1>2, <1>3 DEF CheckSuccess

LEMMA TerminatingDeployed ==
  ASSUME StagesInv, NEW t \in Template
  PROVE  /\ Terminating(work[t]) \in Workloads
         /\ Deployed(t, Terminating(work[t]), Moved, finished)
<1>1. work[t] \in Workloads /\ Deployed(t, work[t], Moved, finished)
  BY PassTypes
<1>2. /\ Terminating(work[t]).stage = work[t].stage
      /\ Terminating(work[t]).state = "none" <=> work[t].state = "none"
      /\ Terminating(work[t]).state \in {"done", "terminatingDone"}
           => work[t].state \in {"done", "terminatingDone"}
      /\ Terminating(work[t]) \in Workloads
  BY <1>1 DEF Terminating, Workloads
<1> QED
  BY <1>1, <1>2 DEF Deployed

LEMMA DeleteInv == StagesInv /\ DeleteOrAdvance => StagesInv'
<1> SUFFICES ASSUME StagesInv, DeleteOrAdvance PROVE StagesInv'
  OBVIOUS
<1>0. /\ Turn /\ hand.cur.state # "none" /\ hand.orig.state # "none" /\ at = "delete"
      /\ hand = [orig |-> hand.orig, cur |-> hand.cur, taken |-> hand.taken]
      /\ hand.cur \in Migrations /\ Sound(hand.cur, Moved, copies)
  BY PassTypes DEF PassFacts, DeleteOrAdvance
<1>1. UNCHANGED <<cachedMig, copies, met, finished, used>> /\ Moved' = Moved
  BY DEF DeleteOrAdvance, world, Moved
<1>2. ASSUME NEW t \in DOMAIN hand.taken, work' = [work EXCEPT ![t] = Removed(t)],
             hand' = [hand EXCEPT !.taken = [u \in DOMAIN @ \ {t} |-> @[u]]],
             UNCHANGED <<at, migration>>
      PROVE  StagesInv'
  <2>1. t \in Template /\ work \in [Template -> Workloads]
    BY PassTypes
  <2>2. /\ work' \in [Template -> Workloads]
        /\ \A u \in Template : Deployed(u, work'[u], Moved, finished)
    BY <1>2, <2>1, TerminatingDeployed, PassTypes DEF Removed
  <2>3. /\ hand' = [orig |-> hand.orig, cur |-> hand.cur, taken |-> hand'.taken]
        /\ hand'.taken = [u \in DOMAIN hand.taken \ {t} |-> hand.taken[u]]
    BY <1>0, <1>2
  <2>4. hand'.cur = hand.cur /\ hand'.orig = hand.orig
    BY <2>3
  <2>5. /\ DOMAIN hand'.taken = DOMAIN hand.taken \ {t}
        /\ hand'.taken \in [DOMAIN hand'.taken -> Workloads]
        /\ \A u \in DOMAIN hand'.taken : Deployed(u, hand'.taken[u], Moved, finished)
    BY <2>3, PassTypes
  <2>6. PassFacts'
    BY <1>0, <1>1, <1>2, <2>4, <2>5 DEF PassFacts, Turn, Current
  <2>7. DOMAIN hand'.taken \subseteq Template
    BY <2>5, PassTypes
  <2> QED
    BY <1>0, <1>1, <1>2, <2>2, <2>3, <2>4, <2>5, <2>6, <2>7, HandInv
<1>3. CASE /\ Current + 1 > StageCount /\ work' = work /\ migration' = migration
           /\ at' = "cutover" /\ hand' = [hand EXCEPT !.cur.state = "cutoverInProgress"]
  <2>1. Moved = Waiting
    <3>1. ASSUME NEW s \in Waiting
          PROVE  s \in Moved
      <4>1. s \in 1..StageCount /\ Current \in 1..StageCount /\ StageCount \in Nat
        BY <1>0, Constants DEF Turn
      <4>2. s < Current \/ s = Current
        BY <1>3, <4>1
      <4> QED
        BY <1>0, <4>2 DEF Turn, Before
    <3> QED
      BY <3>1 DEF Moved
  <2>2. /\ hand' = [orig |-> hand.orig, cur |-> hand'.cur, taken |-> hand'.taken]
        /\ hand'.cur = [hand.cur EXCEPT !.state = "cutoverInProgress"]
        /\ hand'.taken = hand.taken
    BY <1>0, <1>3
  <2>3. /\ hand'.cur \in Migrations /\ hand'.cur.state = "cutoverInProgress"
        /\ hand'.cur.stage = hand.cur.stage
    BY <1>0, <2>2 DEF Migrations
  <2>4. Sound(hand'.cur, Moved, copies)
    BY <1>0, <2>1, <2>3 DEF Sound
  <2>5. PassFacts'
    BY <1>0, <1>3, <2>2, <2>3 DEF PassFacts
  <2> QED
    BY <1>0, <1>1, <1>3, <2>2, <2>3, <2>4, <2>5, PassTypes, HandInv
<1>4. CASE Current + 1 <= StageCount /\ work' = work /\ EndWith(Advanced(hand.cur))
  <2> DEFINE m == Advanced(hand.cur)
  <2>1. Current \in 1..StageCount /\ StageCount \in Nat
    BY <1>0, Constants DEF Turn
  <2>2. /\ m \in Migrations /\ m.stage = Current + 1 /\ m.deleting = hand.cur.deleting
        /\ m.state \in {hand.cur.state, "initialCompleted"}
    <3>1. Current + 1 \in 0..StageCount
      BY <1>4, <2>1
    <3>2. m = [hand.cur EXCEPT !.stage = Current + 1, !.state = m.state]
      BY <1>0 DEF Advanced, Migrations
    <3>3. m.state \in {hand.cur.state, "initialCompleted"}
      BY <1>0 DEF Advanced, Migrations
    <3> HIDE DEF m
    <3> QED
      BY <1>0, <3>1, <3>2, <3>3 DEF Migrations
  <2>3. Before(Current + 1) \subseteq Moved
    <3>1. \A s \in Waiting : s < Current + 1 => s < Current \/ s = Current
      BY <2>1, Constants
    <3> QED
      BY <1>0, <3>1 DEF Turn, Before
  <2>4. Sound(m, Moved, copies) /\ m.state # "none"
    BY <1>0, <2>2, <2>3 DEF Sound, Turn
  <2> HIDE DEF m
  <2>5. EndWith(m)
    BY <1>4 DEF m
  <2> QED
    BY <1>1, <1>4, <2>2, <2>4, <2>5, EndWithInv
<1>5. (Current + 1 > StageCount) \/ (Current + 1 <= StageCount)
  BY <1>0, Constants DEF Turn
<1> QED
  BY <1>2, <1>3, <1>4, <1>5 DEF DeleteOrAdvance

LEMMA CutoverInv == StagesInv /\ Cutover => StagesInv'
<1> SUFFICES ASSUME StagesInv, Cutover PROVE StagesInv'
  OBVIOUS
<1> DEFINE m == IF hand.cur.state = "cutoverInProgress" /\ DestinationAvailable
                THEN [hand.cur EXCEPT !.state = "cutoverCompleted"] ELSE hand.cur
<1>1. /\ hand.cur \in Migrations /\ Sound(hand.cur, Moved, copies) /\ hand.cur.state # "none"
  BY PassTypes DEF PassFacts, Cutover
<1>2. m \in Migrations /\ m.state # "none" /\ Sound(m, Moved, copies)
  BY <1>1 DEF Migrations, Sound, DestinationAvailable
<1>3. EndWith(m) /\ UNCHANGED <<cachedMig, copies, met, work, finished, used>>
  BY DEF Cutover, world, compute
<1> HIDE DEF m
<1> QED
  BY <1>2, <1>3, EndWithInv

LEMMA FinalizeStagesInv == StagesInv /\ FinalizeStages => StagesInv'
<1> SUFFICES ASSUME StagesInv, FinalizeStages PROVE StagesInv'
  OBVIOUS
<1>1. PICK t \in FinalizedTemplates : work' = [work EXCEPT ![t] = Terminating(work[t])]
  BY DEF FinalizeStages
<1>2. t \in Template
  BY Constants DEF FinalizedTemplates
<1>3. /\ work' \in [Template -> Workloads]
      /\ \A u \in Template : Deployed(u, work'[u], Moved, finished)
  BY <1>1, <1>2, TerminatingDeployed, PassTypes
<1>4. /\ UNCHANGED <<migration, cachedMig, copies, met, finished, at, hand, used>>
      /\ at = "finalize" /\ Moved' = Moved
  BY DEF FinalizeStages, world, Moved
<1>5. PassFacts'
  BY <1>4, PassTypes DEF PassFacts
<1> QED
  BY <1>3, <1>4, <1>5, PassTypes, HandInv

LEMMA StagesInvStep == NamesApart /\ StagesInv /\ [StagesNext]_stagesVars => StagesInv'
<1> SUFFICES ASSUME NamesApart, StagesInv, [StagesNext]_stagesVars PROVE StagesInv'
  OBVIOUS
<1>1. CASE UNCHANGED stagesVars
  <2>1. Moved' = Moved /\ UNCHANGED <<migration, cachedMig, copies, met, work, finished, at, hand, used>>
    BY <1>1 DEF stagesVars, world, compute, Moved
  <2> QED
    BY <2>1 DEF StagesInv, StagesTypeOK, Statuses, Works, PassFacts, Turn, Current, Ends
<1>2. CASE CreateMigration \/ DeleteMigration \/ Sync
  BY <1>2, ApiInv
<1>3. CASE World
  BY <1>3, CopyInv, WorkCompletesInv, WorkGoesInv DEF World
<1>4. CASE Pass
  BY <1>4, StartInv, FinalizeInv, BeginInv, DeployInv, CheckInv, DeleteInv, CutoverInv,
     FinalizeStagesInv DEF Pass
<1>5. CASE PassEnds
  BY <1>5, FinalizeInv
<1> QED
  BY <1>1, <1>2, <1>3, <1>4, <1>5 DEF StagesNext

---------------------------------------------------------------------------
(* The refinement: every step of the stages is a step of the phases, or     *)
(* none.                                                                    *)
PhaseMeans ==
  /\ Phase \in {"stages", "cutover", "completed"}
  /\ Phase # "stages" => Moved = Waiting
  /\ Phase = "completed" =>
       migration.state = "cutoverCompleted" \/ (migration = NoStages /\ used.created)
  /\ Phase = "cutover" => migration.state = "cutoverInProgress"

LEMMA PhaseFacts == StagesInv => PhaseMeans
<1> SUFFICES ASSUME StagesInv PROVE PhaseMeans
  OBVIOUS
<1>1. /\ Sound(migration, Moved, copies)
      /\ migration = NoStages /\ used.created => Moved = Waiting
      /\ migration = NoStages => migration.state = "none"
      /\ used.created \in BOOLEAN
  BY PassTypes DEF StagesInv, Ends, NoStages
<1>2. migration.state \in {"cutoverInProgress", "cutoverCompleted"} => Moved = Waiting
  BY <1>1 DEF Sound
<1>3. \/ Phase = "cutover" /\ migration.state = "cutoverInProgress"
      \/ Phase = "completed" /\ migration.state = "cutoverCompleted"
      \/ Phase = "completed" /\ migration = NoStages /\ used.created
      \/ Phase = "stages"
  BY <1>1 DEF Phase
<1>4. Phase # "stages" => Moved = Waiting
  BY <1>1, <1>2, <1>3
<1>5. Phase = "completed" =>
        migration.state = "cutoverCompleted" \/ (migration = NoStages /\ used.created)
  BY <1>3
<1>6. Phase = "cutover" => migration.state = "cutoverInProgress"
  BY <1>3
<1> QED
  BY <1>3, <1>4, <1>5, <1>6 DEF PhaseMeans

(* The cutover is not taken back to be in progress once it is completed:    *)
(* a pass that would write that finds the copy, which completed it.         *)
LEMMA NotBack ==
  ASSUME StagesInv, StagesNext, Phase = "completed"
  PROVE  migration'.state # "cutoverInProgress"
<1> SUFFICES ASSUME migration'.state = "cutoverInProgress" PROVE FALSE
  OBVIOUS
<1>1. /\ \/ migration.state = "cutoverCompleted" /\ copies = "available"
         \/ migration = NoStages /\ used.created
      /\ migration \in Migrations
  <2>1. migration.state = "cutoverCompleted" \/ (migration = NoStages /\ used.created)
    BY PhaseFacts DEF PhaseMeans
  <2>2. Sound(migration, Moved, copies) /\ migration \in Migrations
    BY PassTypes
  <2> QED
    BY <2>1, <2>2 DEF Sound
<1>2. migration.state # "cutoverInProgress" /\ migration' # migration
  BY <1>1 DEF NoStages
<1>3. CASE CreateMigration \/ DeleteMigration \/ AddFinalizer \/ Finalized
  BY <1>1, <1>2, <1>3 DEF CreateMigration, DeleteMigration, AddFinalizer, Finalized, NoStages,
     Migrations
<1>4. ASSUME NEW m \in Migrations, EndWith(m), m.state # "none",
             m.state = "cutoverInProgress" => copies # "available"
      PROVE  FALSE
  <2>1. migration' = Patched(m) /\ (migration.state = "none" => migration' = migration)
    BY <1>4 DEF EndWith, Patched
  <2>2. migration.state = "cutoverCompleted" /\ copies = "available"
    BY <1>1, <1>2, <2>1 DEF NoStages
  <2>3. migration'.state \in {migration.state, m.state}
    BY <1>1, <2>1, <2>2 DEF Patched, Migrations
  <2> QED
    BY <1>2, <1>4, <2>2, <2>3
<1>5. CASE Begin
  <2>1. EndWith(Picked(hand.cur)) /\ hand.cur.state \notin {"cutoverInProgress", "cutoverCompleted"}
    BY <1>2, <1>5 DEF Begin
  <2>2. /\ Picked(hand.cur) \in Migrations /\ Picked(hand.cur).state # "none"
        /\ Picked(hand.cur).state # "cutoverInProgress"
    BY <1>5, <2>1, PassTypes, PickedFacts DEF PassFacts, Begin
  <2> QED
    BY <1>4, <2>1, <2>2
<1>6. CASE CheckSuccess
  <2>1. EndWith(hand.cur)
    BY <1>2, <1>6 DEF CheckSuccess
  <2>2. /\ Turn /\ hand.cur.state # "none" /\ hand.cur \in Migrations
    BY <1>6, PassTypes DEF PassFacts, CheckSuccess
  <2>3. hand.cur.state # "cutoverInProgress"
    BY <2>2 DEF Turn
  <2> QED
    BY <1>4, <2>1, <2>2, <2>3
<1>7. CASE DeleteOrAdvance
  <2>1. EndWith(Advanced(hand.cur)) /\ ~(Current + 1 > StageCount)
    BY <1>2, <1>7 DEF DeleteOrAdvance
  <2>2. /\ Turn /\ hand.cur.state # "none" /\ hand.cur \in Migrations
    BY <1>7, PassTypes DEF PassFacts, DeleteOrAdvance
  <2>3. Current + 1 \in 0..StageCount
    BY <2>1, <2>2, Constants DEF Turn
  <2>4. /\ Advanced(hand.cur).state \in {hand.cur.state, "initialCompleted"}
        /\ Advanced(hand.cur) = [hand.cur EXCEPT !.stage = Current + 1,
                                                 !.state = Advanced(hand.cur).state]
    BY <2>2 DEF Advanced, Migrations
  <2>5. Advanced(hand.cur) \in Migrations
    BY <2>2, <2>3, <2>4 DEF Migrations
  <2> QED
    BY <1>4, <2>1, <2>2, <2>4, <2>5 DEF Turn
<1>8. CASE Cutover
  <2> DEFINE m == IF hand.cur.state = "cutoverInProgress" /\ DestinationAvailable
                  THEN [hand.cur EXCEPT !.state = "cutoverCompleted"] ELSE hand.cur
  <2>1. EndWith(m)
    BY <1>8 DEF Cutover
  <2>2. hand.cur \in Migrations /\ hand.cur.state # "none"
    BY <1>8, PassTypes DEF PassFacts, Cutover
  <2>3. /\ m \in Migrations /\ m.state # "none"
        /\ m.state = "cutoverInProgress" => copies # "available"
    BY <2>2 DEF DestinationAvailable, Migrations
  <2> HIDE DEF m
  <2> QED
    BY <1>4, <2>1, <2>2, <2>3
<1>9. CASE \/ Sync \/ World \/ PassEnds \/ StagesStart \/ Deploy \/ FinalizeStages
  BY <1>2, <1>9 DEF Sync, World, CopyAppears, PreconditionsHold, WorkCompletes, WorkGoes,
     PassEnds, StagesStart, Deploy, FinalizeStages
<1> QED
  BY <1>3, <1>5, <1>6, <1>7, <1>8, <1>9 DEF StagesNext, Pass

LEMMA PhasesInit == StagesInit => Phases!Init
<1> SUFFICES ASSUME StagesInit PROVE Phases!Init
  OBVIOUS
<1>1. Moved = {}
  BY DEF StagesInit, Moved, Waiting
<1>2. Phase = "stages"
  BY DEF StagesInit, Phase, NoStages
<1> QED
  BY <1>1, <1>2 DEF Phases!Init

(* The completion of a workload moves its stage, or nothing.                *)
LEMMA WorkMoves ==
  ASSUME StagesInv, WorkCompletes
  PROVE  [Phases!Next]_(Phases!vars)
<1>1. PICK t \in Template :
        /\ work[t].state = "running" /\ finished' = finished \cup {<<work[t].stage, t>>}
  BY DEF WorkCompletes
<1> DEFINE s == work[t].stage
<1>2. s \in 1..StageCount /\ t \in TemplatesOf[s] /\ Before(s) \subseteq Moved
  BY <1>1, PassTypes DEF Deployed
<1>3. Phase' = Phase
  BY DEF WorkCompletes, Phase
<1> HIDE DEF s
<1>4. finished' = finished \cup {<<s, t>>}
  BY <1>1 DEF s
<1>5. \A u \in Waiting : u \in Moved' <=> (u \in Moved \/ (u = s /\ s \in Moved'))
  BY <1>4 DEF Moved
<1>6. Moved \subseteq Waiting /\ Moved' \subseteq Waiting
  BY DEF Moved
<1>7. CASE s \in Moved' /\ s \notin Moved
  <2>1. Moved' = Moved \cup {s} /\ s \in Waiting
    BY <1>5, <1>6, <1>7
  <2>2. Phases!Move(s)
    BY <1>2, <1>3, <1>7, <2>1 DEF Phases!Move, Before
  <2> QED
    BY <2>1, <2>2 DEF Phases!Next
<1>8. CASE ~(s \in Moved' /\ s \notin Moved)
  <2>1. Moved' = Moved
    BY <1>5, <1>6, <1>8
  <2> QED
    BY <1>3, <2>1 DEF Phases!vars
<1> QED
  BY <1>7, <1>8

LEMMA PhasesStep ==
  NamesApart /\ StagesInv /\ [StagesNext]_stagesVars => [Phases!Next]_(Phases!vars)
<1> SUFFICES ASSUME NamesApart, StagesInv, [StagesNext]_stagesVars
             PROVE  [Phases!Next]_(Phases!vars)
  OBVIOUS
<1>1. CASE WorkCompletes
  BY <1>1, WorkMoves
<1>2. CASE UNCHANGED stagesVars
  BY <1>2 DEF stagesVars, compute, Phases!vars, Moved, Phase
<1>3. CASE StagesNext /\ ~WorkCompletes
  <2>1. Moved' = Moved
    BY <1>3 DEF StagesNext, World, Pass, CreateMigration, DeleteMigration, Sync, CopyAppears,
       PreconditionsHold, WorkGoes, StagesStart, AddFinalizer, Begin, Deploy, CheckSuccess,
       DeleteOrAdvance, Cutover, FinalizeStages, Finalized, PassEnds, compute, Moved
  <2>2. StagesInv'
    BY StagesInvStep
  <2>3. /\ Phase \in {"stages", "cutover", "completed"}
        /\ Phase # "stages" => Moved = Waiting
    BY PhaseFacts DEF PhaseMeans
  <2>0. (StagesInv => PhaseMeans)'
    BY PhaseFacts, PTL
  <2>4. /\ Phase' \in {"stages", "cutover", "completed"}
        /\ Phase' # "stages" => Moved' = Waiting
        /\ Phase' = "cutover" => migration'.state = "cutoverInProgress"
    BY <2>0, <2>2 DEF PhaseMeans
  <2>5. ~(Phase = "completed" /\ Phase' = "cutover")
    BY <1>3, <2>4, NotBack
  <2>6. CASE Phase' = Phase
    BY <2>1, <2>6 DEF Phases!vars
  <2>7. CASE Phase' # Phase
    BY <2>1, <2>3, <2>4, <2>5, <2>7
       DEF Phases!Next, Phases!CutOver, Phases!Complete, Phases!Reopen
  <2> QED
    BY <2>6, <2>7
<1> QED
  BY <1>1, <1>2, <1>3

(* The stages complete in order and the consumer is moved after the last,   *)
(* with passes that start from old copies, stop anywhere, and write what    *)
(* they have read.                                                          *)
THEOREM StagesImplementPhases == ASSUME NamesApart PROVE StagesSpec => StagesInOrder
<1>1. StagesInit => StagesInv /\ Phases!Init
  BY StagesInvInit, PhasesInit
<1>2. StagesInv /\ [StagesNext]_stagesVars => StagesInv' /\ [Phases!Next]_(Phases!vars)
  BY StagesInvStep, PhasesStep
<1> QED
  BY <1>1, <1>2, PTL DEF StagesSpec, StagesInOrder, Phases!Spec
===============================================================================
