------------------------------ MODULE Lifecycle ------------------------------
(***************************************************************************)
(* The subroutine lifecycle engine (subroutines/lifecycle): one controller *)
(* that reconciles one object of a Kubernetes API server through a chain   *)
(* of subroutines.  The object is read from an informer cache that lags    *)
(* behind the server, changed in memory while the chain runs, and written  *)
(* back by merge patches that carry no resourceVersion.  Users, other      *)
(* controllers, time and crashes take steps between any two of these.      *)
(*                                                                         *)
(* Subroutine s owns the finalizer s.  Requeue durations are abstracted to *)
(* "none" or "positive", times to zero, future and past.                   *)
(***************************************************************************)
EXTENDS Integers, FiniteSets

CONSTANTS
  N,               (* length of the chain; subroutines are 1..N            *)
  Processors,      (* subroutines that implement Process                   *)
  Finalizers,      (* subroutines that implement Finalize                  *)
  Initializers,    (* subroutines that implement Initialize                *)
  Terminators,     (* subroutines that implement Terminate                 *)
  Foreign,         (* finalizers of other controllers, set at creation     *)
  HasInitializer,  (* WithInitializer was called                           *)
  HasTerminator,   (* WithTerminator was called                            *)
  HasConditions,   (* WithConditions was called                            *)
  HasSpread,       (* WithSpread was called                                *)
  ReadOnly,        (* WithReadOnly was called                              *)
  ProcessResults,  (* results Process and Initialize may return            *)
  FinalizeResults, (* results Finalize and Terminate of each may return    *)
  Faults,          (* whether API calls fail and the controller crashes    *)
  MaxGen,          (* bound on the object's generation                     *)
  MaxWorld         (* bound on the versions of the content outside         *)

Sub == 1..N

Results == {"OK", "Requeue", "Pending", "StopRequeue", "Stop",
            "SkipReady", "SkipNotReady", "Skip", "Error"}

ASSUME ChainAssumption ==
  /\ N \in Nat
  /\ Processors \subseteq Sub
  /\ Finalizers \subseteq Sub
  /\ Initializers \subseteq Sub
  /\ Terminators \subseteq Sub
  /\ Foreign \cap Sub = {}

ASSUME ConfigAssumption ==
  /\ HasInitializer \in BOOLEAN /\ HasTerminator \in BOOLEAN
  /\ HasConditions \in BOOLEAN /\ HasSpread \in BOOLEAN
  /\ ReadOnly \in BOOLEAN /\ Faults \in BOOLEAN
  /\ ProcessResults \subseteq Results
  /\ FinalizeResults \in [Sub -> SUBSET Results]
  /\ MaxGen \in Nat \ {0} /\ MaxWorld \in Nat \ {0}

(* A read-only lifecycle adds no finalizers; the one in the repository has *)
(* no Finalizer among its subroutines.                                     *)
ASSUME ReadOnlyAssumption == ReadOnly => Finalizers = {}

VARIABLES
  api,     (* the object as the API server stores it                       *)
  cache,   (* the version the controller's informer has                    *)
  queued,  (* the object's key is in the work queue                        *)
  timer,   (* a RequeueAfter is pending for the key                        *)
  pc,      (* where the reconciler stands                                  *)
  idx,     (* position in the chain, 1..N+1                                *)
  orig,    (* `original`: the object as it was read                        *)
  cur,     (* `obj`: the object the chain changes in memory                *)
  acc,     (* what the chain has accumulated so far                        *)
  ext,     (* the subroutines whose external resource exists               *)
  world,   (* version of the outside content that Process copies           *)
  inited,  (* history: subroutines whose Initialize succeeded in this pass *)
  full,    (* history: newest generation a full chain has completed for    *)
  want     (* history: outside version when the last refresh was asked for *)

rec == <<pc, idx, orig, cur, acc>>
hist == <<inited, full, want>>
vars == <<api, cache, queued, timer, rec, ext, world, hist>>

CondStatus == {"none", "Unknown", "True", "False"}

Object ==
  [live : BOOLEAN, deleting : BOOLEAN, gen : Nat,
   fins : SUBSET (Finalizers \cup Foreign), label : BOOLEAN,
   init : BOOLEAN, term : BOOLEAN,
   cond : [Sub -> CondStatus], fcond : [Sub -> CondStatus], ready : CondStatus,
   observed : Nat, next : {"zero", "future", "past"}, content : Nat]

Acc == [err : BOOLEAN, stopped : BOOLEAN, skip : {"no", "ready", "notready"},
        pending : BOOLEAN, requeue : BOOLEAN]

NewObject ==
  [live |-> TRUE, deleting |-> FALSE, gen |-> 1, fins |-> Foreign,
   label |-> FALSE, init |-> HasInitializer, term |-> HasTerminator,
   cond |-> [s \in Sub |-> "none"], fcond |-> [s \in Sub |-> "none"],
   ready |-> "none", observed |-> 0, next |-> "zero", content |-> 0]

NoAcc == [err |-> FALSE, stopped |-> FALSE, skip |-> "no",
          pending |-> FALSE, requeue |-> FALSE]

-----------------------------------------------------------------------------
(* The API server and the client library.                                  *)

(* An object that is being deleted goes when its last finalizer does.      *)
Collect(o) ==
  [o EXCEPT !.live = @ /\ ~(o.deleting /\ o.fins = {})]

(* A merge patch from `from` to `to` replaces every list that differs as a *)
(* whole and leaves alone what does not differ.                            *)
PatchMeta(o, from, to) ==
  Collect([o EXCEPT !.fins  = IF to.fins # from.fins THEN to.fins ELSE @,
                    !.label = IF to.label # from.label THEN to.label ELSE @])

(* The server refuses new finalizers on an object that is being deleted.   *)
Refused(o, from, to) ==
  o.deleting /\ to.fins # from.fins /\ ~(to.fins \subseteq o.fins)

MetaChanged(from, to) == from.fins # to.fins \/ from.label # to.label

CondsChanged(from, to) ==
  from.cond # to.cond \/ from.fcond # to.fcond \/ from.ready # to.ready

MutStatusReplaced(o, from, to) ==
  [o EXCEPT !.cond = to.cond, !.fcond = to.fcond, !.ready = to.ready,
            !.init = to.init, !.term = to.term, !.observed = to.observed,
            !.next = to.next, !.content = to.content]

PatchStatus(o, from, to) ==
  LET conds == CondsChanged(from, to)
  IN  [o EXCEPT !.cond     = IF conds THEN to.cond ELSE @,
                !.fcond    = IF conds THEN to.fcond ELSE @,
                !.ready    = IF conds THEN to.ready ELSE @,
                !.init     = IF to.init # from.init THEN to.init ELSE @,
                !.term     = IF to.term # from.term THEN to.term ELSE @,
                !.observed = IF to.observed # from.observed THEN to.observed ELSE @,
                !.next     = IF to.next # from.next THEN to.next ELSE @,
                !.content  = IF to.content # from.content THEN to.content ELSE @]

(* The client decodes the server's answer to a patch into the object that  *)
(* was sent: what the answer contains overwrites it, what is absent there  *)
(* (an empty list, a zero value) keeps the value in memory.                *)
Decode(o, answer) ==
  LET conds == answer.ready # "none"
  IN  [answer EXCEPT
         !.fins     = IF @ # {} THEN @ ELSE o.fins,
         !.cond     = IF conds THEN @ ELSE o.cond,
         !.fcond    = IF conds THEN @ ELSE o.fcond,
         !.ready    = IF conds THEN @ ELSE o.ready,
         !.init     = @ \/ o.init,
         !.term     = @ \/ o.term,
         !.observed = IF @ # 0 THEN @ ELSE o.observed,
         !.next     = IF @ # "zero" THEN @ ELSE o.next,
         !.content  = IF @ # 0 THEN @ ELSE o.content]

-----------------------------------------------------------------------------
(* Spread and conditions managers.                                         *)

MutLabelIgnored(o) == o.gen # o.observed \/ o.next \in {"zero", "past"}

MutTimeIgnored(o) == o.gen # o.observed \/ o.label \/ o.next = "zero"

ReconcileRequired(o) ==
  o.gen # o.observed \/ o.label \/ o.next \in {"zero", "past"}

(* RequeueDelay is positive only while the next reconcile time lies ahead. *)
RequeueDelayPositive(o) == o.next = "future"

InitUnknownConditions(o) ==
  LET Ensure(c) == IF c = "none" THEN "Unknown" ELSE c
  IN  IF HasConditions
      THEN [o EXCEPT !.cond = [s \in Sub |-> Ensure(@[s])], !.ready = Ensure(@)]
      ELSE o

ConditionOf(res) ==
  CASE res = "Error" -> "False"
    [] res = "Pending" -> "Unknown"
    [] res \in {"StopRequeue", "Stop"} -> "False"
    [] OTHER -> "True"

SetSubroutineCondition(o, s, res, isFinalize) ==
  IF ~HasConditions THEN o
  ELSE IF isFinalize THEN [o EXCEPT !.fcond[s] = ConditionOf(res)]
  ELSE [o EXCEPT !.cond[s] = ConditionOf(res)]

SetSkippedConditions(o, remaining, isReady) ==
  IF ~HasConditions THEN o
  ELSE [o EXCEPT !.cond = [s \in Sub |-> IF s \notin remaining THEN @[s]
                                         ELSE IF isReady THEN "True" ELSE "False"]]

MutPendingIsReady(o) ==
  IF ~HasConditions THEN o
  ELSE [o EXCEPT !.ready =
         IF acc.err \/ acc.stopped \/ acc.skip = "notready" THEN "False" ELSE "True"]

SetReadyCondition(o) ==
  IF ~HasConditions THEN o
  ELSE [o EXCEPT !.ready =
         IF acc.err \/ acc.stopped \/ acc.skip = "notready" THEN "False"
         ELSE IF acc.pending THEN "Unknown" ELSE "True"]

MutSpreadAfterStop(o) ==
  IF HasSpread /\ ~o.deleting /\ ~acc.err /\ ~acc.requeue
  THEN [o EXCEPT !.observed = o.gen, !.next = "future", !.label = FALSE]
  ELSE o

UpdateSpread(o) ==
  IF HasSpread /\ ~o.deleting /\ ~acc.err /\ ~acc.stopped /\ ~acc.requeue
  THEN [o EXCEPT !.observed = o.gen, !.next = "future", !.label = FALSE]
  ELSE o

-----------------------------------------------------------------------------
(* The reconciler.                                                         *)

Missing(o) == Finalizers \ o.fins

SpreadSkips(o) == HasSpread /\ ~o.deleting /\ ~ReconcileRequired(o)

NeedsFinalizers(o) == ~o.deleting /\ ~ReadOnly /\ Missing(o) # {}

MutForwardOnly(k) == k

(* The chain runs forwards, and backwards when the object is deleted.      *)
SubAt(k) == IF cur.deleting THEN N + 1 - k ELSE k

resolveAction(s) ==
  IF cur.deleting
  THEN IF HasTerminator /\ cur.term /\ s \in Terminators THEN "terminate"
       ELSE IF s \in Finalizers /\ s \in cur.fins THEN "finalize" ELSE "none"
  ELSE IF HasInitializer /\ cur.init /\ s \in Initializers THEN "initialize"
       ELSE IF s \in Processors THEN "process" ELSE "none"

EndPass(l) ==
  pc' = l /\ idx' = 1 /\ orig' = NewObject /\ cur' = NewObject /\ acc' = NoAcc

Idle == EndPass("idle")

Take == pc = "idle" /\ queued /\ queued' = FALSE

(* The object is not in the cache: nothing to do.                          *)
ReconcileNotFound ==
  /\ Take /\ ~cache.live
  /\ UNCHANGED <<api, cache, timer, rec, ext, world, hist>>

(* Spread says the object is not due.                                      *)
ReconcileNotDue ==
  /\ Take /\ cache.live /\ SpreadSkips(cache)
  /\ pc' = "skip" /\ cur' = cache
  /\ UNCHANGED <<api, cache, timer, idx, orig, acc, ext, world, hist>>

(* Finalizers are missing; the work goes no further than adding them.      *)
ReconcileUnprotected ==
  /\ Take /\ cache.live /\ ~SpreadSkips(cache) /\ NeedsFinalizers(cache)
  /\ pc' = "addFinalizers" /\ cur' = cache
  /\ UNCHANGED <<api, cache, timer, idx, orig, acc, ext, world, hist>>

(* The chain starts on a copy of the cached object.                        *)
ReconcileStart ==
  /\ Take /\ cache.live /\ ~SpreadSkips(cache) /\ ~NeedsFinalizers(cache)
  /\ pc' = "chain" /\ idx' = 1 /\ orig' = cache /\ acc' = NoAcc
  /\ cur' = InitUnknownConditions(cache)
  /\ inited' = {}
  /\ UNCHANGED <<api, cache, timer, ext, world, full, want>>

(* RequeueDelay reads the clock a second time.                             *)
SkipReconcile ==
  /\ pc = "skip"
  /\ timer' = (timer \/ RequeueDelayPositive(cur))
  /\ Idle
  /\ UNCHANGED <<api, cache, queued, ext, world, hist>>

(* addFinalizers patches the list read from the cache plus what it lacks.  *)
addFinalizers ==
  LET to == [cur EXCEPT !.fins = @ \cup Finalizers]
  IN  /\ pc = "addFinalizers"
      /\ api.live /\ ~Refused(api, cur, to)
      /\ api' = PatchMeta(api, cur, to)
      /\ Idle
      /\ UNCHANGED <<cache, queued, timer, ext, world, hist>>

(* The patch is refused, finds no object, or fails on the way.             *)
addFinalizersFails ==
  /\ pc = "addFinalizers"
  /\ ~api.live \/ Refused(api, cur, [cur EXCEPT !.fins = @ \cup Finalizers]) \/ Faults
  /\ queued' = TRUE
  /\ Idle
  /\ UNCHANGED <<api, cache, timer, ext, world, hist>>

SkipSubroutine ==
  /\ pc = "chain" /\ idx \in Sub /\ resolveAction(SubAt(idx)) = "none"
  /\ idx' = idx + 1
  /\ UNCHANGED <<api, cache, queued, timer, pc, orig, cur, acc, ext, world, hist>>

Accumulate(a, res) ==
  [err     |-> a.err \/ res = "Error",
   stopped |-> a.stopped \/ res \in {"StopRequeue", "Stop"},
   skip    |-> CASE res = "SkipReady" -> "ready"
                 [] res = "SkipNotReady" -> "notready"
                 [] OTHER -> a.skip,
   pending |-> a.pending \/ res = "Pending",
   requeue |-> a.requeue \/ res \in {"Requeue", "Pending", "StopRequeue"}]

EndsChain(res) == res \in {"Error", "StopRequeue", "Stop", "SkipReady", "SkipNotReady"}

MutRequeueReleases(action, res) == action = "finalize" /\ res \in {"OK", "Requeue"}

(* A Finalize that is done, and asks for no requeue, gives up its          *)
(* finalizer.                                                              *)
RemovesFinalizer(action, res) == action = "finalize" /\ res = "OK"

(* The object after subroutine s at position idx has returned res.         *)
AfterSubroutine(s, action, res) ==
  LET o1 == SetSubroutineCondition(cur, s, res, action \in {"finalize", "terminate"})
      o2 == IF RemovesFinalizer(action, res) THEN [o1 EXCEPT !.fins = @ \ {s}] ELSE o1
      o3 == IF action \in {"process", "initialize"} /\ res # "Error"
            THEN [o2 EXCEPT !.content = world] ELSE o2
      remaining == {SubAt(k) : k \in (idx + 1)..N}
  IN  IF res \in {"SkipReady", "SkipNotReady"}
      THEN SetSkippedConditions(o3, remaining, res = "SkipReady") ELSE o3

MutStepsTwice(s, action, res) ==
  /\ cur' = AfterSubroutine(s, action, res)
  /\ acc' = Accumulate(acc, res)
  /\ idx' = IF EndsChain(res) THEN N + 1 ELSE idx + 2
  /\ UNCHANGED <<api, cache, queued, timer, pc, orig, world, full, want>>

Advance(s, action, res) ==
  /\ cur' = AfterSubroutine(s, action, res)
  /\ acc' = Accumulate(acc, res)
  /\ idx' = IF EndsChain(res) THEN N + 1 ELSE idx + 1
  /\ UNCHANGED <<api, cache, queued, timer, pc, orig, world, full, want>>

(* Process and Initialize may create the subroutine's external resource    *)
(* whatever they return.                                                   *)
RunForward(res, makes) ==
  LET s == SubAt(idx)
      action == resolveAction(s)
  IN  /\ pc = "chain" /\ idx \in Sub
      /\ action \in {"process", "initialize"}
      /\ ext' = IF makes THEN ext \cup {s} ELSE ext
      /\ inited' = IF action = "initialize" /\ res \in {"OK", "Skip"}
                   THEN inited \cup {s} ELSE inited
      /\ Advance(s, action, res)

(* Finalize and Terminate return OK, or Skip, once the external resource   *)
(* is gone.                                                                *)
RunBackward(res) ==
  LET s == SubAt(idx)
      action == resolveAction(s)
  IN  /\ pc = "chain" /\ idx \in Sub
      /\ action \in {"finalize", "terminate"} /\ res \in FinalizeResults[s]
      /\ ext' = IF res \in {"OK", "Skip"} THEN ext \ {s} ELSE ext
      /\ inited' = inited
      /\ Advance(s, action, res)

MutRequeueIsClean == ~acc.err /\ ~acc.stopped /\ acc.skip = "no"

Clean == ~acc.err /\ ~acc.stopped /\ acc.skip = "no" /\ ~acc.pending /\ ~acc.requeue

(* Markers, Ready condition and spread state, after the chain.             *)
AfterChain ==
  LET o1 == [cur EXCEPT
               !.init = @ /\ ~(Clean /\ HasInitializer /\ ~cur.deleting),
               !.term = @ /\ ~(Clean /\ HasTerminator /\ cur.deleting)]
  IN  UpdateSpread(SetReadyCondition(o1))

FinishChain ==
  /\ pc = "chain" /\ idx = N + 1
  /\ cur' = AfterChain
  /\ pc' = IF ReadOnly THEN "return" ELSE "patch"
  /\ full' = IF Clean /\ ~cur.deleting /\ cur.gen > full THEN cur.gen ELSE full
  /\ UNCHANGED <<api, cache, queued, timer, idx, orig, acc, ext, world, inited, want>>

(* patchChanges, first half: metadata.                                     *)
PatchObject ==
  /\ pc = "patch" /\ MetaChanged(orig, cur)
  /\ api.live /\ ~Refused(api, orig, cur)
  /\ api' = PatchMeta(api, orig, cur)
  /\ cur' = Decode(cur, api')
  /\ pc' = "status"
  /\ UNCHANGED <<cache, queued, timer, idx, orig, acc, ext, world, hist>>

AtStatus == pc = "status" \/ (pc = "patch" /\ ~MetaChanged(orig, cur))

SkipsStatus == cur.deleting /\ cur.fins = {}

StatusChanged == PatchStatus(orig, orig, cur) # orig

MutRequeueForgotten ==
  /\ queued' = (queued \/ acc.err)
  /\ timer' = timer
  /\ Idle

Return ==
  /\ queued' = (queued \/ acc.err)
  /\ timer' = (timer \/ (acc.requeue /\ ~acc.err))
  /\ Idle

(* patchChanges, second half: status; then Reconcile returns.              *)
PatchStatusAndReturn ==
  /\ AtStatus /\ ~SkipsStatus /\ StatusChanged
  /\ api.live
  /\ api' = PatchStatus(api, orig, cur)
  /\ Return
  /\ UNCHANGED <<cache, ext, world, hist>>

(* There is nothing to patch in the status, or patching is switched off.   *)
ReturnUnpatched ==
  /\ pc = "return" \/ (AtStatus /\ (SkipsStatus \/ ~StatusChanged))
  /\ Return
  /\ UNCHANGED <<api, cache, ext, world, hist>>

(* A patch is refused, finds no object, or fails on the way; the error, or *)
(* the conflict, brings the key back.                                      *)
PatchFails ==
  /\ \/ pc = "patch" /\ MetaChanged(orig, cur)
        /\ (~api.live \/ Refused(api, orig, cur) \/ Faults)
     \/ AtStatus /\ ~SkipsStatus /\ StatusChanged /\ (~api.live \/ Faults)
  /\ queued' = TRUE
  /\ Idle
  /\ UNCHANGED <<api, cache, timer, ext, world, hist>>

-----------------------------------------------------------------------------
(* The environment.                                                        *)

(* The watch delivers the stored object and enqueues its key.              *)
Sync ==
  /\ pc # "down" /\ cache # api
  /\ cache' = api /\ queued' = TRUE
  /\ UNCHANGED <<api, timer, rec, ext, world, hist>>

TimerFires ==
  /\ timer
  /\ timer' = FALSE /\ queued' = TRUE
  /\ UNCHANGED <<api, cache, rec, ext, world, hist>>

(* The informer's periodic resync enqueues every object it knows.          *)
Resync ==
  /\ pc # "down" /\ cache.live /\ ~queued
  /\ queued' = TRUE
  /\ UNCHANGED <<api, cache, timer, rec, ext, world, hist>>

Later(o) == [o EXCEPT !.next = IF @ = "future" THEN "past" ELSE @]

(* The next reconcile time passes, in every copy of the object.            *)
TimePasses ==
  /\ api.next = "future" \/ cache.next = "future" \/ cur.next = "future"
  /\ api' = Later(api) /\ cache' = Later(cache)
  /\ orig' = Later(orig) /\ cur' = Later(cur)
  /\ UNCHANGED <<queued, timer, pc, idx, acc, ext, world, hist>>

UserUpdate ==
  /\ api.live /\ api.gen < MaxGen
  /\ api' = [api EXCEPT !.gen = @ + 1]
  /\ UNCHANGED <<cache, queued, timer, rec, ext, world, hist>>

UserDelete ==
  /\ api.live /\ ~api.deleting
  /\ api' = Collect([api EXCEPT !.deleting = TRUE])
  /\ UNCHANGED <<cache, queued, timer, rec, ext, world, hist>>

(* A user sets the refresh label.                                          *)
UserRefresh ==
  /\ HasSpread /\ api.live /\ ~api.label
  /\ api' = [api EXCEPT !.label = TRUE]
  /\ want' = world
  /\ UNCHANGED <<cache, queued, timer, rec, ext, world, inited, full>>

WorldChanges ==
  /\ world < MaxWorld
  /\ world' = world + 1
  /\ UNCHANGED <<api, cache, queued, timer, rec, ext, hist>>

(* Another controller lets go of the deleted object; kcp does so once the  *)
(* terminators have gone from the status.                                  *)
ForeignRelease(f) ==
  /\ f \in api.fins /\ api.live /\ api.deleting /\ ~api.term
  /\ api' = Collect([api EXCEPT !.fins = @ \ {f}])
  /\ UNCHANGED <<cache, queued, timer, rec, ext, world, hist>>

(* The process dies: queue and timers are lost.                            *)
Crash ==
  /\ Faults /\ pc # "down"
  /\ cache' = api /\ queued' = FALSE /\ timer' = FALSE
  /\ EndPass("down")
  /\ UNCHANGED <<api, ext, world, hist>>

(* It comes back, and the informer lists all objects.                      *)
Restart ==
  /\ pc = "down"
  /\ cache' = api /\ queued' = TRUE /\ pc' = "idle"
  /\ UNCHANGED <<api, timer, idx, orig, cur, acc, ext, world, hist>>

-----------------------------------------------------------------------------
Init ==
  /\ api = NewObject /\ cache = NewObject
  /\ queued = TRUE /\ timer = FALSE
  /\ pc = "idle" /\ idx = 1 /\ orig = NewObject /\ cur = NewObject /\ acc = NoAcc
  /\ ext = {} /\ world = 1
  /\ inited = {} /\ full = 0 /\ want = 0

Reconcile ==
  \/ ReconcileNotFound \/ ReconcileNotDue \/ ReconcileUnprotected \/ ReconcileStart
  \/ SkipReconcile \/ addFinalizers \/ addFinalizersFails
  \/ SkipSubroutine
  \/ \E res \in ProcessResults, makes \in BOOLEAN : RunForward(res, makes)
  \/ \E res \in Results : RunBackward(res)
  \/ FinishChain \/ PatchObject \/ PatchStatusAndReturn \/ ReturnUnpatched \/ PatchFails

Environment ==
  \/ Sync \/ TimerFires \/ Resync \/ TimePasses
  \/ UserUpdate \/ UserDelete \/ UserRefresh \/ WorldChanges
  \/ \E f \in Foreign : ForeignRelease(f)
  \/ Crash \/ Restart

Next == Reconcile \/ Environment

Spec == Init /\ [][Next]_vars

(* Workers, the watch and the delaying queue run.  A call to the API       *)
(* server, a Finalize or a Process that is repeated again and again        *)
(* succeeds some time, another controller lets go of a deleted object, and *)
(* crashes come to an end.                                                 *)
Fairness ==
  /\ WF_vars(Reconcile) /\ WF_vars(Sync) /\ WF_vars(TimerFires) /\ WF_vars(Restart)
  /\ SF_vars(addFinalizers) /\ SF_vars(PatchObject) /\ SF_vars(PatchStatusAndReturn)
  /\ \A s \in Sub : SF_vars(SubAt(idx) = s /\ RunBackward("OK"))
  /\ SF_vars(RunForward("OK", TRUE))
  /\ \A f \in Foreign : WF_vars(ForeignRelease(f))
  /\ <>[][~Crash]_vars

FairSpec == Spec /\ Fairness

ResyncSpec == FairSpec /\ WF_vars(Resync)

-----------------------------------------------------------------------------
TypeOK ==
  /\ api \in Object /\ cache \in Object /\ orig \in Object /\ cur \in Object
  /\ queued \in BOOLEAN /\ timer \in BOOLEAN
  /\ pc \in {"idle", "down", "skip", "addFinalizers", "chain", "patch", "status", "return"}
  /\ idx \in 1..N + 1
  /\ acc \in Acc
  /\ ext \subseteq Sub /\ inited \subseteq Sub
  /\ world \in Nat /\ full \in Nat /\ want \in Nat

(* While the external resource of a Finalizer exists, the object exists    *)
(* and carries the finalizer: no interleaving of a stale cache, a          *)
(* deletion, a patch and a crash lets the object go with resources left    *)
(* behind (Reconcile, addFinalizers, patchChanges).                        *)
Protected == \A s \in Finalizers \cap ext : api.live /\ s \in api.fins

(* Teardown is ordered: a Finalize removes its resource only when those of *)
(* all later subroutines are gone, over any number of passes.  It holds    *)
(* when no Finalize but the last to run answers Pending or Requeue, which  *)
(* let the chain go on (the loop of Reconcile on a reversed chain).        *)
OrderedTeardown ==
  [][\A s, t \in Finalizers :
       s < t /\ s \in ext /\ s \notin ext' => t \notin ext]_vars

(* The initializer leaves the status only in a pass in which every         *)
(* Initializer has succeeded (removeMarkerFromStatus in Reconcile).        *)
InitializedBeforeCleared ==
  [][api.init /\ ~api'.init => Initializers \subseteq inited]_vars

(* Once the terminator has left the status no Terminator has anything left *)
(* to tear down (removeMarkerFromStatus in Reconcile).                     *)
TerminatedBeforeCleared ==
  HasTerminator /\ ~api.term => Terminators \cap ext = {}

(* Ready=True on an object that is not being deleted means that every      *)
(* processor's own condition is True, although passes over different       *)
(* versions patch the list (SetReadyCondition, SetSkippedConditions).      *)
ReadyTruthful ==
  api.ready = "True" /\ ~api.deleting => \A s \in Processors : api.cond[s] = "True"

(* No write, however stale the version it was computed from, moves the     *)
(* observed generation or the copied content back (patchChanges).          *)
StatusMovesForward ==
  [][api'.observed >= api.observed /\ api'.content >= api.content]_vars

(* The observed generation is one that a whole chain was completed for     *)
(* (spread update in Reconcile).                                           *)
ObservedMeansProcessed == api.observed <= full

(* A refresh the controller has acknowledged by removing the label has     *)
(* brought the content up to date (RefreshLabel).                          *)
RefreshTakesEffect ==
  pc = "idle" /\ api.live /\ ~api.deleting /\ ~api.label => api.content >= want

(* A deleted object goes away in the end.                                  *)
DeletionCompletes == api.deleting ~> ~api.live

(* A pass in which a subroutine failed or asked to be called again is      *)
(* followed by another one, although an error hides the requeue and a      *)
(* patch may fail after it (the return statements of Reconcile).           *)
ComesBack ==
  (acc.err \/ acc.requeue) ~> ((pc = "chain" /\ idx = 1) \/ ~cache.live)

(* A refresh label is acted upon in the end.                               *)
RefreshAcknowledged == api.label ~> ~api.label \/ api.deleting

(* An object whose next reconcile time has passed is reconciled again,     *)
(* although the clock is read twice and the timer may be lost, once users  *)
(* stop setting the refresh label (ReconcileRequired, RequeueDelay).       *)
SpreadRunsAgain ==
  <>[](~api.label) => ((api.next = "past") ~> (api.next # "past" \/ api.deleting))
==============================================================================
