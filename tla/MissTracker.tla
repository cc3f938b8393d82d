------------------------------ MODULE MissTracker ------------------------------
(***************************************************************************)
(* What rebac-authz-webhook answers about one cluster, and the tracker     *)
(* that limits how often a cluster missing from the cache is answered      *)
(* "retry".  The tracker is read and written by all requests without a     *)
(* lock over both, and its count is incremented in place.                  *)
(***************************************************************************)
EXTENDS Integers, FiniteSets

CONSTANTS
  Request,       \* authorization requests under way at a time
  MaxRetries,    \* CacheMissMaxRetries
  MaxExpiries    \* bound on expiries of the item

ASSUME TrackerAssumption ==
  IsFiniteSet(Request) /\ MaxRetries \in Nat \ {0} /\ MaxExpiries \in Nat

VARIABLES
  known,      \* whether ClusterCache knows the cluster
  item,        \* the tracker's item: its identity and its count, 0 when none
  expiries,    \* expiries so far
  req          \* requests: position and the item they have read

trackerVars == <<known, item, expiries, req>>

(* Requests that have been told to retry together count past the limit,    *)
(* and by more than their number, since lost increments set it back.       *)
Count == Nat
Identity == 0..(MaxExpiries + 1)
NoItem == [id |-> 0, n |-> 0]

TrackerTypeOK ==
  /\ known \in BOOLEAN
  /\ item \in [id : Identity, n : Count]
  /\ expiries \in 0..MaxExpiries
  /\ req \in [Request -> [pc : {"idle", "asked", "retry", "count", "allowed", "none"},
                          item : [id : Identity, n : Count]]]

At(r, pcs) == req[r].pc \in pcs
Goto(r, pc, read) == req' = [req EXCEPT ![r] = [pc |-> pc, item |-> read]]

ShouldRetry == item.n < MaxRetries

(* Handle up to ShouldRetry.  For a cluster in the cache OpenFGA decides;  *)
(* its errors are no opinion, like a refusal.                              *)
Handle(r) ==
  /\ At(r, {"idle", "asked"})
  /\ \/ known /\ \E answer \in {"allowed", "none"} : Goto(r, answer, NoItem)
     \/ ~known /\ ShouldRetry /\ Goto(r, "retry", NoItem)
     \/ ~known /\ ~ShouldRetry /\ Goto(r, "none", NoItem)
  /\ UNCHANGED <<known, item, expiries>>

(* Retried reads the item, then writes it.                                 *)
RetriedReads(r) ==
  /\ At(r, {"retry"})
  /\ Goto(r, "count", item)
  /\ UNCHANGED <<known, item, expiries>>

NewItem == [id |-> expiries + 1, n |-> 1]
MutNeverCounts(read) == IF read.id = 0 THEN NewItem ELSE item

(* Without an item a new one is set; otherwise the one that was read is    *)
(* counted up in place, which nobody sees when it has expired since.       *)
Counted(read) ==
  IF read.id = 0 THEN NewItem
  ELSE IF read.id = item.id THEN [item EXCEPT !.n = read.n + 1]
  ELSE item
(* The answer is 503 with Retry-After: the API server asks again.          *)
RetriedWrites(r) ==
  /\ At(r, {"count"})
  /\ item' = Counted(req[r].item)
  /\ Goto(r, "asked", NoItem)
  /\ UNCHANGED <<known, expiries>>

Answered(r) ==
  /\ At(r, {"allowed", "none"})
  /\ Goto(r, "idle", NoItem)
  /\ UNCHANGED <<known, item, expiries>>

(* The item expires some time after it was made, counted or not.           *)
Expire ==
  /\ item # NoItem /\ expiries < MaxExpiries
  /\ expiries' = expiries + 1
  /\ item' = NoItem
  /\ UNCHANGED <<known, req>>

ClusterResolved == ~known /\ known' = TRUE /\ UNCHANGED <<item, expiries, req>>

TrackerInit ==
  /\ known = FALSE /\ item = NoItem /\ expiries = 0
  /\ req = [r \in Request |-> [pc |-> "idle", item |-> NoItem]]

Serve(r) == Handle(r) \/ RetriedReads(r) \/ RetriedWrites(r) \/ Answered(r)

TrackerNext == (\E r \in Request : Serve(r)) \/ Expire \/ ClusterResolved

(* A request that was received is served, and the API server asks again.   *)
TrackerFairness == \A r \in Request : WF_trackerVars(~At(r, {"idle"}) /\ Serve(r))

TrackerSpec == TrackerInit /\ [][TrackerNext]_trackerVars /\ TrackerFairness

-------------------------------------------------------------------------------
(* The API server is not sent round in circles: a request that is asked    *)
(* again is decided in the end, whether the cluster is ever resolved or    *)
(* not and although increments get lost.                                   *)
RequestsAreDecided ==
  \A r \in Request : At(r, {"asked"}) ~> At(r, {"allowed", "none"})
===============================================================================
