----------------------------- MODULE SearchPaging -----------------------------
(***************************************************************************)
(* The search-service answers a query from OpenSearch, page by page, and   *)
(* keeps of every page the hits the user may get: first by the accounts    *)
(* the user can reach, which are part of the query, then by a batch check  *)
(* of every hit in OpenFGA.  A client walks through the answer with        *)
(* cursors, asks for a page by its number, or asks for the values of a     *)
(* field.  Documents and permissions change meanwhile.                     *)
(*                                                                         *)
(* A document is its position in the order the query sorts by, which ends  *)
(* in the document's id, so that no two are equal.                         *)
(***************************************************************************)
EXTENDS Integers, SequencesExt, FiniteSetsExt

CONSTANTS Documents,    \* number of documents
          AccountOf,    \* [1..Documents -> accounts]
          ValueOf,      \* [1..Documents -> values of the field]
          Limit,        \* results per answer
          BatchSize,    \* FetchBatchSize: hits per OpenSearch query
          MaxScanned,   \* MaxScannedHits: hits looked at per request
          MaxEdits,     \* bound: changes of documents and permissions
          MaxMishaps    \* bound: partial pages and failing calls

ASSUME PagingAssumption ==
  /\ {Documents, Limit, BatchSize, MaxScanned} \subseteq Nat \ {0}
  /\ {MaxEdits, MaxMishaps} \subseteq Nat

Document == 1..Documents
AccountID == {AccountOf[d] : d \in Document}
Value == {ValueOf[d] : d \in Document}
MaxPage == IF MaxScanned < Limit THEN 1 ELSE MaxScanned \div Limit

VARIABLES
  index,      \* documents that match the query
  access,     \* accounts ListObjects names for the user
  granted,    \* documents BatchCheck allows
  edits, mishaps,
  request,    \* what is asked: a walk, the values or a page; [kind |-> "none", ...] before
  stage,      \* "idle", "query", "check" or "scan"
  scope,      \* accounts found at the start of the request
  after,      \* search_after of the next query, 0 for none
  page,       \* hits of the last query
  allowed,    \* those of them the batch check allows
  todo,       \* those of them the loop has still to look at, in their order
  scan,       \* what the loop accumulates: hits looked at, the last of them,
              \* the authorized ones, results or values, and whether it stopped
  cursor,     \* of the walk: 0 at its start, -1 when there is no next page
  shown,      \* history: the documents the walk returned
  steady,     \* history: documents that are reachable since the walk began
  whole       \* history: nothing happened since that excuses a missing result

backendVars == <<index, access, granted>>
requestVars == <<request, scope, after>>
pageVars == <<page, allowed, todo>>
pagingVars == <<backendVars, edits, mishaps, requestVars, stage, pageVars, scan, cursor, shown,
                steady, whole>>

Pages == [kind : {"page"}, number : 1..MaxPage]
Requests == Pages \cup [kind : {"walk", "values"}, number : {1}]
NoRequest == [kind |-> "none", number |-> 1]
NoScan == [scanned |-> 0, last |-> 0, hits |-> 0, results |-> <<>>, values |-> {}, stop |-> FALSE]
Visible == {d \in index : AccountOf[d] \in access}
Reachable == Visible \cap granted

PagingInit ==
  /\ index = Document /\ access = AccountID /\ granted \in SUBSET Document
  /\ edits = 0 /\ mishaps = 0
  /\ request = NoRequest /\ stage = "idle" /\ scope = {} /\ after = 0
  /\ page = {} /\ allowed = {} /\ todo = {} /\ scan = NoScan
  /\ cursor = 0 /\ shown = <<>> /\ steady = {} /\ whole = TRUE 

---------------------------------------------------------------------------
(* Offset of a page, in authorized hits.                                    *)
MutOffset(r) == IF r.kind = "page" THEN r.number * Limit ELSE 0
Offset(r) == IF r.kind = "page" THEN (r.number - 1) * Limit ELSE 0

(* One request, with the lookup of the accounts: none ends it at once.      *)
Ask(r) ==
  /\ stage = "idle" /\ IF r.kind = "walk" THEN cursor >= 0 ELSE cursor = 0
  /\ request' = r /\ scope' = access
  /\ after' = IF r.kind = "walk" THEN cursor ELSE 0
  /\ scan' = NoScan
  /\ IF r.kind = "walk" /\ cursor > 0
     THEN UNCHANGED <<steady, whole>>
     ELSE steady' = Reachable /\ whole' = TRUE
  /\ IF access = {}
     THEN stage' = "idle" /\ cursor' = IF r.kind = "walk" THEN -1 ELSE cursor
     ELSE stage' = "query" /\ UNCHANGED cursor
  /\ UNCHANGED <<backendVars, edits, mishaps, pageVars, shown>>

(* A client that asks again begins a new walk.                              *)
StartOver ==
  /\ stage = "idle" /\ cursor # 0
  /\ cursor' = 0 /\ shown' = <<>> /\ request' = NoRequest
  /\ UNCHANGED <<backendVars, edits, mishaps, stage, scope, after, pageVars, scan, steady, whole>>

(* The place of a document among others.                                    *)
Rank(d, ds) == Cardinality({e \in ds : e <= d})

(* The hits OpenSearch has for a query after a position.                    *)
Matching(ds, a) == {d \in ds : AccountOf[d] \in scope /\ d > a}
FirstBatch(ds) == {d \in ds : Rank(d, ds) <= BatchSize}

NoPage == page' = {} /\ allowed' = {} /\ todo' = {}

(* The end of a request.  Only a walk has a cursor.                         *)
Answer(s, exhausted) ==
  /\ stage' = "idle" /\ NoPage
  /\ IF request.kind = "walk"
     THEN /\ shown' = shown \o s.results
          /\ cursor' = IF exhausted \/ s.last = 0 THEN -1 ELSE s.last
     ELSE UNCHANGED <<shown, cursor>>

(* A query; shards that fail or time out leave hits out of the page.        *)
Query ==
  /\ stage = "query"
  /\ \E lost \in SUBSET index :
       LET hits == FirstBatch(Matching(index \ lost, after)) IN
       /\ lost # {} => mishaps < MaxMishaps
       /\ mishaps' = IF lost = {} THEN mishaps ELSE mishaps + 1
       /\ whole' = (whole /\ lost = {})
       /\ IF hits = {}
          THEN Answer(scan, TRUE)
          ELSE /\ stage' = "check" /\ page' = hits /\ todo' = hits
               /\ UNCHANGED <<allowed, shown, cursor>>
  /\ UNCHANGED <<backendVars, edits, requestVars, scan, steady>>

(* The batch check of the page.                                             *)
Check ==
  /\ stage = "check" /\ stage' = "scan" /\ allowed' = page \cap granted
  /\ UNCHANGED <<backendVars, edits, mishaps, requestVars, page, todo, scan, cursor, shown, steady,
                 whole>>

(* The loop looks at a hit, keeps an allowed one and stops at the limit.    *)
MutTooMany(s, d) == [s EXCEPT !.scanned = @ + 1, !.last = d, !.stop = TRUE]
TooMany(s, d) == [s EXCEPT !.scanned = @ + 1, !.stop = TRUE]

Looked(s, d) == [s EXCEPT !.scanned = @ + 1, !.last = d]

KeptValue(s, v) == [s EXCEPT !.values = @ \cup {v}, !.stop = Cardinality(s.values \cup {v}) = Limit]

KeptHit(s, d) ==
  IF s.hits < Offset(request) THEN [s EXCEPT !.hits = @ + 1]
  ELSE [s EXCEPT !.hits = @ + 1, !.results = Append(@, d), !.stop = Len(s.results) + 1 = Limit]

Scanned(s, d) ==
  IF s.scanned = MaxScanned THEN TooMany(s, d)
  ELSE IF d \notin allowed THEN Looked(s, d)
  ELSE IF request.kind = "values" THEN KeptValue(Looked(s, d), ValueOf[d])
  ELSE KeptHit(Looked(s, d), d)

Scan ==
  /\ stage = "scan"
  /\ \E d \in todo :
       /\ \A e \in todo : d <= e
       /\ scan' = Scanned(scan, d)
       /\ IF scan'.stop THEN Answer(scan', FALSE)
          ELSE todo' = todo \ {d} /\ UNCHANGED <<stage, page, allowed, shown, cursor>>
  /\ UNCHANGED <<backendVars, edits, mishaps, requestVars, steady, whole>>

(* A page that is not full is the last one.                                 *)
PageDone ==
  /\ stage = "scan" /\ todo = {}
  /\ IF Cardinality(page) < BatchSize
     THEN Answer(scan, TRUE) /\ UNCHANGED after
     ELSE stage' = "query" /\ after' = Max(page) /\ NoPage /\ UNCHANGED <<shown, cursor>>
  /\ UNCHANGED <<backendVars, edits, mishaps, request, scope, scan, steady, whole>>

(* A call of OpenSearch or OpenFGA fails: the client may ask again with the *)
(* cursor it has.                                                           *)
RequestFails ==
  /\ stage \in {"query", "check"} /\ mishaps < MaxMishaps
  /\ mishaps' = mishaps + 1 /\ stage' = "idle" /\ NoPage
  /\ whole' = (whole /\ request.kind = "walk")
  /\ UNCHANGED <<backendVars, edits, requestVars, scan, cursor, shown, steady>>

(* The indexing operator and the owners of permissions.                     *)
Edit ==
  /\ edits < MaxEdits /\ edits' = edits + 1
  /\ \/ \E d \in Document : /\ index' = SymDiff(index, {d}) /\ UNCHANGED <<access, granted>>
     \/ \E d \in Document : /\ granted' = SymDiff(granted, {d}) /\ UNCHANGED <<access, index>>
     \/ \E a \in AccountID : /\ access' = SymDiff(access, {a}) /\ UNCHANGED <<index, granted>>
  /\ steady' = steady \cap Reachable'
  /\ whole' = (whole /\ request.kind = "walk")
  /\ UNCHANGED <<mishaps, requestVars, stage, pageVars, scan, cursor, shown>>

PagingNext ==
  \/ \E r \in Requests : Ask(r)
  \/ StartOver \/ Query \/ Check \/ Scan \/ PageDone \/ RequestFails \/ Edit

---------------------------------------------------------------------------
(* Type invariant.                                                          *)
Scans == [scanned : 0..(MaxScanned + 1), last : 0..Documents, hits : 0..MaxScanned,
          results : Seq(Document), values : SUBSET Value, stop : BOOLEAN]

PagingTypeOK ==
  /\ index \subseteq Document /\ access \subseteq AccountID /\ granted \subseteq Document
  /\ edits \in 0..MaxEdits /\ mishaps \in 0..MaxMishaps
  /\ request \in Requests \cup {NoRequest}
  /\ stage \in {"idle", "query", "check", "scan"} /\ scope \subseteq AccountID
  /\ after \in 0..Documents
  /\ page \subseteq Document /\ allowed \subseteq page /\ todo \subseteq page
  /\ scan \in Scans
  /\ cursor \in -1..Documents /\ shown \in Seq(Document)
  /\ steady \subseteq Document /\ whole \in BOOLEAN

(* A walk along the cursors returns no document twice, and when it ends, it *)
(* has returned every document that could be returned all the time, however *)
(* the bound on scanned hits, the batches and the limit cut it into         *)
(* requests, and whatever else was indexed, deleted, granted or revoked     *)
(* meanwhile.  (A partial page excuses it: nextCursor is built from what    *)
(* the page has.)                                                           *)
WalkReturnsEachOnce ==
  /\ \A i \in 1..Len(shown) - 1 : shown[i] < shown[i + 1]
  /\ cursor = -1 /\ whole => steady \subseteq ToSet(shown)

(* While nothing changes, a numbered page is that slice of the documents    *)
(* the user may get among the hits the service looks at, in their order,    *)
(* and the values of a field are the first ones of those documents.         *)
LookedAt == {d \in Visible : Rank(d, Visible) <= MaxScanned}
Slice(from) == {d \in LookedAt \cap granted : Rank(d, Reachable) \in (from + 1)..(from + Limit)}
ValuesUpTo(d) == {ValueOf[e] : e \in {f \in LookedAt \cap granted : f <= d}}
FirstValues == {ValueOf[d] : d \in {f \in LookedAt \cap granted : Cardinality(ValuesUpTo(f)) <= Limit}}

AnswersMatchTheIndex ==
  stage = "idle" /\ whole =>
    /\ request.kind = "page" =>
         /\ ToSet(scan.results) = Slice((request.number - 1) * Limit)
         /\ \A i \in 1..Len(scan.results) - 1 : scan.results[i] < scan.results[i + 1]
    /\ request.kind = "values" => scan.values = FirstValues

PagingSpec == PagingInit /\ [][PagingNext]_pagingVars
===============================================================================
