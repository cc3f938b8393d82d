------------------------------- MODULE Accounts -------------------------------
(***************************************************************************)
(* Accounts and their workspaces.  An account is an org or lies in another *)
(* account; its workspace holds an AccountInfo, API bindings and the child *)
(* accounts.  The account-operator creates workspace and AccountInfo, the  *)
(* security-operator initializes and terminates the workspace, and both    *)
(* guard the AccountInfo with a finalizer.  kcp schedules and empties the  *)
(* workspaces.  A pass works on the Account it read when it started and on *)
(* the workspaces of an informer cache.                                    *)
(***************************************************************************)
EXTENDS Integers, FiniteSets

CONSTANTS
  Account,     (* the accounts                                             *)
  Orgs,        (* those that are orgs                                      *)
  Parent,      (* function: the account whose workspace a child lies in    *)
  Bound,       (* the accounts whose workspace gets an API binding         *)
  Guarded,     (* those whose AccountInfo gets finalizers in this instance *)
  MaxAccountFaults  (* bound on failing calls                              *)

ASSUME AccountsAssumption ==
  /\ IsFiniteSet(Account) /\ Orgs \subseteq Account /\ Bound \subseteq Account
  /\ Guarded \subseteq Account
  /\ Parent \in [Account \ Orgs -> Account]
  /\ MaxAccountFaults \in Nat

VARIABLES
  accounts, (* the Account objects                                         *)
  types,   (* the WorkspaceTypes of each org, in root:orgs                 *)
  res,     (* the Store and IdentityProviderConfiguration of each org      *)
  conf,    (* the orgs with a WorkspaceAuthenticationConfiguration         *)
  ws,      (* the Workspaces                                               *)
  wseen,   (* what the account-operator's cache shows of their phase       *)
  info,    (* the AccountInfo in each workspace                            *)
  binding, (* the API binding in each workspace                            *)
  tuples,  (* the child accounts with tuples in their org's store          *)
  where,   (* where the account-operator stands with each account          *)
  read,    (* the finalizers it read at the start of the pass              *)
  pend,    (* the finalizer list an engine is about to write on AccountInfo*)
  init,    (* the workspaces the initializer is working on                 *)
  born,    (* the accounts created so far; a name is not used again        *)
  faults    (* failing calls so far                                         *)

objects == <<accounts, ws, info, binding>>
orgObjects == <<types, res, conf, tuples>>
pass == <<where, read>>
accountVars == <<objects, orgObjects, wseen, pass, pend, init, born, faults>>

Kinds == {"org", "account"}
Resources == {"store", "idp"}
Engines == {"account", "security"}

IsOrg(a) == a \in Orgs

Children(a) == {c \in Account \ Orgs : Parent[c] = a}

OrgOf[a \in Account] == IF a \in Orgs THEN a ELSE OrgOf[Parent[a]]

(* Workspaces are a tree below root:orgs: from every account the way up    *)
(* ends at an org.                                                         *)
ASSUME TreeAssumption == \A a \in Account : OrgOf[a] \in Orgs

Kind(a) == IF IsOrg(a) THEN "org" ELSE "account"

NoAccount == [state |-> "none", fins |-> {}, ready |-> FALSE]
NoInfo == [state |-> "none", fins |-> {}, org |-> FALSE, oidc |-> FALSE, guarded |-> FALSE]
NoType == [state |-> "none", auth |-> FALSE]
NoWorkspace == [phase |-> "none", auth |-> FALSE]

Present(o) == o.state # "none"

OwnFinalizers(a) == IF IsOrg(a) THEN {"type", "workspace"} ELSE {"workspace"}

(* The API server removes a deleted object with its last finalizer.        *)
CollectAccount(o) == IF o.state = "deleting" /\ o.fins = {} THEN NoAccount ELSE o
CollectInfo(o) == IF o.state = "deleting" /\ o.fins = {} THEN NoInfo ELSE o

(* What the server makes of a patch of the finalizer list: a deleted       *)
(* object takes no new ones.                                               *)
PatchedFins(o, to) ==
  IF ~Present(o) \/ (o.state = "deleting" /\ ~(to \subseteq o.fins)) THEN o
  ELSE [o EXCEPT !.fins = to]

Fault == faults < MaxAccountFaults /\ faults' = faults + 1

-----------------------------------------------------------------------------
(* Users and kcp.                                                          *)

CreateAccount(a) ==
  /\ a \notin born /\ born' = born \cup {a}
  /\ ~IsOrg(a) => ws[Parent[a]].phase = "ready"
  /\ accounts' = [accounts EXCEPT ![a].state = "live"]
  /\ UNCHANGED <<ws, info, binding, orgObjects, wseen, pass, pend, init, faults>>

Deleted(o) == CollectAccount([o EXCEPT !.state = "deleting"])

DeleteAccount(a) ==
  /\ accounts[a].state = "live"
  /\ accounts' = [accounts EXCEPT ![a] = Deleted(@)]
  /\ UNCHANGED <<ws, info, binding, orgObjects, wseen, pass, pend, init, born, faults>>

(* The binding's engine puts its finalizer on it before anything else.     *)
BindAPI(a) ==
  /\ a \in Bound /\ binding[a] = "none" /\ ws[a].phase = "ready"
  /\ binding' = [binding EXCEPT ![a] = "live"]
  /\ UNCHANGED <<accounts, ws, info, orgObjects, wseen, pass, pend, init, born, faults>>

TypeBecomesReady(o, k) ==
  /\ types[o][k].state = "new"
  /\ types' = [types EXCEPT ![o][k].state = "ready"]
  /\ UNCHANGED <<objects, res, conf, tuples, wseen, pass, pend, init, born, faults>>

Schedule(a) ==
  /\ ws[a].phase = "scheduling"
  /\ ws' = [ws EXCEPT ![a].phase = "initializing"]
  /\ UNCHANGED <<accounts, info, binding, orgObjects, wseen, pass, pend, init, born, faults>>

(* A workspace whose owner is gone is garbage.                             *)
GarbageCollect(a) ==
  /\ accounts[a] = NoAccount /\ ws[a].phase \in {"scheduling", "initializing", "ready"}
  /\ ws' = [ws EXCEPT ![a].phase = "terminating"]
  /\ UNCHANGED <<accounts, info, binding, orgObjects, wseen, pass, pend, init, born, faults>>

DeletedInfo(o) ==
  CollectInfo([o EXCEPT !.state = "deleting", !.guarded = @ \/ o.fins = Engines])

(* Once terminated a workspace is emptied: everything in it is deleted,    *)
(* and it goes when the finalizers of its content are gone.                *)
Empty(a) ==
  /\ ws[a].phase = "emptying"
  /\ accounts' = [b \in Account |->
               IF b \in Children(a) /\ accounts[b].state = "live"
               THEN Deleted(accounts[b]) ELSE accounts[b]]
  /\ info' = IF info[a].state # "live" THEN info
             ELSE [info EXCEPT ![a] = DeletedInfo(@)]
  /\ binding' = IF binding[a] = "live" THEN [binding EXCEPT ![a] = "deleting"] ELSE binding
  /\ ws' = IF info[a] = NoInfo /\ binding[a] = "none"
              /\ (\A c \in Children(a) : accounts[c] = NoAccount /\ ws[c].phase = "none")
           THEN [ws EXCEPT ![a] = NoWorkspace] ELSE ws
  /\ <<accounts, info, binding, ws>>' # <<accounts, info, binding, ws>>
  /\ UNCHANGED <<orgObjects, wseen, pass, pend, init, born, faults>>

SyncWorkspace(a) ==
  /\ wseen[a] # ws[a].phase /\ wseen' = [wseen EXCEPT ![a] = ws[a].phase]
  /\ UNCHANGED <<objects, orgObjects, pass, pend, init, born, faults>>

-----------------------------------------------------------------------------
(* account-operator: the chain WorkspaceType, Workspace, AccountInfo,      *)
(* WorkspaceReady of one Account.                                          *)

AccountStart(a) ==
  LET o == accounts[a]
  IN  /\ where[a] = "idle"
      /\ Present(o)
      /\ where' = [where EXCEPT ![a] =
                  CASE o.state = "deleting" -> "finalizeWorkspace"
                    [] o.state = "live" /\ ~(OwnFinalizers(a) \subseteq o.fins) -> "fins"
                    [] OTHER -> IF IsOrg(a) THEN "orgType" ELSE "workspace"]
      /\ read' = [read EXCEPT ![a] = o.fins]
      /\ UNCHANGED <<objects, orgObjects, wseen, pend, init, born, faults>>

Rest(a) == where' = [where EXCEPT ![a] = "idle"] /\ read' = [read EXCEPT ![a] = {}]

Goto(a, label) == where' = [where EXCEPT ![a] = label] /\ UNCHANGED read

(* The end of a pass: the status patch with the Ready condition.           *)
EndOfPass(a, ready) ==
  /\ accounts' = IF Present(accounts[a]) THEN [accounts EXCEPT ![a].ready = ready] ELSE accounts
  /\ Rest(a)

AddFinalizers(a) ==
  /\ where[a] = "fins"
  /\ accounts' = [accounts EXCEPT ![a] = PatchedFins(@, read[a] \cup OwnFinalizers(a))]
  /\ Rest(a)
  /\ UNCHANGED <<ws, info, binding, orgObjects, wseen, pend, init, born, faults>>

(* An existing type keeps the fields the org's initializer has set.        *)
createOrPatchWorkspaceType(t) ==
  IF t.state = "none" THEN [state |-> "new", auth |-> FALSE] ELSE t

WorkspaceTypeProcess(a) ==
  /\ \E k \in Kinds :
       /\ where[a] = IF k = "org" THEN "orgType" ELSE "accountType"
       /\ types' = [types EXCEPT ![a][k] = createOrPatchWorkspaceType(@)]
       /\ Goto(a, IF k = "org" THEN "accountType" ELSE "workspace")
  /\ UNCHANGED <<objects, res, conf, tuples, wseen, pend, init, born, faults>>

checkWorkspaceTypeReady(a) == types[OrgOf[a]][Kind(a)].state = "ready"

WorkspaceProcess(a) ==
  /\ where[a] = "workspace"
  /\ LET named == IsOrg(a) \/ (Present(info[Parent[a]]) /\ info[Parent[a]].org)
     IN  IF named /\ checkWorkspaceTypeReady(a) /\ (wseen[a] # "none" \/ ws[a].phase = "none")
         THEN /\ ws' = IF ws[a].phase # "none" \/ wseen[a] # "none" THEN ws
                       ELSE [ws EXCEPT ![a] = [phase |-> "scheduling",
                                               auth |-> types[OrgOf[a]][Kind(a)].auth]]
              /\ Goto(a, "info") /\ accounts' = accounts
         ELSE EndOfPass(a, FALSE) /\ ws' = ws
  /\ UNCHANGED <<info, binding, orgObjects, wseen, pend, init, born, faults>>

(* An org's AccountInfo names the org itself and keeps what the org's      *)
(* initializer has set; a child's is copied from its parent's.             *)
desiredInfo(a, old) ==
  [old EXCEPT !.state = IF @ = "none" THEN "live" ELSE @,
              !.org = IsOrg(a) \/ info[Parent[a]].org,
              !.oidc = IF IsOrg(a) THEN @ ELSE info[Parent[a]].oidc]

MutWaitsForReady == {"ready"}

InfoPhases == {"initializing", "ready"}

ManageAccountInfoProcess(a) ==
  /\ where[a] = "info"
  /\ IF /\ wseen[a] \in InfoPhases
        /\ ws[a].phase \in {"initializing", "ready"}
        /\ IsOrg(a) \/ Present(info[Parent[a]])
     THEN info' = [info EXCEPT ![a] = desiredInfo(a, @)] /\ Goto(a, "ready") /\ accounts' = accounts
     ELSE EndOfPass(a, FALSE) /\ info' = info
  /\ UNCHANGED <<ws, binding, orgObjects, wseen, pend, init, born, faults>>

MutReadyEarly(a) == wseen[a] \in {"initializing", "ready"}

WorkspaceIsReady(a) == wseen[a] = "ready"

WorkspaceReadyProcess(a) ==
  /\ where[a] = "ready"
  /\ EndOfPass(a, WorkspaceIsReady(a))
  /\ UNCHANGED <<ws, info, binding, orgObjects, wseen, pend, init, born, faults>>

WorkspaceGone(a) == wseen[a] = "none"

WorkspaceFinalize(a) ==
  /\ where[a] = "finalizeWorkspace"
  /\ IF WorkspaceGone(a)
     THEN Goto(a, IF IsOrg(a) THEN "finalizeOrgType" ELSE "release") /\ ws' = ws
     ELSE /\ ws' = IF /\ wseen[a] \notin {"none", "terminating", "emptying"}
                      /\ ws[a].phase \in {"scheduling", "initializing", "ready"}
                   THEN [ws EXCEPT ![a].phase = "terminating"] ELSE ws
          /\ Rest(a)
  /\ UNCHANGED <<accounts, info, binding, orgObjects, wseen, pend, init, born, faults>>

WorkspaceTypeFinalize(a) ==
  /\ \E k \in Kinds :
       /\ where[a] = IF k = "org" THEN "finalizeOrgType" ELSE "finalizeAccountType"
       /\ types' = [types EXCEPT ![a][k] = NoType]
       /\ Goto(a, IF k = "org" THEN "finalizeAccountType" ELSE "release")
  /\ UNCHANGED <<objects, res, conf, tuples, wseen, pend, init, born, faults>>

(* The metadata patch of a pass that finalized everything.                 *)
ReleaseAccount(a) ==
  /\ where[a] = "release"
  /\ accounts' = [accounts EXCEPT ![a] = CollectAccount(PatchedFins(@, read[a] \ OwnFinalizers(a)))]
  /\ Rest(a)
  /\ UNCHANGED <<ws, info, binding, orgObjects, wseen, pend, init, born, faults>>

(* A call of the pass faults: the chain ends, a retry follows.              *)
PassFails(a) ==
  /\ where[a] # "idle" /\ Fault /\ Rest(a)
  /\ UNCHANGED <<objects, orgObjects, wseen, pend, init, born>>

-----------------------------------------------------------------------------
(* The two engines that guard an AccountInfo.  Each writes the finalizer   *)
(* list it has read with its own finalizer added or taken off.             *)

MutIgnoresAccounts(a) == TRUE

NoAccountsListed(a) == \A c \in Children(a) : ~Present(accounts[c])

NoBindingFinalizer(a) == binding[a] = "none"

MayFinalize(a, e) ==
  IF e = "account" THEN NoAccountsListed(a) ELSE NoBindingFinalizer(a)

InfoRead(a, e) ==
  /\ a \in Guarded /\ pend[a][e] = {"idle"}
  /\ \/ /\ info[a].state = "live" /\ e \notin info[a].fins
        /\ pend' = [pend EXCEPT ![a][e] = info[a].fins \cup {e}]
     \/ /\ info[a].state = "deleting" /\ e \in info[a].fins
        /\ MayFinalize(a, e)
        /\ pend' = [pend EXCEPT ![a][e] = info[a].fins \ {e}]
  /\ UNCHANGED <<objects, orgObjects, wseen, pass, init, born, faults>>

InfoWrite(a, e) ==
  /\ pend[a][e] # {"idle"}
  /\ info' = [info EXCEPT ![a] = CollectInfo(PatchedFins(@, pend[a][e]))]
  /\ pend' = [pend EXCEPT ![a][e] = {"idle"}]
  /\ UNCHANGED <<accounts, ws, binding, orgObjects, wseen, pass, init, born, faults>>

(* AuthorizationModelGeneration.Finalize needs the AccountInfo.            *)
FinalizeBinding(a) ==
  /\ binding[a] = "deleting" /\ Present(info[a])
  /\ binding' = [binding EXCEPT ![a] = "none"]
  /\ UNCHANGED <<accounts, ws, info, orgObjects, wseen, pass, pend, init, born, faults>>

-----------------------------------------------------------------------------
(* security-operator: the initializer and terminator of the workspaces.    *)
(* A pass over an initializing workspace may outlast its deletion.         *)

InitStart(a) ==
  /\ a \notin init /\ ws[a].phase = "initializing" /\ Present(info[a])
  /\ init' = init \cup {a}
  /\ UNCHANGED <<objects, orgObjects, wseen, pass, pend, born, faults>>

(* The pass faults or waits for something.                                  *)
InitEnd(a) ==
  /\ a \in init /\ init' = init \ {a}
  /\ UNCHANGED <<objects, orgObjects, wseen, pass, pend, born, faults>>

(* workspaceInitializer and IDPSubroutine create a resource and wait.      *)
Awaited(o) == IF res[o]["store"] # "ready" THEN "store" ELSE "idp"

InitResource(o) ==
  /\ o \in init /\ IsOrg(o) /\ Present(info[o]) /\ Present(accounts[o])
  /\ res[o][Awaited(o)] = "none"
  /\ res' = [res EXCEPT ![o][Awaited(o)] = "pending"]
  /\ init' = init \ {o}
  /\ UNCHANGED <<objects, types, conf, tuples, wseen, pass, pend, born, faults>>

ResourcesReady(o) == \A r \in Resources : res[o][r] = "ready"

patchAccountInfo(o) ==
  /\ o \in init /\ IsOrg(o) /\ ResourcesReady(o) /\ Present(info[o]) /\ ~info[o].oidc
  /\ info' = [info EXCEPT ![o].oidc = TRUE]
  /\ UNCHANGED <<accounts, ws, binding, orgObjects, wseen, pass, pend, init, born, faults>>

Unauthenticated(o) == {k \in Kinds : types[o][k].state # "none" /\ ~types[o][k].auth}

(* workspaceAuthSubroutine: the configuration, then the types of the org.  *)
InitAuthConfig(o) ==
  /\ o \in init /\ IsOrg(o) /\ ResourcesReady(o) /\ info[o].oidc
  /\ \/ /\ o \notin conf
        /\ conf' = conf \cup {o} /\ types' = types
     \/ /\ o \in conf /\ conf' = conf
        /\ \E k \in Unauthenticated(o) : types' = [types EXCEPT ![o][k].auth = TRUE]
  /\ UNCHANGED <<objects, res, tuples, wseen, pass, pend, init, born, faults>>

(* A clean chain takes the initializer off.                                *)
ReleaseOrg(o) ==
  /\ o \in init /\ IsOrg(o) /\ ResourcesReady(o) /\ info[o].oidc /\ o \in conf
  /\ Unauthenticated(o) = {}
  /\ ws' = IF ws[o].phase = "initializing" THEN [ws EXCEPT ![o].phase = "ready"] ELSE ws
  /\ init' = init \ {o}
  /\ UNCHANGED <<accounts, info, binding, orgObjects, wseen, pass, pend, born, faults>>

(* AccountTuplesSubroutine.Initialize; the initializer goes with the pass. *)
InitTuples(a) ==
  /\ a \in init /\ ~IsOrg(a) /\ Present(accounts[a]) /\ res[OrgOf[a]]["store"] # "none"
  /\ tuples' = tuples \cup {a}
  /\ ws' = IF ws[a].phase = "initializing" THEN [ws EXCEPT ![a].phase = "ready"] ELSE ws
  /\ init' = init \ {a}
  /\ UNCHANGED <<accounts, info, binding, types, res, conf, wseen, pass, pend, born, faults>>

MutIgnoresMissingStore(a) == res[OrgOf[a]]["store"] # "none"

StoreReachable(a) == TRUE

(* AccountTuplesSubroutine.Terminate skips a store that is gone.           *)
TerminateTuples(a) ==
  /\ ws[a].phase = "terminating" /\ ~IsOrg(a) /\ StoreReachable(a)
  /\ tuples' = tuples \ {a}
  /\ ws' = [ws EXCEPT ![a].phase = "emptying"]
  /\ UNCHANGED <<accounts, info, binding, types, res, conf, wseen, pass, pend, init, born, faults>>

(* Terminators run from the last to the first; the configuration is not    *)
(* waited for, the resources are.                                          *)
TerminateOrg(o) ==
  /\ ws[o].phase = "terminating" /\ IsOrg(o)
  /\ conf' = conf \ {o}
  /\ IF res[o] = [r \in Resources |-> "none"]
     THEN ws' = [ws EXCEPT ![o].phase = "emptying"] /\ res' = res
     ELSE LET r == IF res[o]["idp"] # "none" THEN "idp" ELSE "store"
          IN  /\ res[o][r] # "deleting"
              /\ res' = [res EXCEPT ![o][r] = "deleting"] /\ ws' = ws
  /\ UNCHANGED <<accounts, info, binding, types, tuples, wseen, pass, pend, init, born, faults>>

(* The Store and IDP controllers.                                          *)
Settle(o, r) ==
  /\ res[o][r] \in {"pending", "deleting"}
  /\ res' = [res EXCEPT ![o][r] = IF @ = "pending" THEN "ready" ELSE "none"]
  /\ tuples' = IF r = "store" /\ res[o][r] = "deleting"
               THEN {a \in tuples : OrgOf[a] # o} ELSE tuples
  /\ UNCHANGED <<objects, types, conf, wseen, pass, pend, init, born, faults>>

-----------------------------------------------------------------------------
AccountsInit ==
  /\ accounts = [a \in Account |-> NoAccount]
  /\ types = [o \in Orgs |-> [k \in Kinds |-> NoType]]
  /\ res = [o \in Orgs |-> [r \in Resources |-> "none"]]
  /\ conf = {} /\ tuples = {} /\ init = {}
  /\ ws = [a \in Account |-> NoWorkspace]
  /\ wseen = [a \in Account |-> "none"]
  /\ info = [a \in Account |-> NoInfo]
  /\ binding = [a \in Account |-> "none"]
  /\ where = [a \in Account |-> "idle"]
  /\ read = [a \in Account |-> {}]
  /\ pend = [a \in Account |-> [e \in Engines |-> {"idle"}]]
  /\ born = {} /\ faults = 0

AccountOperator(a) ==
  \/ AccountStart(a) \/ AddFinalizers(a) \/ WorkspaceTypeProcess(a)
  \/ WorkspaceProcess(a) \/ ManageAccountInfoProcess(a) \/ WorkspaceReadyProcess(a)
  \/ WorkspaceFinalize(a) \/ WorkspaceTypeFinalize(a) \/ ReleaseAccount(a)

InfoEngines(a) == \E e \in Engines : InfoRead(a, e) \/ InfoWrite(a, e)

InitProgress(a) ==
  \/ InitResource(a) \/ patchAccountInfo(a) \/ InitAuthConfig(a) \/ ReleaseOrg(a)
  \/ InitTuples(a)

Terminator(a) == TerminateTuples(a) \/ TerminateOrg(a)

Kcp(a) == Schedule(a) \/ GarbageCollect(a) \/ Empty(a)

Users(a) == CreateAccount(a) \/ DeleteAccount(a)

Background ==
  \/ \E a \in Account : Kcp(a) \/ SyncWorkspace(a) \/ Terminator(a)
  \/ \E o \in Orgs : (\E k \in Kinds : TypeBecomesReady(o, k))
                     \/ (\E r \in Resources : Settle(o, r))

TreeStep ==
  \/ Background
  \/ \E a \in Account :
       \/ Users(a) \/ AccountOperator(a) \/ PassFails(a)
       \/ InitStart(a) \/ InitEnd(a) \/ InitProgress(a)

(* API bindings, and the finalizers that guard the AccountInfo.            *)
GuardStep == \E a \in Account : BindAPI(a) \/ FinalizeBinding(a) \/ InfoEngines(a)

Step == TreeStep \/ GuardStep

AccountsSpec == AccountsInit /\ [][Step]_accountVars

(* A tree without bindings, in which controllers retry, informers deliver  *)
(* and kcp acts.  The background steps share one condition: each brings    *)
(* its object on, so none can starve another for ever.  A pass of the      *)
(* initializer may end before it has done anything, whence strong fairness.*)
FairTree ==
  /\ AccountsInit /\ [][TreeStep]_accountVars
  /\ WF_accountVars(Background)
  /\ \A a \in Account :
       /\ WF_accountVars(AccountOperator(a)) /\ WF_accountVars(InitStart(a))
       /\ SF_accountVars(InitProgress(a))

-----------------------------------------------------------------------------
AccountObject == [state : {"none", "live", "deleting"},
                  fins : SUBSET {"type", "workspace"}, ready : BOOLEAN]
InfoObject == [state : {"none", "live", "deleting"}, fins : SUBSET Engines,
               org : BOOLEAN, oidc : BOOLEAN, guarded : BOOLEAN]
TypeObject == [state : {"none", "new", "ready"}, auth : BOOLEAN]
Phase == {"none", "scheduling", "initializing", "ready", "terminating", "emptying"}
WorkspaceObject == [phase : Phase, auth : BOOLEAN]
PassLabel == {"idle", "fins", "orgType", "accountType", "workspace", "info", "ready",
              "finalizeWorkspace", "finalizeOrgType", "finalizeAccountType", "release"}

Pending == (SUBSET Engines) \cup {{"idle"}}

AccountsTypeOK ==
  /\ accounts \in [Account -> AccountObject]
  /\ types \in [Orgs -> [Kinds -> TypeObject]]
  /\ res \in [Orgs -> [Resources -> {"none", "pending", "ready", "deleting"}]]
  /\ conf \subseteq Orgs /\ tuples \subseteq Account \ Orgs /\ init \subseteq Account
  /\ ws \in [Account -> WorkspaceObject] /\ wseen \in [Account -> Phase]
  /\ info \in [Account -> InfoObject]
  /\ binding \in [Account -> {"none", "live", "deleting"}]
  /\ where \in [Account -> PassLabel]
  /\ read \in [Account -> SUBSET {"type", "workspace"}]
  /\ pend \in [Account -> [Engines -> Pending]]
  /\ born \subseteq Account /\ faults \in 0..MaxAccountFaults

(* Ready on a live account tells the truth: its workspace is usable, its   *)
(* AccountInfo names the org and its identity provider, and a child's      *)
(* tuples are in the store unless the org is being taken down.             *)
ReadyMeansUsable ==
  \A a \in Account :
    accounts[a].state = "live" /\ accounts[a].ready =>
      /\ ws[a].phase = "ready" /\ info[a].state = "live"
      /\ info[a].org /\ info[a].oidc
      /\ IsOrg(a) \/ a \in tuples \/ ws[OrgOf[a]].phase # "ready"

(* An AccountInfo that carried both finalizers when its deletion began     *)
(* stays as long as the workspace has accounts or a binding being deleted. *)
InfoGoesLast ==
  [][\A a \in Account :
       info[a].guarded /\ ~Present(info'[a]) =>
         binding[a] = "none" /\ (\A c \in Children(a) : ~Present(accounts[c]))]_accountVars

(* An account that stays becomes ready: operator, initializer and kcp,     *)
(* each waiting for what another makes, do not wait for one another.       *)
Onboarded ==
  \A a \in Account : accounts[a].state = "live" ~> accounts[a].ready \/ accounts[a].state # "live"

(* A deleted account goes with its workspace, the org after its children,  *)
(* although terminators need a Store that the org's own deletion removes.  *)
AccountDeletionCompletes ==
  \A a \in Account :
    accounts[a].state = "deleting" ~>
      accounts[a] = NoAccount /\ ws[a].phase = "none"
=============================================================================
