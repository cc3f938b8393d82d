------------------------------- MODULE MCSafety -------------------------------
(***************************************************************************)
(* Four parts whose properties are about states and steps alone, for TLC:  *)
(* the conditions of the subroutine engine, the guarded deletion of an     *)
(* account tree, the sync waves of the platform operator and the pages of  *)
(* the search service.  They share no state, so one run explores them one  *)
(* at a time.                                                              *)
(***************************************************************************)
EXTENDS MCLifecycle, MCAccounts, SyncWaves, SearchPaging

CONSTANTS traefik, iam, portal

MCAccountOf == <<"a1", "a2", "a1", "a1">>
MCValueOf == <<"u", "v", "u", "w">>

(* An object that is being deleted has no say in the conditions.           *)
MCTeardown == [s \in Sub |-> {"OK", "Error"}]

VARIABLE part

(* A part that is not explored has one initial state.                      *)
NoWaves ==
  /\ dependencies = [s \in Service |-> {}] /\ user = [s \in Service |-> {}]
  /\ serviceNames = CHOOSE names \in Orders : TRUE
  /\ waves = [s \in Service |-> 0] /\ changed = FALSE
  /\ position = 1 /\ rounds = 0 /\ finished = TRUE

SafetyInit ==
  /\ part \in {"engine", "accounts", "waves", "paging"}
  /\ Init /\ AccountsInit
  /\ IF part = "waves" THEN WavesInit ELSE NoWaves
  /\ PagingInit /\ (part # "paging" => granted = Document)

SafetyNext ==
  /\ UNCHANGED part
  /\ \/ part = "engine" /\ UNCHANGED <<accountVars, waveVars, pagingVars>> /\ Next
     \/ part = "accounts" /\ UNCHANGED <<vars, waveVars, pagingVars>> /\ Step
     \/ part = "waves" /\ UNCHANGED <<vars, accountVars, pagingVars>> /\ WavesNext
     \/ part = "paging" /\ UNCHANGED <<vars, accountVars, waveVars>> /\ PagingNext

SafetySpec ==
  SafetyInit /\ [][SafetyNext]_<<part, vars, accountVars, waveVars, pagingVars>>
===============================================================================
