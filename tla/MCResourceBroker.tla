--------------------------- MODULE MCResourceBroker ---------------------------
(***************************************************************************)
(* The controllers of the resource broker above the staging workspaces,    *)
(* for TLC.  Broker leaves the stages of a migration out, Stages has       *)
(* nothing else: one run explores them one at a time.                      *)
(***************************************************************************)
EXTENDS Broker, Stages, TLC

CONSTANTS p1, p2

(* Two stages, the first with two templates.                               *)
MCTemplatesOf == <<{"export", "schema"}, {"import"}>>

VARIABLE part

BrokerInit == part \in {"broker", "stages"} /\ Init /\ StagesInit

BrokerNext ==
  /\ UNCHANGED part
  /\ \/ part = "broker" /\ Next /\ UNCHANGED stagesVars
     \/ part = "stages" /\ StagesNext /\ UNCHANGED vars

InPart(p, A) == part = p /\ A

(* The fairness of each module, for the part that is explored.             *)
BrokerFairness ==
  /\ WF_vars(InPart("broker", Worker)) /\ WF_vars(InPart("broker", MigrationController))
  /\ \A p \in Providers :
       /\ WF_vars(InPart("broker", StagingReady(p)))
       /\ WF_vars(InPart("broker", StagingGone(p)))
       /\ WF_vars(InPart("broker", ProviderServes(p)))
       /\ WF_vars(InPart("broker", CopyGone(p)))
  /\ WF_stagesVars(InPart("stages", Pass))
  /\ WF_stagesVars(InPart("stages", Sync))
  /\ WF_stagesVars(InPart("stages", World))

BrokerSpec == BrokerInit /\ [][BrokerNext]_<<part, vars, stagesVars>> /\ BrokerFairness

(* EventuallyServed is about every behaviour of the part.                  *)
ObjectEventuallyServed == part = "broker" => EventuallyServed
===============================================================================
