---------------------------- MODULE MigrationPhases ----------------------------
(***************************************************************************)
(* What a migration with stages promises: the stages' workloads complete   *)
(* one after the other, in the order of the configuration, and the         *)
(* consumer is not moved before the last of them has.  Only a stage that   *)
(* waits for its workloads is promised anything about.                     *)
(***************************************************************************)
EXTENDS Naturals

CONSTANT Waiting   (* the numbers of the stages that wait for workloads *)

VARIABLES
  moved,     (* the stages whose workloads have all completed              *)
  phase      (* "stages", "cutover" or "completed"                         *)

vars == <<moved, phase>>

TypeOK == moved \subseteq Waiting /\ phase \in {"stages", "cutover", "completed"}

Init == moved = {} /\ phase = "stages"

Move(s) ==
  /\ s \notin moved /\ {u \in Waiting : u < s} \subseteq moved
  /\ moved' = moved \cup {s} /\ phase' = phase

CutOver ==
  /\ phase = "stages" /\ moved = Waiting
  /\ phase' = "cutover" /\ moved' = moved

(* The copy may already be there when the last stage completes.            *)
Complete ==
  /\ phase # "completed" /\ moved = Waiting
  /\ phase' = "completed" /\ moved' = moved

(* A late status write may take the phase back, never before all stages    *)
(* have been through.                                                      *)
Reopen ==
  /\ phase # "stages" /\ moved = Waiting
  /\ phase' = "stages" /\ moved' = moved

Next == (\E s \in Waiting : Move(s)) \/ CutOver \/ Complete \/ Reopen

Spec == Init /\ [][Next]_vars
=============================================================================
