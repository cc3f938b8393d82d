------------------------------ MODULE MCLifecycle ------------------------------
(***************************************************************************)
(* Instances of Lifecycle for TLC: the answers subroutines give in the     *)
(* individual runs.                                                        *)
(***************************************************************************)
EXTENDS Lifecycle

AllResults == Results

(* Answers that a healthy or a failing API call leads to.                  *)
CommonResults == {"OK", "Pending", "Error"}

(* Answers after which the engine, or the work queue, comes back.          *)
RetryingResults == {"OK", "Requeue", "Pending", "StopRequeue", "Error"}

(* Answers that end the pass in all ways but skipping the rest of the chain. *)
SpreadResults == {"OK", "Requeue", "Stop", "Error"}

OnlyOK == {"OK"}

AnyTeardown == [s \in Sub |-> Results]

CommonTeardown == [s \in Sub |-> CommonResults]

(* The first subroutine is torn down last and may let the chain go on; the *)
(* others end it until they are done, as the resource broker's do.         *)
OrderedAnswers ==
  [s \in Sub |-> IF s = 1 THEN RetryingResults ELSE {"OK", "StopRequeue", "Error"}]
===============================================================================
