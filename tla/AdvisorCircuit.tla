--------------------------- MODULE AdvisorCircuit ---------------------------
(***************************************************************************)
(* The circuit breaker around the AI advisor (ai_proof_advisor.py): two    *)
(* globals of the process, shared by its threads.  Each function below has *)
(* no call inside and runs under the interpreter's lock, so it is atomic.  *)
(* Nothing ever half-opens the circuit: only a success closes it.          *)
(***************************************************************************)
EXTENDS Integers

CONSTANT Threshold  \* _AI_FAILURE_THRESHOLD, 5

ASSUME CircuitAssumption == Threshold \in Nat \ {0}

VARIABLES
  failures,  \* _AI_FAILURE_COUNT
  open       \* _AI_CIRCUIT_OPEN

circuit == <<failures, open>>

CircuitInit == failures = 0 /\ open = FALSE

RecordSuccess == failures' = 0 /\ open' = FALSE

RecordFailure ==
  /\ failures' = failures + 1
  /\ open' = (open \/ failures + 1 >= Threshold)
=============================================================================
