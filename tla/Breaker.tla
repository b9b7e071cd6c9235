------------------------------ MODULE Breaker -------------------------------
(***************************************************************************)
(* The circuit breaker of one upstream as failover.go documents it, used   *)
(* by one caller at a time: "breakerThreshold consecutive failures open an *)
(* upstream's circuit"; "once cooldown elapses, the next request that      *)
(* reaches this upstream IS the probe: success closes the circuit, failure *)
(* re-opens it immediately".                                               *)
(*                                                                         *)
(* Each upstream of Failover, whatever its many callers do, behaves like   *)
(* that: see Failover_proofs!EachIsABreaker.                               *)
(***************************************************************************)
EXTENDS Naturals

CONSTANT Threshold      \* breakerThreshold

VARIABLES
    row,        \* failures since the last success, not counted further once
                \* there are Threshold
    open        \* is the upstream left out of the lists?

vars == <<row, open>>

Init == row = 0 /\ open = FALSE

Success == row' = 0 /\ open' = FALSE

Failure ==
    /\ row' = IF row < Threshold THEN row + 1 ELSE row
    /\ open' = (row' = Threshold)

CoolDown ==
    /\ open
    /\ open' = FALSE
    /\ UNCHANGED row

Next == Success \/ Failure \/ CoolDown

Spec == Init /\ [][Next]_vars

=============================================================================
