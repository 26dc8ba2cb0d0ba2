------------------------------ MODULE Breaker ------------------------------
(***************************************************************************)
(* What the circuit breaker of ONE provider promises, whoever calls it and *)
(* in whatever order.  It knows nothing of requests, of locks or of the    *)
(* lazily cleared open_until of src/src/provider.rs: Routing.tla, which    *)
(* has all of these, implements it.                                        *)
(*                                                                         *)
(*   closed    requests are let through                                    *)
(*   open      requests are turned away until the cooldown has elapsed     *)
(*   probation requests are let through, and the next failure reopens      *)
(***************************************************************************)
EXTENDS Integers

CONSTANTS
    Threshold,  \* failures in a row that open the circuit
    Cooldown    \* how long it stays open; 0 never turns a request away

VARIABLES
    phase,      \* "closed", "open" or "probation"
    count       \* failures since the last success

bvars == <<phase, count>>

BreakerInit == phase = "closed" /\ count = 0

\* The Threshold-th failure in a row opens the circuit, and so does every
\* later one until a success; an earlier one is only counted.
Fail ==
    /\ count' = count + 1
    /\ phase' = IF count' < Threshold THEN phase
                ELSE IF Cooldown = 0 THEN "probation" ELSE "open"

\* Only a success closes the circuit, and it forgets every failure.
Succeed == phase' = "closed" /\ count' = 0

\* The end of the cooldown puts the circuit on probation: the count stays,
\* so that one more failure is enough to open it again.
Elapse == phase = "open" /\ phase' = "probation" /\ count' = count

BreakerNext == Fail \/ Succeed \/ Elapse

BreakerSpec == BreakerInit /\ [][BreakerNext]_bvars
=============================================================================
