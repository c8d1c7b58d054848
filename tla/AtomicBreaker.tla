--------------------------- MODULE AtomicBreaker ---------------------------
(***************************************************************************)
(* The abstract circuit breaker: check, record_success, record_failure and *)
(* reset of circuit_breaker.rs, each taken as one indivisible step.  This  *)
(* is what a caller has in mind; CircuitBreaker has the single accesses.   *)
(***************************************************************************)
EXTENDS Integers

CONSTANTS FailureThreshold, SuccessThreshold, ResetTimeout, MaxBacks

VARIABLES state, failures, successes, age

vars == <<state, failures, successes, age>>

Least(a, b) == IF a < b THEN a ELSE b
MaxAge == ResetTimeout + MaxBacks

\* A probe is let through once the timeout since the last failure is over.
Probe ==
    /\ state = "Open"
    /\ age >= ResetTimeout
    /\ state' = "HalfOpen"
    /\ successes' = 0
    /\ UNCHANGED <<failures, age>>

\* Enough consecutive successes of probes close the circuit; a success of an
\* ordinary request forgets the failures so far.
Success ==
    /\ UNCHANGED age
    /\ \/ /\ state = "Closed"
          /\ failures' = 0
          /\ UNCHANGED <<state, successes>>
       \/ /\ state = "HalfOpen"
          /\ successes' = successes + 1
          /\ IF successes' < SuccessThreshold
             THEN UNCHANGED <<state, failures>>
             ELSE state' = "Closed" /\ failures' = 0

\* Enough failures open the circuit; any failure of a probe opens it again.
\* Failures reported while it is open change nothing.
Failure ==
    /\ state # "Open"
    /\ age' = 0
    /\ failures' = Least(failures + 1, FailureThreshold)
    /\ \/ /\ state = "Closed"
          /\ state' = IF failures + 1 >= FailureThreshold THEN "Open" ELSE state
          /\ UNCHANGED successes
       \/ /\ state = "HalfOpen"
          /\ state' = "Open"
          /\ successes' = 0

Reset ==
    /\ state' = "Closed"
    /\ failures' = 0
    /\ successes' = 0
    /\ UNCHANGED age

Tick ==
    /\ age' = Least(age + 1, MaxAge)
    /\ UNCHANGED <<state, failures, successes>>

\* The clock is set back.
SetBack ==
    /\ age' = age - 1
    /\ UNCHANGED <<state, failures, successes>>

Init ==
    /\ state = "Closed"
    /\ failures = 0
    /\ successes = 0
    /\ age = MaxAge

Next == Probe \/ Success \/ Failure \/ Reset \/ Tick \/ SetBack

Spec == Init /\ [][Next]_vars
=============================================================================
