------------------------ MODULE CircuitBreakerHistory ------------------------
(***************************************************************************)
(* CircuitBreaker with the history needed to compare it with whole calls:  *)
(* the atomics as they were when no call was in progress last, and the     *)
(* successes recorded in the current half-open period.                     *)
(***************************************************************************)
EXTENDS CircuitBreaker

VARIABLES
    rest,      \* the atomics when no call was in progress last
    recorded   \* successes added since the circuit became half-open

hvars == <<vars, rest, recorded>>

AtRest == \A t \in Threads : pc[t] = Idle

Atomics == [state |-> state, failures |-> failures, successes |-> successes,
            age |-> lastAge]

HInit ==
    /\ Init
    /\ rest = Atomics
    /\ recorded = 0

Probing == state = "Open" /\ state' = "HalfOpen"

HNext ==
    /\ Next
    /\ rest' = IF AtRest' THEN Atomics' ELSE rest
    /\ recorded' =
          IF Probing THEN 0
          ELSE IF state = "HalfOpen" /\ \E t \in Threads : AddSuccess(t)
          THEN Least(recorded + 1, SuccessThreshold) ELSE recorded

HSpec == HInit /\ [][HNext]_hvars

Documented == INSTANCE AtomicBreaker WITH
    state <- rest.state, failures <- rest.failures,
    successes <- rest.successes, age <- rest.age

-----------------------------------------------------------------------------
(* Called by one thread, with calls shorter than a tick, the single        *)
(* accesses add up to whole calls of AtomicBreaker, in every order of      *)
(* calls: no half-done call leaves a count or a timestamp behind           *)
(* (circuit_breaker.rs:114-216).                                           *)
ImplementsDocumented == Documented!Spec

(* circuit_breaker.rs:125: "Only the winning thread resets success_count,  *)
(* so concurrent checks cannot erase successes that have already been      *)
(* recorded."  False: the winner resets it in a second step, and a probe   *)
(* of another thread may have succeeded in between.                        *)
SuccessesAreNotErased ==
    [][\A t \in Threads : CheckResetSuccesses(t) => recorded = 0]_hvars
=============================================================================
