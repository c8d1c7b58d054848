--------------------------- MODULE CircuitBreaker ---------------------------
(***************************************************************************)
(* The circuit breaker (circuit_breaker.rs): threads call check,           *)
(* record_success, record_failure and reset on four atomics.  Every atomic *)
(* access is sequentially consistent, so one action per access covers the  *)
(* interleavings.  A timestamp is modelled by its age, counted in ticks.   *)
(* The code reads the wall clock, which may be set back: ages then shrink, *)
(* below zero too.  An age is modelled up to MaxAge, from which no setting *)
(* back that is left leads below ResetTimeout, a counter up to its         *)
(* threshold: beyond these the code does not tell values apart.            *)
(***************************************************************************)
EXTENDS Integers

CONSTANTS
    Threads,           \* callers of the breaker
    FailureThreshold,  \* CircuitBreakerConfig::failure_threshold
    SuccessThreshold,  \* CircuitBreakerConfig::success_threshold
    ResetTimeout,      \* CircuitBreakerConfig::reset_timeout, in ticks
    MaxBacks,          \* bound on the ticks by which the clock is set back
    InstantCalls       \* TRUE: no call takes as long as a tick

ASSUME ConstantsAssumption ==
    /\ FailureThreshold \in Nat \ {0}
    /\ SuccessThreshold \in Nat \ {0}
    /\ ResetTimeout \in Nat \ {0}
    /\ MaxBacks \in Nat
    /\ InstantCalls \in BOOLEAN

VARIABLES
    state,      \* AtomicU8
    failures,   \* failure_count
    successes,  \* success_count
    lastAge,    \* the age of last_failure_time
    backs,      \* the ticks by which the clock was set back
    pc          \* pc[t]: what thread t does next, and the locals of its call

breaker == <<state, failures, successes, lastAge, backs>>
vars == <<breaker, pc>>

Least(a, b) == IF a < b THEN a ELSE b
MaxAge == ResetTimeout + MaxBacks

Idle == [at |-> "idle", age |-> 0, trips |-> FALSE]

\* Thread t is at label from and goes to label to.
Move(t, from, to) ==
    /\ pc[t].at = from
    /\ pc' = [pc EXCEPT ![t] = IF to = "idle" THEN Idle ELSE [@ EXCEPT !.at = to]]

(***************************************************************************)
(* check                                                                   *)
(***************************************************************************)
CheckLoadState(t) ==
    /\ Move(t, "idle", IF state = "Open" THEN "load_last" ELSE "idle")
    /\ UNCHANGED breaker

\* Mutant: one tick too many is counted.
CheckLoadLastLater(t) ==
    /\ pc[t].at = "load_last"
    /\ pc' = [pc EXCEPT ![t] = [@ EXCEPT !.at = "read_clock", !.age = lastAge + 1]]
    /\ UNCHANGED breaker

CheckLoadLast(t) ==
    /\ pc[t].at = "load_last"
    /\ pc' = [pc EXCEPT ![t] = [@ EXCEPT !.at = "read_clock", !.age = lastAge]]
    /\ UNCHANGED breaker

\* saturating_sub: a timestamp in the future is as old as the present.
Elapsed(age) == IF age < 0 THEN 0 ELSE age

\* elapsed >= timeout, or the request is refused.
CheckReadClock(t) ==
    /\ pc[t].at = "read_clock"
    /\ Move(t, "read_clock", IF Elapsed(pc[t].age) >= ResetTimeout THEN "cas" ELSE "idle")
    /\ UNCHANGED breaker

CheckCas(t) ==
    /\ Move(t, "cas", IF state = "Open" THEN "won" ELSE "idle")
    /\ state' = IF state = "Open" THEN "HalfOpen" ELSE state
    /\ UNCHANGED <<failures, successes, lastAge, backs>>

\* Mutant: the winner of the exchange leaves the old count of successes.
CheckWinnerForgets(t) ==
    /\ Move(t, "won", "idle")
    /\ UNCHANGED breaker

\* Only the thread that won the exchange resets the successes.
CheckResetSuccesses(t) ==
    /\ Move(t, "won", "idle")
    /\ successes' = 0
    /\ UNCHANGED <<state, failures, lastAge, backs>>

(***************************************************************************)
(* record_success                                                          *)
(***************************************************************************)
SuccessLoadState(t) ==
    /\ Move(t, "idle", CASE state = "Closed"   -> "zero_failures"
                         [] state = "HalfOpen" -> "add_success"
                         [] state = "Open"     -> "idle")
    /\ UNCHANGED breaker

AddSuccess(t) ==
    /\ Move(t, "add_success",
            IF successes + 1 >= SuccessThreshold THEN "close" ELSE "idle")
    /\ successes' = Least(successes + 1, SuccessThreshold)
    /\ UNCHANGED <<state, failures, lastAge, backs>>

\* Mutant: closing the circuit keeps the failures that opened it.
CloseKeepsFailures(t) ==
    /\ Move(t, "close", "idle")
    /\ state' = "Closed"
    /\ UNCHANGED <<failures, successes, lastAge, backs>>

Close(t) ==
    /\ Move(t, "close", "zero_failures")
    /\ state' = "Closed"
    /\ UNCHANGED <<failures, successes, lastAge, backs>>

ZeroFailures(t) ==
    /\ Move(t, "zero_failures", "idle")
    /\ failures' = 0
    /\ UNCHANGED <<state, successes, lastAge, backs>>

(***************************************************************************)
(* record_failure                                                          *)
(***************************************************************************)
\* Mutant: a failure while open is stamped like any other.
FailureAlwaysStamped(t) ==
    /\ Move(t, "idle", CASE state = "Closed"   -> "add_failure"
                         [] state = "HalfOpen" -> "zero_successes"
                         [] state = "Open"     -> "stamp")
    /\ UNCHANGED breaker

FailureLoadState(t) ==
    /\ Move(t, "idle", CASE state = "Closed"   -> "add_failure"
                         [] state = "HalfOpen" -> "zero_successes"
                         [] state = "Open"     -> "idle")
    /\ UNCHANGED breaker

ZeroSuccesses(t) ==
    /\ Move(t, "zero_successes", "add_probe_failure")
    /\ successes' = 0
    /\ UNCHANGED <<state, failures, lastAge, backs>>

\* A failure while closed opens the circuit at the threshold, a failure of a
\* probe always does.
AddFailure(t) ==
    /\ pc[t].at \in {"add_failure", "add_probe_failure"}
    /\ pc' = [pc EXCEPT ![t] = [at |-> "stamp", age |-> 0,
          trips |-> \/ pc[t].at = "add_probe_failure"
                    \/ failures + 1 >= FailureThreshold]]
    /\ failures' = Least(failures + 1, FailureThreshold)
    /\ UNCHANGED <<state, successes, lastAge, backs>>

\* The clock is read here and stored in the next step.
Stamp(t) ==
    /\ pc[t].at = "stamp"
    /\ pc' = [pc EXCEPT ![t] = [@ EXCEPT !.at = "store_last", !.age = 0]]
    /\ UNCHANGED breaker

StoreLast(t) ==
    /\ Move(t, "store_last", IF pc[t].trips THEN "open" ELSE "idle")
    /\ lastAge' = pc[t].age
    /\ UNCHANGED <<state, failures, successes, backs>>

Open(t) ==
    /\ Move(t, "open", "idle")
    /\ state' = "Open"
    /\ UNCHANGED <<failures, successes, lastAge, backs>>

(***************************************************************************)
(* reset                                                                   *)
(***************************************************************************)
ResetState(t) ==
    /\ Move(t, "idle", "reset_failures")
    /\ state' = "Closed"
    /\ UNCHANGED <<failures, successes, lastAge, backs>>

ResetFailures(t) ==
    /\ Move(t, "reset_failures", "reset_successes")
    /\ failures' = 0
    /\ UNCHANGED <<state, successes, lastAge, backs>>

ResetSuccesses(t) ==
    /\ Move(t, "reset_successes", "idle")
    /\ successes' = 0
    /\ UNCHANGED <<state, failures, lastAge, backs>>

(***************************************************************************)
(* The clock: every timestamp, stored or in a local, gets older, or        *)
(* younger when the clock is set back.                                     *)
(***************************************************************************)
Aged(age, ticks) == Least(age + ticks, MaxAge)

PassTime(ticks) ==
    /\ InstantCalls => \A t \in Threads : pc[t] = Idle
    /\ lastAge' = Aged(lastAge, ticks)
    /\ pc' = [t \in Threads |->
          IF pc[t].at \in {"read_clock", "store_last"}
          THEN [pc[t] EXCEPT !.age = Aged(@, ticks)] ELSE pc[t]]
    /\ UNCHANGED <<state, failures, successes>>

Tick ==
    /\ PassTime(1)
    /\ UNCHANGED backs

SetBack ==
    /\ backs < MaxBacks
    /\ backs' = backs + 1
    /\ PassTime(-1)

-----------------------------------------------------------------------------
Init ==
    /\ state = "Closed"
    /\ failures = 0
    /\ successes = 0
    /\ lastAge = MaxAge    \* last_failure_time starts at the epoch
    /\ backs = 0
    /\ pc = [t \in Threads |-> Idle]

\* The steps of a call that has begun.
Continue(t) ==
    \/ CheckLoadLast(t) \/ CheckReadClock(t) \/ CheckCas(t)
    \/ CheckResetSuccesses(t)
    \/ AddSuccess(t) \/ Close(t) \/ ZeroFailures(t)
    \/ ZeroSuccesses(t) \/ AddFailure(t) \/ Stamp(t) \/ StoreLast(t) \/ Open(t)
    \/ ResetFailures(t) \/ ResetSuccesses(t)

Call(t) ==
    \/ CheckLoadState(t) \/ SuccessLoadState(t) \/ FailureLoadState(t)
    \/ ResetState(t)

Next == Tick \/ SetBack \/ \E t \in Threads : Call(t) \/ Continue(t)

Spec == Init /\ [][Next]_vars

\* Time passes, the scheduler runs a call to its end, and a caller that was
\* refused asks again (the error is retryable).
Fairness ==
    /\ WF_vars(Tick)
    /\ \A t \in Threads : WF_vars(Continue(t)) /\ SF_vars(CheckLoadState(t))

FairSpec == Spec /\ Fairness

-----------------------------------------------------------------------------
Labels == {"idle", "load_last", "read_clock", "cas", "won", "add_success",
           "close", "zero_failures", "zero_successes", "add_failure",
           "add_probe_failure", "stamp", "store_last", "open",
           "reset_failures", "reset_successes"}

TypeOK ==
    /\ state \in {"Closed", "Open", "HalfOpen"}
    /\ failures \in 0..FailureThreshold
    /\ successes \in 0..SuccessThreshold
    /\ backs \in 0..MaxBacks
    /\ lastAge \in (-backs)..MaxAge
    /\ pc \in [Threads -> [at : Labels, age : (-backs)..MaxAge, trips : BOOLEAN]]

(* However the calls interleave, when none is in progress the state agrees *)
(* with the counters: a closed circuit has fewer failures than would open  *)
(* it and a half-open one fewer successes than would close it, so the      *)
(* breaker cannot be stuck beside a threshold it missed.                   *)
CountersAgreeAtRest ==
    (\A t \in Threads : pc[t] = Idle) =>
        /\ state = "Closed"   => failures < FailureThreshold
        /\ state = "HalfOpen" => successes < SuccessThreshold

(* An open circuit is left sooner or later, even when failures keep being  *)
(* reported: those that find it open do not extend its timeout (the test   *)
(* open_failures_do_not_extend_reset_timeout), and a clock that was set    *)
(* back only makes it wait for the clock to come again.                    *)
OpenIsLeft == state = "Open" ~> state # "Open"
=============================================================================
