------------------------ MODULE CircuitBreakerProofs ------------------------
(***************************************************************************)
(* Proofs about CircuitBreaker for any number of threads, any thresholds   *)
(* and any timeout, and about CircuitBreakerHistory for one thread.        *)
(***************************************************************************)
EXTENDS CircuitBreakerHistory, TLAPS

(* What a thread keeps of its call.                                        *)
Locals == [at : Labels, age : (-backs)..MaxAge, trips : BOOLEAN]

(* Least is the smaller of its arguments: a counter stops at its threshold.*)
LEMMA LeastBound ==
    ASSUME NEW a \in Int, NEW b \in Int
    PROVE  /\ Least(a, b) \in Int
           /\ Least(a, b) <= a /\ Least(a, b) <= b
           /\ Least(a, b) \in {a, b}
BY DEF Least

(* The ages after the clock was moved by one tick, forth or back.          *)
LEMMA AgeStays ==
    ASSUME NEW n \in 0..MaxBacks, NEW age \in (-n)..MaxAge
    PROVE  /\ Aged(age, 1) \in (-n)..MaxAge
           /\ Aged(age, -1) \in (-(n + 1))..MaxAge
BY ConstantsAssumption DEF Aged, Least, MaxAge

(* A thread that goes to another label keeps well-formed locals.           *)
LEMMA MoveKeepsType ==
    ASSUME NEW t \in Threads, NEW from, NEW to \in Labels, TypeOK, Move(t, from, to), backs' = backs
    PROVE  pc' \in [Threads -> Locals]'
<1>1. Idle \in Locals
  BY ConstantsAssumption DEF Idle, Locals, Labels, MaxAge, TypeOK
<1>2. pc[t] \in Locals
  BY DEF TypeOK, Locals
<1>3. [pc[t] EXCEPT !.at = to] \in Locals
  BY <1>2 DEF Locals
<1>4. pc' \in [Threads -> Locals]
  BY <1>1, <1>3 DEF Move, TypeOK, Locals
<1>5. QED
  BY <1>4 DEF Locals

(* The atomics and the locals of every call keep their types; a counter    *)
(* never passes its threshold and an age stays within what the clock was   *)
(* set back by.                                                            *)
THEOREM TypeCorrect == Spec => []TypeOK
<1> USE ConstantsAssumption
<1>1. Init => TypeOK
  BY DEF Init, TypeOK, Idle, Labels, MaxAge
<1>2. TypeOK /\ [Next]_vars => TypeOK'
  <2> SUFFICES ASSUME TypeOK, [Next]_vars PROVE TypeOK'
    OBVIOUS
  <2>1. CASE Tick
    <3>1. /\ lastAge' = Aged(lastAge, 1)
          /\ UNCHANGED <<state, failures, successes, backs>>
      BY <2>1 DEF Tick, PassTime
    <3>2. pc' \in [Threads -> [at : Labels, age : (-backs)..MaxAge, trips : BOOLEAN]]
      BY <2>1, AgeStays DEF Tick, PassTime, TypeOK
    <3>3. QED
      BY <3>1, <3>2, AgeStays DEF TypeOK
  <2>2. CASE SetBack
    <3>1. /\ lastAge' = Aged(lastAge, -1)
          /\ backs' = backs + 1 /\ backs' \in 0..MaxBacks
          /\ UNCHANGED <<state, failures, successes>>
      BY <2>2 DEF SetBack, PassTime, TypeOK
    <3>2. pc' \in [Threads -> [at : Labels, age : (-(backs + 1))..MaxAge, trips : BOOLEAN]]
      BY <2>2, AgeStays DEF SetBack, PassTime, TypeOK
    <3>3. QED
      BY <3>1, <3>2, AgeStays DEF TypeOK
  <2>3. ASSUME NEW t \in Threads, Call(t) PROVE TypeOK'
    <3>1. \E to \in Labels : Move(t, "idle", to)
      BY <2>3 DEF Call, CheckLoadState, SuccessLoadState, FailureLoadState, ResetState, Labels, TypeOK
    <3>2. /\ UNCHANGED <<failures, successes, lastAge, backs>>
          /\ state' \in {state, "Closed"}
      BY <2>3 DEF Call, CheckLoadState, SuccessLoadState, FailureLoadState, ResetState, breaker
    <3>3. QED
      BY <3>1, <3>2, MoveKeepsType DEF TypeOK, Locals
  <2>4. ASSUME NEW t \in Threads, Continue(t) PROVE TypeOK'
    <3>1. CASE CheckLoadLast(t)
      BY <3>1 DEF CheckLoadLast, TypeOK, breaker, Labels
    <3>2. CASE AddFailure(t)
      BY <3>2, LeastBound DEF AddFailure, TypeOK, Labels, MaxAge, Least
    <3>3. CASE Stamp(t)
      <4>1. pc[t] \in Locals /\ 0 \in (-backs)..MaxAge
        BY DEF TypeOK, Locals, MaxAge
      <4>2. [pc[t] EXCEPT !.at = "store_last", !.age = 0] \in Locals
        BY <4>1 DEF Locals, Labels
      <4>3. pc' \in [Threads -> Locals] /\ UNCHANGED breaker
        BY <3>3, <4>2 DEF Stamp, TypeOK, Locals
      <4>4. QED
        BY <4>3 DEF TypeOK, Locals, breaker
    <3>4. CASE CheckReadClock(t) \/ CheckCas(t) \/ CheckResetSuccesses(t) \/ AddSuccess(t)
               \/ Close(t) \/ ZeroFailures(t) \/ ZeroSuccesses(t) \/ StoreLast(t) \/ Open(t)
               \/ ResetFailures(t) \/ ResetSuccesses(t)
      <4>1. \E from, to \in Labels : Move(t, from, to)
        BY <3>4 DEF CheckReadClock, CheckCas, CheckResetSuccesses, AddSuccess, Close,
                    ZeroFailures, ZeroSuccesses, StoreLast, Open, ResetFailures,
                    ResetSuccesses, Labels
      <4>2. /\ backs' = backs
            /\ state' \in {state, "Closed", "Open", "HalfOpen"}
            /\ failures' \in {failures, 0}
            /\ successes' \in {successes, 0, Least(successes + 1, SuccessThreshold)}
            /\ lastAge' \in {lastAge, pc[t].age}
        BY <3>4 DEF CheckReadClock, CheckCas, CheckResetSuccesses, AddSuccess, Close,
                    ZeroFailures, ZeroSuccesses, StoreLast, Open, ResetFailures,
                    ResetSuccesses, breaker
      <4>3. pc' \in [Threads -> Locals]'
        BY <4>1, <4>2, MoveKeepsType
      <4>4. pc[t].age \in (-backs)..MaxAge
        BY DEF TypeOK
      <4>5. Least(successes + 1, SuccessThreshold) \in 0..SuccessThreshold
        BY DEF Least, TypeOK
      <4>6. QED
        BY <4>2, <4>3, <4>4, <4>5 DEF TypeOK, Locals
    <3>5. QED
      BY <2>4, <3>1, <3>2, <3>3, <3>4 DEF Continue
  <2>5. CASE UNCHANGED vars
    BY <2>5 DEF vars, breaker, TypeOK
  <2>6. QED
    BY <2>1, <2>2, <2>3, <2>4, <2>5 DEF Next
<1>3. QED
  BY <1>1, <1>2, PTL DEF Spec
-----------------------------------------------------------------------------
(* Thread t is about to put a count of failures at the threshold right:    *)
(* it zeroes it, or it opens the circuit.                                  *)
RightsFailures(t) ==
    \/ pc[t].at \in {"zero_failures", "reset_failures"}
    \/ pc[t].at \in {"stamp", "store_last", "open"} /\ pc[t].trips

(* The same for a count of successes while half-open.                      *)
RightsSuccesses(t) == pc[t].at \in {"won", "close"}

(* The strengthening of CountersAgreeAtRest: a counter at its threshold is *)
(* always being dealt with by some call.                                   *)
SomeoneRights ==
    /\ state = "Closed" /\ failures >= FailureThreshold
         => \E t \in Threads : RightsFailures(t)
    /\ state = "HalfOpen" /\ successes >= SuccessThreshold
         => \E t \in Threads : RightsSuccesses(t)

(* What a step of one thread leaves alone of the other threads.            *)
LEMMA OthersStay ==
    ASSUME TypeOK, NEW t \in Threads, Call(t) \/ Continue(t)
    PROVE  \A u \in Threads \ {t} : pc'[u] = pc[u]
BY DEF TypeOK, Call, Continue, Move, CheckLoadState, SuccessLoadState, FailureLoadState,
       ResetState, CheckLoadLast, CheckReadClock, CheckCas, CheckResetSuccesses, AddSuccess,
       Close, ZeroFailures, ZeroSuccesses, AddFailure, Stamp, StoreLast, Open,
       ResetFailures, ResetSuccesses

(* However the calls interleave, and wherever the clock is set, no call    *)
(* leaves the circuit closed at the failures that open it, or half-open at *)
(* the successes that close it.                                            *)
THEOREM CountersAgree == Spec => []CountersAgreeAtRest
<1> USE ConstantsAssumption
<1>1. Init => SomeoneRights
  BY DEF Init, SomeoneRights
<1>2. TypeOK /\ SomeoneRights /\ [Next]_vars => SomeoneRights'
  <2> SUFFICES ASSUME TypeOK, SomeoneRights, [Next]_vars PROVE SomeoneRights'
    OBVIOUS
  <2>1. CASE Tick \/ SetBack
    <3>1. \A t \in Threads : pc'[t].at = pc[t].at /\ pc'[t].trips = pc[t].trips
      BY <2>1 DEF Tick, SetBack, PassTime, TypeOK
    <3>2. UNCHANGED <<state, failures, successes>>
      BY <2>1 DEF Tick, SetBack, PassTime
    <3>3. QED
      BY <3>1, <3>2 DEF SomeoneRights, RightsFailures, RightsSuccesses
  <2>2. ASSUME NEW t \in Threads, Call(t) \/ Continue(t) PROVE SomeoneRights'
    <3>1. \A u \in Threads \ {t} : pc'[u] = pc[u]
      BY <2>2, OthersStay
    <3>2. ASSUME state' = "Closed", failures' >= FailureThreshold
          PROVE  \E u \in Threads : RightsFailures(u)'
      <4>1. CASE AddFailure(t)
        BY <3>2, <4>1 DEF AddFailure, RightsFailures, Least, TypeOK
      <4>2. CASE Close(t) \/ ResetState(t)
        BY <4>2 DEF Close, ResetState, Move, RightsFailures, TypeOK
      <4>3. CASE ~AddFailure(t) /\ ~Close(t) /\ ~ResetState(t)
        <5>1. state = "Closed" /\ failures >= FailureThreshold
          BY <2>2, <3>2, <4>3
             DEF Call, Continue, Move, CheckLoadState, SuccessLoadState, FailureLoadState,
                 CheckLoadLast, CheckReadClock, CheckCas, CheckResetSuccesses, AddSuccess,
                 ZeroFailures, ZeroSuccesses, Stamp, StoreLast, Open, ResetFailures,
                 ResetSuccesses, breaker
        <5>2. PICK u \in Threads : RightsFailures(u)
          BY <5>1 DEF SomeoneRights
        <5>3. CASE u # t
          BY <3>1, <5>2, <5>3 DEF RightsFailures
        <5>4. CASE u = t
          <6>1. Stamp(t) \/ StoreLast(t)
            BY <2>2, <3>2, <4>3, <5>2, <5>4
               DEF RightsFailures, Call, Continue, Move, CheckLoadState, SuccessLoadState,
                   FailureLoadState, CheckLoadLast, CheckReadClock, CheckCas,
                   CheckResetSuccesses, AddSuccess, ZeroFailures, ZeroSuccesses, Open,
                   ResetFailures, ResetSuccesses
          <6>2. pc[t].trips = TRUE
            BY <5>2, <5>4, <6>1 DEF RightsFailures, Stamp, StoreLast, Move, TypeOK
          <6>3. pc'[t].at \in {"store_last", "open"} /\ pc'[t].trips = pc[t].trips
            <7>1. CASE Stamp(t)
              BY <7>1 DEF Stamp, TypeOK
            <7>2. CASE StoreLast(t)
              <8>1. pc' = [pc EXCEPT ![t] = [pc[t] EXCEPT !.at = "open"]]
                BY <6>2, <7>2 DEF StoreLast, Move
              <8>2. QED
                BY <8>1 DEF TypeOK
            <7>3. QED
              BY <6>1, <7>1, <7>2
          <6>4. QED
            BY <6>2, <6>3 DEF RightsFailures
        <5>5. QED
          BY <5>3, <5>4
      <4>4. QED
        BY <4>1, <4>2, <4>3
    <3>3. ASSUME state' = "HalfOpen", successes' >= SuccessThreshold
          PROVE  \E u \in Threads : RightsSuccesses(u)'
      <4>1. CASE AddSuccess(t)
        BY <3>3, <4>1 DEF AddSuccess, Move, RightsSuccesses, Least, TypeOK
      <4>2. CASE CheckCas(t) /\ state = "Open"
        BY <4>2 DEF CheckCas, Move, RightsSuccesses, TypeOK
      <4>3. CASE ~AddSuccess(t) /\ ~(CheckCas(t) /\ state = "Open")
        <5>1. state = "HalfOpen" /\ successes >= SuccessThreshold
          BY <2>2, <3>3, <4>3
             DEF Call, Continue, Move, CheckLoadState, SuccessLoadState, FailureLoadState,
                 ResetState, CheckLoadLast, CheckReadClock, CheckCas, CheckResetSuccesses,
                 AddFailure, Close, ZeroFailures, ZeroSuccesses, Stamp, StoreLast, Open,
                 ResetFailures, ResetSuccesses, breaker
        <5>2. PICK u \in Threads : RightsSuccesses(u)
          BY <5>1 DEF SomeoneRights
        <5>3. u # t
          BY <2>2, <3>3, <5>2
             DEF RightsSuccesses, Call, Continue, Move, CheckLoadState, SuccessLoadState,
                 FailureLoadState, ResetState, CheckLoadLast, CheckReadClock, CheckCas,
                 CheckResetSuccesses, AddSuccess, AddFailure, Close, ZeroFailures,
                 ZeroSuccesses, Stamp, StoreLast, Open, ResetFailures, ResetSuccesses
        <5>4. QED
          BY <3>1, <5>2, <5>3 DEF RightsSuccesses
      <4>4. QED
        BY <4>1, <4>2, <4>3
    <3>4. QED
      BY <3>2, <3>3 DEF SomeoneRights
  <2>3. CASE UNCHANGED vars
    BY <2>3 DEF vars, breaker, SomeoneRights, RightsFailures, RightsSuccesses
  <2>4. QED
    BY <2>1, <2>2, <2>3 DEF Next
<1>3. TypeOK /\ SomeoneRights => CountersAgreeAtRest
  BY DEF TypeOK, SomeoneRights, CountersAgreeAtRest, RightsFailures, RightsSuccesses, Idle
<1>4. QED
  BY <1>1, <1>2, <1>3, TypeCorrect, PTL DEF Spec
-----------------------------------------------------------------------------
(* The history is only watched: every behaviour of HSpec is one of Spec.   *)
LEMMA HistoryOnlyWatches == HSpec => Spec
<1>1. HInit => Init
  BY DEF HInit
<1>2. [HNext]_hvars => [Next]_vars
  BY DEF HNext, hvars
<1>3. QED
  BY <1>1, <1>2, PTL DEF HSpec, Spec

(* The atomics are as they were when the call began.                       *)
Untouched ==
    /\ state = rest.state /\ failures = rest.failures
    /\ successes = rest.successes /\ lastAge = rest.age

(* What a call that recorded a failure has decided.                        *)
Failed(c) ==
    /\ failures = Least(rest.failures + 1, FailureThreshold)
    /\ state = rest.state
    /\ \/ /\ rest.state = "Closed" /\ successes = rest.successes
          /\ pc[c].trips = (rest.failures + 1 >= FailureThreshold)
       \/ /\ rest.state = "HalfOpen" /\ successes = 0
          /\ pc[c].trips = TRUE

(* How far the one caller's call has come from rest, at each of its labels.*)
Underway(c) ==
    /\ pc[c].at = "idle" => pc[c] = Idle /\ Untouched
    /\ pc[c].at = "load_last" => Untouched /\ state = "Open"
    /\ pc[c].at = "read_clock" => Untouched /\ state = "Open" /\ pc[c].age = lastAge
    /\ pc[c].at = "cas" => Untouched /\ state = "Open" /\ lastAge >= ResetTimeout
    /\ pc[c].at = "won" =>
          /\ rest.state = "Open" /\ rest.age >= ResetTimeout /\ state = "HalfOpen"
          /\ failures = rest.failures /\ lastAge = rest.age
    /\ pc[c].at \in {"add_success", "zero_successes"} => Untouched /\ state = "HalfOpen"
    /\ pc[c].at = "close" =>
          /\ rest.state = "HalfOpen" /\ successes = rest.successes + 1
          /\ successes >= SuccessThreshold /\ lastAge = rest.age
    /\ pc[c].at = "zero_failures" =>
          /\ state = "Closed" /\ lastAge = rest.age
          /\ \/ rest.state = "Closed" /\ successes = rest.successes
             \/ /\ rest.state = "HalfOpen" /\ successes = rest.successes + 1
                /\ successes >= SuccessThreshold
    /\ pc[c].at = "add_failure" => Untouched /\ state = "Closed"
    /\ pc[c].at = "add_probe_failure" =>
          /\ state = "HalfOpen" /\ rest.state = "HalfOpen" /\ successes = 0
          /\ failures = rest.failures /\ lastAge = rest.age
    /\ pc[c].at = "stamp" => Failed(c) /\ lastAge = rest.age
    /\ pc[c].at = "store_last" => Failed(c) /\ pc[c].age = 0
    /\ pc[c].at = "open" => Failed(c) /\ pc[c].trips = TRUE /\ lastAge = 0
    /\ pc[c].at = "reset_failures" => state = "Closed" /\ lastAge = rest.age
    /\ pc[c].at = "reset_successes" =>
          state = "Closed" /\ failures = 0 /\ lastAge = rest.age

(* The atomics at rest: well-formed, and half-open only below the          *)
(* successes that close the circuit.                                       *)
RestOK ==
    /\ rest \in [state : {"Closed", "Open", "HalfOpen"}, failures : 0..FailureThreshold,
                 successes : 0..SuccessThreshold, age : Int]
    /\ rest.state = "HalfOpen" => rest.successes < SuccessThreshold

(* A breaker with one caller, whose calls are shorter than a tick, is      *)
(* AtomicBreaker: check, record_success, record_failure and reset          *)
(* (circuit_breaker.rs:114-216) take effect as wholes, when they return.   *)
THEOREM OneCallerSeesWholeCalls ==
    ASSUME NEW c, Threads = {c}, InstantCalls = TRUE
    PROVE  HSpec => ImplementsDocumented
<1> USE ConstantsAssumption
<1> DEFINE Safe == TypeOK /\ CountersAgreeAtRest
           IInv == RestOK /\ Underway(c)
<1>1. HInit => IInv /\ Documented!Init
  BY DEF HInit, Init, RestOK, Underway, Untouched, Atomics, Idle, MaxAge,
         Documented!Init, Documented!MaxAge
<1>2. Safe /\ Safe' /\ IInv /\ [HNext]_hvars => IInv' /\ [Documented!Next]_(Documented!vars)
  <2> SUFFICES ASSUME Safe, Safe', IInv, [HNext]_hvars
               PROVE  IInv' /\ [Documented!Next]_(Documented!vars)
    OBVIOUS
  <2>1. CASE UNCHANGED hvars
    <3>1. UNCHANGED <<state, failures, successes, lastAge, pc, rest>>
      BY <2>1 DEF hvars, vars, breaker
    <3>2. QED
      BY <3>1 DEF RestOK, Underway, Untouched, Failed, Documented!vars
  <2>2. CASE HNext
    <3> DEFINE Stays == rest' = rest /\ Underway(c)'
               Returns == pc'[c] = Idle /\ [Documented!Next]_(Documented!vars)
    <3>1. /\ pc'[c] = Idle => rest' = Atomics'
          /\ pc'[c].at # "idle" => rest' = rest
      BY <2>2 DEF HNext, AtRest, Idle
    <3>2. RestOK'
      <4>1. CASE rest' = Atomics' /\ pc'[c] = Idle
        BY <4>1 DEF RestOK, Atomics, TypeOK, CountersAgreeAtRest
      <4>2. CASE rest' = rest
        BY <4>2 DEF RestOK
      <4>3. QED
        BY <2>2, <4>1, <4>2 DEF HNext, AtRest
    <3>3. ASSUME Stays PROVE IInv' /\ [Documented!Next]_(Documented!vars)
      BY <3>2, <3>3 DEF Documented!vars
    <3>4. ASSUME Returns PROVE IInv' /\ [Documented!Next]_(Documented!vars)
      BY <3>1, <3>2, <3>4 DEF Underway, Untouched, Atomics, Idle
    <3>5. /\ pc[c] \in Locals
          /\ pc[c].at \in Labels
          /\ state \in {"Closed", "Open", "HalfOpen"} /\ failures \in 0..FailureThreshold
          /\ successes \in 0..SuccessThreshold /\ lastAge \in Int /\ lastAge <= MaxAge
      BY DEF TypeOK, Locals, MaxAge
    <3>6. CASE Tick \/ SetBack
      <4>1. pc[c] = Idle /\ pc'[c] = Idle
        BY <3>6 DEF Tick, SetBack, PassTime, Idle
      <4>2. /\ rest.state = state /\ rest.failures = failures
            /\ rest.successes = successes /\ rest.age = lastAge
        BY <4>1 DEF Underway, Untouched, Idle
      <4>3. /\ rest'.state = state /\ rest'.failures = failures
            /\ rest'.successes = successes /\ rest'.age = lastAge'
        BY <3>1, <3>6, <4>1 DEF Tick, SetBack, PassTime, Atomics
      <4>4. lastAge' = Least(lastAge + 1, MaxAge) \/ lastAge' = lastAge - 1
        BY <3>5, <3>6 DEF Tick, SetBack, PassTime, Aged, Least, MaxAge
      <4>5. Documented!Tick \/ Documented!SetBack
        BY <4>2, <4>3, <4>4 DEF Documented!Tick, Documented!SetBack, Documented!Least, Least,
                                Documented!MaxAge, MaxAge
      <4>6. QED
        BY <3>4, <4>1, <4>5 DEF Documented!Next
    <3>7. ASSUME pc'[c] = Idle
          PROVE  /\ rest'.state = state' /\ rest'.failures = failures'
                 /\ rest'.successes = successes' /\ rest'.age = lastAge'
      BY <3>1, <3>7 DEF Atomics
    <3>8. RestOK /\ Underway(c) /\ pc \in [Threads -> Locals]
      BY DEF TypeOK, Locals
    <3>9. ASSUME NEW from, NEW to \in Labels, Move(c, from, to)
          PROVE  /\ pc[c].at = from
                 /\ to = "idle" => pc'[c] = Idle
                 /\ to # "idle" => /\ pc'[c].at = to /\ pc'[c].age = pc[c].age
                                  /\ pc'[c].trips = pc[c].trips
      BY <3>5, <3>8, <3>9 DEF Move, Locals
    <3> HIDE DEF Stays, Returns
    <3>10. CASE Call(c)
      <4>1. pc[c].at = "idle" /\ Untouched
        BY <3>8, <3>10 DEF Call, CheckLoadState, SuccessLoadState, FailureLoadState,
                           ResetState, Move, Underway
      <4>2. ASSUME Move(c, "idle", "idle"), UNCHANGED breaker PROVE Returns
        BY <3>7, <3>9, <4>1, <4>2 DEF Untouched, Documented!vars, breaker, Labels, Returns
      <4>3. CASE CheckLoadState(c)
        <5>1. CASE state = "Open"
          <6>1. Move(c, "idle", "load_last")
            BY <4>3, <5>1 DEF CheckLoadState
          <6>2. pc'[c].at = "load_last"
            BY <3>9, <6>1 DEF Labels
          <6>3. Stays
            BY <3>1, <4>1, <4>3, <5>1, <6>2
               DEF CheckLoadState, Underway, Untouched, breaker, Stays
          <6>4. QED
            BY <3>3, <6>3
        <5>2. CASE state # "Open"
          BY <3>4, <4>2, <4>3, <5>2 DEF CheckLoadState
        <5>3. QED
          BY <5>1, <5>2
      <4>4. CASE SuccessLoadState(c)
        <5>1. CASE state = "Closed"
          <6>1. Move(c, "idle", "zero_failures")
            BY <4>4, <5>1 DEF SuccessLoadState
          <6>2. pc'[c].at = "zero_failures"
            BY <3>9, <6>1 DEF Labels
          <6>3. Stays
            BY <3>1, <4>1, <4>4, <5>1, <6>2
               DEF SuccessLoadState, Underway, Untouched, breaker, Stays
          <6>4. QED
            BY <3>3, <6>3
        <5>2. CASE state = "HalfOpen"
          <6>1. Move(c, "idle", "add_success")
            BY <4>4, <5>2 DEF SuccessLoadState
          <6>2. pc'[c].at = "add_success"
            BY <3>9, <6>1 DEF Labels
          <6>3. Stays
            BY <3>1, <4>1, <4>4, <5>2, <6>2
               DEF SuccessLoadState, Underway, Untouched, breaker, Stays
          <6>4. QED
            BY <3>3, <6>3
        <5>3. CASE state = "Open"
          BY <3>4, <4>2, <4>4, <5>3 DEF SuccessLoadState
        <5>4. QED
          BY <3>5, <5>1, <5>2, <5>3
      <4>5. CASE FailureLoadState(c)
        <5>1. CASE state = "Closed"
          <6>1. Move(c, "idle", "add_failure")
            BY <4>5, <5>1 DEF FailureLoadState
          <6>2. pc'[c].at = "add_failure"
            BY <3>9, <6>1 DEF Labels
          <6>3. Stays
            BY <3>1, <4>1, <4>5, <5>1, <6>2
               DEF FailureLoadState, Underway, Untouched, breaker, Stays
          <6>4. QED
            BY <3>3, <6>3
        <5>2. CASE state = "HalfOpen"
          <6>1. Move(c, "idle", "zero_successes")
            BY <4>5, <5>2 DEF FailureLoadState
          <6>2. pc'[c].at = "zero_successes"
            BY <3>9, <6>1 DEF Labels
          <6>3. Stays
            BY <3>1, <4>1, <4>5, <5>2, <6>2
               DEF FailureLoadState, Underway, Untouched, breaker, Stays
          <6>4. QED
            BY <3>3, <6>3
        <5>3. CASE state = "Open"
          BY <3>4, <4>2, <4>5, <5>3 DEF FailureLoadState
        <5>4. QED
          BY <3>5, <5>1, <5>2, <5>3
      <4>6. CASE ResetState(c)
        <5>1. pc'[c].at = "reset_failures"
          BY <3>9, <4>6 DEF ResetState, Labels
        <5>2. Stays
          BY <3>1, <4>1, <4>6, <5>1 DEF ResetState, Underway, Untouched, Stays
        <5>3. QED
          BY <3>3, <5>2
      <4>7. QED
        BY <3>10, <4>3, <4>4, <4>5, <4>6 DEF Call
    <3>11. CASE Continue(c)
      <4>1. CASE CheckLoadLast(c)
        <5>1. pc[c].at = "load_last" /\ pc'[c].at = "read_clock" /\ pc'[c].age = lastAge
          BY <3>5, <3>8, <3>9, <4>1 DEF CheckLoadLast, Labels, Locals
        <5>2. Stays
          BY <3>1, <3>5, <3>8, <4>1, <5>1
             DEF CheckLoadLast, Underway, Untouched, breaker, Stays
        <5>3. QED
          BY <3>3, <5>2
      <4>2. CASE CheckReadClock(c)
        <5>1. pc[c].at = "read_clock" /\ Untouched /\ state = "Open" /\ pc[c].age = lastAge
          BY <3>8, <4>2 DEF CheckReadClock, Underway
        <5>2. CASE Elapsed(pc[c].age) >= ResetTimeout
          <6>1. pc'[c].at = "cas"
            BY <3>9, <4>2, <5>2 DEF CheckReadClock, Labels
          <6>2. lastAge >= ResetTimeout
            BY <3>5, <5>1, <5>2 DEF Elapsed
          <6>3. Stays
            BY <3>1, <4>2, <5>1, <6>1, <6>2
               DEF CheckReadClock, Underway, Untouched, breaker, Stays
          <6>4. QED
            BY <3>3, <6>3
        <5>3. CASE ~(Elapsed(pc[c].age) >= ResetTimeout)
          <6>1. pc'[c] = Idle
            BY <3>9, <4>2, <5>3 DEF CheckReadClock, Labels
          <6>2. UNCHANGED Documented!vars
            BY <3>7, <4>2, <5>1, <6>1
               DEF CheckReadClock, Untouched, Documented!vars, breaker
          <6>3. QED
            BY <3>4, <6>1, <6>2 DEF Returns
        <5>4. QED
          BY <5>2, <5>3
      <4>3. CASE CheckCas(c)
        <5>1. pc[c].at = "cas" /\ Untouched /\ state = "Open" /\ lastAge >= ResetTimeout
          BY <3>8, <4>3 DEF CheckCas, Move, Underway
        <5>2. pc'[c].at = "won"
          BY <3>9, <4>3, <5>1 DEF CheckCas, Labels
        <5>3. Stays
          BY <3>1, <4>3, <5>1, <5>2 DEF CheckCas, Underway, Untouched, Stays
        <5>4. QED
          BY <3>3, <5>3
      <4>4. CASE CheckResetSuccesses(c)
        <5>1. pc[c].at = "won" /\ pc'[c] = Idle
          BY <3>9, <4>4 DEF CheckResetSuccesses, Labels
        <5>2. Documented!Probe
          BY <3>5, <3>7, <3>8, <4>4, <5>1
             DEF CheckResetSuccesses, Underway, Untouched, RestOK, Documented!Probe
        <5>3. QED
          BY <3>4, <5>1, <5>2 DEF Returns, Documented!Next
      <4>5. CASE AddSuccess(c)
        <5>1. pc[c].at = "add_success" /\ Untouched /\ state = "HalfOpen"
          BY <3>8, <4>5 DEF AddSuccess, Move, Underway
        <5>2. successes < SuccessThreshold /\ successes' = successes + 1
          BY <3>5, <3>8, <4>5, <5>1 DEF AddSuccess, Untouched, RestOK, Least
        <5>3. CASE successes + 1 >= SuccessThreshold
          <6>1. pc'[c].at = "close"
            BY <3>9, <4>5, <5>3 DEF AddSuccess, Labels
          <6>2. Stays
            BY <3>1, <4>5, <5>1, <5>2, <5>3, <6>1
               DEF AddSuccess, Underway, Untouched, Stays
          <6>3. QED
            BY <3>3, <6>2
        <5>4. CASE ~(successes + 1 >= SuccessThreshold)
          <6>1. pc'[c] = Idle
            BY <3>9, <4>5, <5>4 DEF AddSuccess, Labels
          <6>2. Documented!Success
            BY <3>5, <3>7, <4>5, <5>1, <5>2, <5>4, <6>1
               DEF AddSuccess, Untouched, Documented!Success
          <6>3. QED
            BY <3>4, <6>1, <6>2 DEF Returns, Documented!Next
        <5>5. QED
          BY <5>3, <5>4
      <4>6. CASE Close(c)
        <5>1. pc[c].at = "close" /\ pc'[c].at = "zero_failures"
          BY <3>5, <3>8, <3>9, <4>6 DEF Close, Labels, Locals
        <5>2. Stays
          BY <3>1, <3>5, <3>8, <4>6, <5>1
             DEF Close, Underway, Untouched, breaker, Stays
        <5>3. QED
          BY <3>3, <5>2
      <4>7. CASE ZeroFailures(c)
        <5>1. pc[c].at = "zero_failures" /\ pc'[c] = Idle
          BY <3>9, <4>7 DEF ZeroFailures, Labels
        <5>2. Documented!Success
          BY <3>5, <3>7, <3>8, <4>7, <5>1
             DEF ZeroFailures, Underway, Untouched, RestOK, Documented!Success
        <5>3. QED
          BY <3>4, <5>1, <5>2 DEF Returns, Documented!Next
      <4>8. CASE ZeroSuccesses(c)
        <5>1. pc[c].at = "zero_successes" /\ pc'[c].at = "add_probe_failure"
          BY <3>5, <3>8, <3>9, <4>8 DEF ZeroSuccesses, Labels, Locals
        <5>2. Stays
          BY <3>1, <3>5, <3>8, <4>8, <5>1
             DEF ZeroSuccesses, Underway, Untouched, breaker, Stays
        <5>3. QED
          BY <3>3, <5>2
      <4>9. CASE AddFailure(c)
        <5>1. /\ pc'[c].at = "stamp"
              /\ pc'[c].trips = (pc[c].at = "add_probe_failure" \/ failures + 1 >= FailureThreshold)
          BY <3>8, <4>9 DEF AddFailure
        <5>2. failures' = Least(rest.failures + 1, FailureThreshold) /\ lastAge' = rest.age
          BY <3>8, <4>9 DEF AddFailure, Underway, Untouched
        <5>3. Failed(c)'
          <6>1. CASE pc[c].at = "add_failure"
            <7>1. /\ rest' = rest /\ state' = "Closed" /\ rest.state = "Closed"
                  /\ successes' = rest.successes /\ failures = rest.failures
              BY <3>1, <3>8, <4>9, <5>1, <6>1 DEF AddFailure, Underway, Untouched
            <7>2. pc'[c].trips = (failures + 1 >= FailureThreshold)
              BY <5>1, <6>1
            <7>3. QED
              BY <5>2, <7>1, <7>2 DEF Failed
          <6>2. CASE pc[c].at = "add_probe_failure"
            BY <3>1, <3>8, <4>9, <5>1, <5>2, <6>2 DEF AddFailure, Underway, Failed
          <6>3. QED
            BY <4>9, <6>1, <6>2 DEF AddFailure
        <5>4. Stays
          BY <3>1, <5>1, <5>2, <5>3 DEF Underway, Stays
        <5>5. QED
          BY <3>3, <5>4
      <4>10. CASE Stamp(c)
        <5>1. /\ pc[c].at = "stamp" /\ pc'[c].at = "store_last"
              /\ pc'[c].age = 0 /\ pc'[c].trips = pc[c].trips
          BY <3>5, <3>8, <4>10 DEF Stamp, Locals
        <5>2. Failed(c)'
          BY <3>1, <3>8, <4>10, <5>1 DEF Stamp, Underway, Failed, breaker
        <5>3. Stays
          BY <3>1, <5>1, <5>2 DEF Underway, Stays
        <5>4. QED
          BY <3>3, <5>3
      <4>11. CASE StoreLast(c)
        <5>1. pc[c].at = "store_last" /\ Failed(c) /\ pc[c].age = 0
          BY <3>8, <4>11 DEF StoreLast, Move, Underway
        <5>2. lastAge' = 0 /\ UNCHANGED <<state, failures, successes>>
          BY <4>11, <5>1 DEF StoreLast
        <5>3. CASE pc[c].trips = TRUE
          <6>1. Move(c, "store_last", "open")
            BY <4>11, <5>3 DEF StoreLast
          <6>2. pc'[c].at = "open" /\ pc'[c].trips = pc[c].trips
            BY <3>9, <6>1 DEF Labels
          <6>3. Failed(c)' /\ pc'[c].trips = TRUE
            BY <3>1, <5>1, <5>2, <5>3, <6>2 DEF Failed
          <6>4. Stays
            BY <3>1, <5>2, <6>2, <6>3 DEF Underway, Stays
          <6>5. QED
            BY <3>3, <6>4
        <5>4. CASE pc[c].trips = FALSE
          <6>1. Move(c, "store_last", "idle")
            BY <4>11, <5>4 DEF StoreLast
          <6>2. pc'[c] = Idle
            BY <3>9, <6>1 DEF Labels
          <6>3. Documented!Failure
            BY <3>7, <5>1, <5>2, <5>4, <6>2
               DEF Failed, Documented!Failure, Documented!Least, Least
          <6>4. QED
            BY <3>4, <6>2, <6>3 DEF Returns, Documented!Next
        <5>5. pc[c].trips \in BOOLEAN
          BY <3>5 DEF Locals
        <5>6. QED
          BY <5>3, <5>4, <5>5
      <4>12. CASE Open(c)
        <5>1. Failed(c) /\ pc[c].trips = TRUE /\ lastAge = 0
          BY <3>8, <4>12 DEF Open, Move, Underway
        <5>2. pc'[c] = Idle
          BY <3>9, <4>12 DEF Open, Labels
        <5>3. Documented!Failure
          BY <3>7, <4>12, <5>1, <5>2
             DEF Open, Failed, Documented!Failure, Documented!Least, Least
        <5>4. QED
          BY <3>4, <5>2, <5>3 DEF Returns, Documented!Next
      <4>13. CASE ResetFailures(c)
        <5>1. pc[c].at = "reset_failures" /\ pc'[c].at = "reset_successes"
          BY <3>5, <3>8, <3>9, <4>13 DEF ResetFailures, Labels, Locals
        <5>2. Stays
          BY <3>1, <3>5, <3>8, <4>13, <5>1
             DEF ResetFailures, Underway, Untouched, breaker, Stays
        <5>3. QED
          BY <3>3, <5>2
      <4>14. CASE ResetSuccesses(c)
        <5>1. pc[c].at = "reset_successes" /\ pc'[c] = Idle
          BY <3>9, <4>14 DEF ResetSuccesses, Labels
        <5>2. Documented!Reset
          BY <3>5, <3>7, <3>8, <4>14, <5>1
             DEF ResetSuccesses, Underway, Untouched, RestOK, Documented!Reset
        <5>3. QED
          BY <3>4, <5>1, <5>2 DEF Returns, Documented!Next
      <4>15. QED
        BY <3>11, <4>1, <4>2, <4>3, <4>4, <4>5, <4>6, <4>7, <4>8, <4>9, <4>10, <4>11, <4>12, <4>13, <4>14
           DEF Continue
    <3>12. QED
      BY <2>2, <3>6, <3>10, <3>11 DEF HNext, Next
  <2>3. QED
    BY <2>1, <2>2
<1>3. QED
  BY <1>1, <1>2, HistoryOnlyWatches, TypeCorrect, CountersAgree, PTL
     DEF HSpec, ImplementsDocumented, Documented!Spec
=============================================================================
