-------------------------- MODULE BuildRetryProofs --------------------------
(***************************************************************************)
(* For every number of attempts: a package build starts at most one        *)
(* attempt after its deadline, gives up only when every attempt is used,   *)
(* and reports success only for an attempt that produced a result.         *)
(***************************************************************************)
EXTENDS BuildRetry, TLAPS

\* The initial states satisfy the invariant.
LEMMA InitRetryInv == Init => RetryInv
  BY MaxAttemptsAssumption DEF Init, RetryInv, CountersOK, Control, Errors

\* Every step of the call, and the passing of the deadline, keeps it.
LEMMA NextRetryInv == RetryInv /\ [Next]_vars => RetryInv'
  <1> SUFFICES ASSUME RetryInv, [Next]_vars PROVE RetryInv'
    OBVIOUS
  <1> USE MaxAttemptsAssumption DEF RetryInv, CountersOK, Control, Errors
  <1>1. CASE Expire
    BY <1>1 DEF Expire
  <1>2. CASE AttemptsExhausted
    BY <1>2 DEF AttemptsExhausted, MayRetry
  <1>3. CASE BackoffCheck
    BY <1>3 DEF BackoffCheck, MayRetry, Cancelled
  <1>4. CASE BackoffSleep
    BY <1>4 DEF BackoffSleep, Cancelled
  <1>5. CASE StartAttempt
    BY <1>5 DEF StartAttempt
  <1>6. CASE AgentReturns
    BY <1>6 DEF AgentReturns, AttemptFails
  <1>7. CASE Return
    BY <1>7 DEF Return
  <1>8. CASE UNCHANGED vars
    BY <1>8 DEF vars
  <1> QED
    BY <1>1, <1>2, <1>3, <1>4, <1>5, <1>6, <1>7, <1>8 DEF Next, Step, Finished

\* The flags stay Booleans.
LEMMA FlagsTyped == Spec => []FlagsOK
  <1>1. Init => FlagsOK
    BY DEF Init, FlagsOK
  <1>2. FlagsOK /\ [Next]_vars => FlagsOK'
    BY DEF FlagsOK, Next, Step, Expire, AttemptsExhausted, BackoffCheck,
           Cancelled, BackoffSleep, StartAttempt, AgentReturns, AttemptFails,
           Return, Finished, vars
  <1> QED
    BY <1>1, <1>2, PTL DEF Spec

\* The invariant holds throughout every behaviour of the call.
THEOREM RetryInvariant == Spec => []RetryInv
  BY InitRetryInv, NextRetryInv, PTL DEF Spec

\* After the deadline at most one attempt is started, for any --build-attempts.
THEOREM DeadlineBoundsWork == Spec => []AtMostOneLateAttempt
  <1>1. RetryInv => AtMostOneLateAttempt
    BY DEF RetryInv, AtMostOneLateAttempt
  <1> QED
    BY <1>1, RetryInvariant, PTL

\* A failure that is not the timeout has used every attempt.
THEOREM NoEarlyFailure == Spec => []FailureUsesEveryAttempt
  <1>1. RetryInv => FailureUsesEveryAttempt
    BY DEF RetryInv, FailureUsesEveryAttempt
  <1> QED
    BY <1>1, RetryInvariant, PTL

\* Success is reported only after an attempt, and never after a cancellation.
THEOREM SuccessIsReal == Spec => []SuccessNeedsAnAttempt
  <1>1. RetryInv => SuccessNeedsAnAttempt
    BY DEF RetryInv, SuccessNeedsAnAttempt
  <1> QED
    BY <1>1, RetryInvariant, PTL

\* The counters stay within --build-attempts, and the flags are Booleans.
THEOREM TypeCorrect == Spec => []TypeOK
  <1>1. RetryInv => CountersOK
    BY DEF RetryInv
  <1>2. CountersOK /\ FlagsOK => TypeOK
    BY DEF TypeOK
  <1> QED
    BY <1>1, <1>2, RetryInvariant, FlagsTyped, PTL
=============================================================================
