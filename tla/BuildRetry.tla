----------------------------- MODULE BuildRetry -----------------------------
(***************************************************************************)
(* One call of buildSRPMFile or testSRPMFile (schedulerutils/              *)
(* buildworker.go): the build agent is called up to `attempts' times       *)
(* through retry.RunWithLinearBackoff (internal/retry/retry.go), under one *)
(* context whose deadline bounds all the attempts together.  The clock is  *)
(* abstracted to one environment action, Expire, that may happen between   *)
(* any two steps; the length of a back-off sleep is abstracted away.       *)
(***************************************************************************)
EXTENDS Naturals

CONSTANT MaxAttempts            \* the largest --build-attempts/--check-attempts

ASSUME MaxAttemptsAssumption == MaxAttempts \in Nat

VARIABLES
    runCheck,      \* FALSE: buildSRPMFile, TRUE: testSRPMFile
    attempts,      \* buildAttempts or checkAttempts
    pc,            \* control point of the call
    failures,      \* loop counter of runWithBackoffInternal
    attemptNumber, \* calls of agent.BuildPackage made so far
    expired,       \* ctx.Done() is closed
    err,           \* the error being returned
    wasCancelled,  \* the back-off was interrupted by the context
    checkFailed,   \* the %check section failed
    late           \* history: attempts started after the deadline

vars == <<runCheck, attempts, pc, failures, attemptNumber, expired, err,
          wasCancelled, checkFailed, late>>

Errors == {"nil", "ErrCommandNotRun", "ErrRetryCancelled", "buildErr",
           "checkErr", "exceededMaximumTime"}

Control == {"check", "sleep", "run", "agent", "returned", "done"}

Init ==
    /\ runCheck \in BOOLEAN
    /\ attempts \in 0..MaxAttempts
    /\ pc = "check"
    /\ failures = 0
    /\ attemptNumber = 0
    /\ expired = FALSE
    /\ err = "ErrCommandNotRun"
    /\ wasCancelled = FALSE
    /\ checkFailed = FALSE
    /\ late = 0

\* The deadline of the context passes.
Expire ==
    /\ ~expired
    /\ pc # "done"
    /\ expired' = TRUE
    /\ UNCHANGED <<runCheck, attempts, pc, failures, attemptNumber, err,
                   wasCancelled, checkFailed, late>>

\* Seeded fault: one attempt too many.
MayRetryOffByOne == failures <= attempts

\* The loop condition of runWithBackoffInternal.
MayRetry == failures < attempts

AttemptsExhausted ==
    /\ pc = "check"
    /\ ~MayRetry
    /\ pc' = "returned"
    /\ UNCHANGED <<runCheck, attempts, failures, attemptNumber, expired, err,
                   wasCancelled, checkFailed, late>>

Cancelled ==
    /\ wasCancelled' = TRUE
    /\ err' = "ErrRetryCancelled"
    /\ pc' = "returned"
    /\ UNCHANGED <<runCheck, attempts, failures, attemptNumber, expired,
                   checkFailed, late>>

\* Seeded fault: the first select of backoffSleep is missing, so that a context
\* that is already done is only noticed when it beats the timer.
BackoffCheckNoPoll ==
    /\ pc = "check"
    /\ MayRetry
    /\ pc' = "sleep"
    /\ UNCHANGED <<runCheck, attempts, failures, attemptNumber, expired,
                   err, wasCancelled, checkFailed, late>>

\* First select of backoffSleep: a context that is done wins at once.
BackoffCheck ==
    /\ pc = "check"
    /\ MayRetry
    /\ \/ /\ expired
          /\ Cancelled
       \/ /\ ~expired
          /\ pc' = "sleep"
          /\ UNCHANGED <<runCheck, attempts, failures, attemptNumber, expired,
                         err, wasCancelled, checkFailed, late>>

\* Seeded fault: the sleep only ends with the context.
BackoffSleepNoTimer ==
    /\ pc = "sleep"
    /\ expired
    /\ Cancelled

\* Second select of backoffSleep: when both the timer and the context are
\* ready, Go picks either.
BackoffSleep ==
    /\ pc = "sleep"
    /\ \/ /\ expired
          /\ Cancelled
       \/ /\ pc' = "run"
          /\ UNCHANGED <<runCheck, attempts, failures, attemptNumber, expired,
                         err, wasCancelled, checkFailed, late>>

\* The retried closure up to and including the call of agent.BuildPackage;
\* only the test closure resets checkFailed.
StartAttempt ==
    /\ pc = "run"
    /\ attemptNumber' = attemptNumber + 1
    /\ checkFailed' = (IF runCheck THEN FALSE ELSE checkFailed)
    /\ late' = IF expired THEN late + 1 ELSE late
    /\ pc' = "agent"
    /\ UNCHANGED <<runCheck, attempts, failures, expired, err, wasCancelled>>

AttemptFails(e) ==
    /\ err' = e
    /\ failures' = failures + 1
    /\ pc' = "check"

\* The agent returns.  A test then reads the log (parseCheckSection): the
\* section passed, failed, or could not be read.
AgentReturns ==
    /\ pc = "agent"
    /\ \/ /\ AttemptFails("buildErr")
          /\ UNCHANGED checkFailed
       \/ /\ runCheck
          /\ AttemptFails("checkErr")
          /\ checkFailed' = TRUE
       \/ /\ err' = "nil"
          /\ pc' = "returned"
          /\ UNCHANGED <<failures, checkFailed>>
    /\ UNCHANGED <<runCheck, attempts, attemptNumber, expired, wasCancelled, late>>

\* Seeded fault: a failed check is looked at before the cancellation.
ReturnCheckFirst ==
    /\ pc = "returned"
    /\ err' = CASE checkFailed -> "nil"
                [] ~checkFailed /\ wasCancelled -> "exceededMaximumTime"
                [] OTHER -> err
    /\ pc' = "done"
    /\ UNCHANGED <<runCheck, attempts, failures, attemptNumber, expired,
                   wasCancelled, checkFailed, late>>

\* What the two callers do with the outcome of RunWithLinearBackoff.
Return ==
    /\ pc = "returned"
    /\ err' = CASE wasCancelled -> "exceededMaximumTime"
                [] ~wasCancelled /\ checkFailed -> "nil"
                [] OTHER -> err
    /\ pc' = "done"
    /\ UNCHANGED <<runCheck, attempts, failures, attemptNumber, expired,
                   wasCancelled, checkFailed, late>>

Finished == pc = "done" /\ UNCHANGED vars

Step == AttemptsExhausted \/ BackoffCheck \/ BackoffSleep \/ StartAttempt
        \/ AgentReturns \/ Return

Next == Expire \/ Step \/ Finished

\* The goroutine runs, and the agent returns: it is given the time left
\* until the deadline as its own limit.
Spec == Init /\ [][Next]_vars /\ WF_vars(Step)
-----------------------------------------------------------------------------
FlagsOK ==
    /\ runCheck \in BOOLEAN
    /\ expired \in BOOLEAN
    /\ wasCancelled \in BOOLEAN
    /\ checkFailed \in BOOLEAN

CountersOK ==
    /\ attempts \in 0..MaxAttempts
    /\ failures \in 0..MaxAttempts
    /\ attemptNumber \in 0..MaxAttempts
    /\ late \in 0..MaxAttempts
    /\ pc \in Control
    /\ err \in Errors

TypeOK == FlagsOK /\ CountersOK

\* The deadline bounds the work, not only the waiting: once it has passed, at
\* most one more attempt is started (the one whose back-off timer won the race
\* in backoffSleep), however many attempts are left.
AtMostOneLateAttempt == late <= 1

\* A build that reports an error other than the timeout has used every attempt
\* it was allowed: no failure is given up early, and none is retried once more.
FailureUsesEveryAttempt ==
    pc = "done" /\ err \notin {"nil", "exceededMaximumTime"} =>
        attemptNumber = attempts

\* Success is never reported without an attempt that got as far as a result,
\* and never once the deadline has cut the attempts short.
SuccessNeedsAnAttempt ==
    pc = "done" /\ err = "nil" => attemptNumber > 0 /\ ~wasCancelled

\* The inductive strengthening of the three invariants above: how many attempts
\* were made at each control point, that a late attempt leaves only the way out
\* through the first select of backoffSleep, and which errors can be pending.
RetryInv ==
    /\ CountersOK
    /\ failures <= attempts
    /\ pc \in {"check", "sleep", "run"} => attemptNumber = failures
    /\ pc \in {"sleep", "run"} => failures < attempts /\ late = 0
    /\ pc = "agent" => attemptNumber = failures + 1 /\ failures < attempts
    /\ late <= 1
    /\ late = 1 => expired
    /\ wasCancelled => pc \in {"returned", "done"}
    /\ pc \in {"check", "sleep", "run"} =>
           err # "nil" /\ (err = "ErrCommandNotRun" \/ attemptNumber > 0)
                      /\ (checkFailed => attemptNumber > 0)
    /\ pc = "returned" /\ ~wasCancelled =>
           /\ err \notin {"nil", "exceededMaximumTime"} => attemptNumber = attempts
           /\ err = "nil" \/ checkFailed => attemptNumber > 0
    /\ pc = "done" =>
           /\ err \notin {"nil", "exceededMaximumTime"} => attemptNumber = attempts
           /\ err = "nil" => attemptNumber > 0 /\ ~wasCancelled

\* The call returns: every package build ends in a result for the scheduler.
Terminates == <>(pc = "done")
=============================================================================
