CONSTANT MaxAttempts = 3
SPECIFICATION Spec
INVARIANTS AtMostOneLateAttempt FailureUsesEveryAttempt SuccessNeedsAnAttempt
PROPERTY Terminates
