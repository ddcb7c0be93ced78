SPECIFICATION Spec
CONSTANT Objects <- EdAsEd
INVARIANTS MismatchedAlgorithmRejected
