CONSTANT Calls <- MCTwoLds
SPECIFICATION Spec
INVARIANT ResultHolds
