CONSTANT Calls <- MCOverwrite
SPECIFICATION Spec
INVARIANT ResultRight
