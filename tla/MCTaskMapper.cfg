CONSTANT Sizes <- MCSizes
SPECIFICATION Spec
INVARIANTS MapperInv TablesInverse ContextsAreMine
\* the constructor returns
CHECK_DEADLOCK FALSE
