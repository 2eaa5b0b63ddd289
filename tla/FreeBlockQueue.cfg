SPECIFICATION Spec
CONSTANT NumBlocks = 4
INVARIANTS TypeOK FreeListOK InternalErrorsUnreachable
PROPERTIES IterYieldsFree ImplementsFreeQueue
VIEW StateView
