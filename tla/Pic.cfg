CONSTANT Tasks <- AllTasks
SPECIFICATION Spec
INVARIANTS InterruptsExact
PROPERTIES InTurn Served
