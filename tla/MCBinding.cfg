\* Main's kernel, and two more objects or another kernel.
SPECIFICATION Spec
CONSTANT MaxObjects = 4
CONSTANT MaxData = 3
INVARIANT TypesAgree
INVARIANT DestroyedByOwner
INVARIANT UsesAccounted
CHECK_DEADLOCK FALSE
