SPECIFICATION Spec
CONSTANT Ctx = {syn, reg}
CHECK_DEADLOCK FALSE
INVARIANT BasesRegistered
INVARIANT DeclaredAsHeld
INVARIANT DeclaredConstructible
INVARIANT DeclaredAnswered
INVARIANT OnlyInsertOnlyInherits
PROPERTY LookupsStay
