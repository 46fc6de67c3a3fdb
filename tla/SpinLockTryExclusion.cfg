SPECIFICATION Spec
CONSTANTS
  Clients = {c1, c2}
  Ops = {"lock", "try_lock"}
INVARIANT TryLockExcludes
