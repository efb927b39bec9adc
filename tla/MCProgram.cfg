\* One delivery held, one offered, one being handled.
CONSTANT Prefetch = 2
SPECIFICATION ProgramSpec
INVARIANTS ProgramTypeOK ClosedAfterUse
PROPERTIES  Serves
