SPECIFICATION Spec
CONSTANTS
  LastEvent = 11
  TypeOf <- MCTypeOf
  SubjectOf <- MCSubjectOf
  Relays = {"r1", "r2"}
  Scenarios <- RebuiltScenario
CHECK_DEADLOCK FALSE
INVARIANT CountedOnce
