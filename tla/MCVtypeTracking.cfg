SPECIFICATION Spec
INVARIANTS
  DemandsMet
  SilentOnly
