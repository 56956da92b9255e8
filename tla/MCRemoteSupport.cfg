SPECIFICATION Spec
CONSTANTS
  Session <- MCSession
  Goroutine = {g1, g2}
  NeedsApproval <- MCNeedsApproval
  Unkillable = {"primary"}
  NoOne = NoOne
SYMMETRY GoroutineSymmetry
INVARIANTS TypeOK Consent ManagerExact HelperExact
PROPERTIES ImplementsProtocol GoroutinesAdvance
