CONSTANTS
  Approvals = {a1}
  Operators = {alice, bob}
  Handlers = {h1, h2}
  Calls <- MCCalls
  BulkApprovalThreshold = 1
  DisclosureRequiresApproval = TRUE
  ShellApprovalTags = {"server"}
  TTL = 1
  MaxTime = 2
  MaxCrashes = 1
  None = None
SPECIFICATION FairSpec
INVARIANTS TypeOK AtMostOneEffect EffectAuthorised
PROPERTIES DecisionStands PendingSettles ImplementsPermit
