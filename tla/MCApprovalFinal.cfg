CONSTANTS
  Approvals = {a1}
  Operators = {alice, bob}
  Handlers = {h1, h2}
  Calls <- MCCalls
  BulkApprovalThreshold = 1
  DisclosureRequiresApproval = TRUE
  ShellApprovalTags = {"server"}
  TTL = 1
  MaxTime = 2
  MaxCrashes = 0
  None = None
SPECIFICATION Spec
PROPERTY DecidedIsFinal
