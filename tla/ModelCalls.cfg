SPECIFICATION Spec
CONSTANTS
  Calls = {c1, c2, c3}
  Ops = {o1, o2}
  NoOp = NoOp
  Campaign = Campaign
  MaxActive = 1
  Threshold = 2
  Estimate = 1
  Costs = {0, 2}
  Extension = 1
  Allowance <- AllowanceOf
  MaxExtensions = 1
SYMMETRY Symmetry
INVARIANTS SlotsExact NoIdleSlot NormalIsNext LedgerExact AllowanceHolds
