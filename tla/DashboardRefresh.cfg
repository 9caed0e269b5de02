\* Failures, render errors, clicks and toggles in every order.
SPECIFICATION FairSpec
CONSTANTS
  OtherFast = {"hardware"}
  OtherSlow = {}
  Aggregates = {"hardware"}
  Foldable = {"hardware", "kubernetes"}
  Role = "control-plane"
  Faults = {}
INVARIANTS StaleFlagged TogglesKept RoleRight
PROPERTY RefreshGoesOn
