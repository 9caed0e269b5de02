\* The kubernetes section answers without the node object.
SPECIFICATION Spec
CONSTANTS
  OtherFast = {"hardware"}
  OtherSlow = {"storage"}
  Aggregates = {"hardware"}
  Foldable = {"hardware", "storage"}
  Role = "control-plane"
  Faults = {"labels"}
INVARIANT RoleRight
