\* Overlapping requests on a node with an interface that comes and goes, or with
\* memory controllers; listings and readings refused.
SPECIFICATION Spec
CONSTANTS
  Nics = {n1}
  Ecc = {e1}
  Nodes = {{n1}, {e1}}
  Requests = {q1, q2}
  Sections = {s1}
  Ttl = 1
  Window = 2
  Faults = {"listing", "reading"}
  MaxTime = 3
  MaxValue = 2
SYMMETRY Symmetry
VIEW View
CONSTRAINT FewPolls
PROPERTIES OnlyRealIncreases RiseReported ForgetsOnlyTheGone
