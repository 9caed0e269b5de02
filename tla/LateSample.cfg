\* Two overlapping requests and one caller from another router; sysfs answers.
SPECIFICATION Spec
CONSTANTS
  Nics = {n1}
  Ecc = {e1}
  Nodes = {{n1}}
  Requests = {q1, q2}
  Sections = {s1}
  Ttl = 1
  Window = 2
  Faults = {}
  MaxTime = 3
  MaxValue = 2
SYMMETRY Symmetry
VIEW View
CONSTRAINT FewPolls
PROPERTY DropsAreResets
