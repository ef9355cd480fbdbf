SPECIFICATION Spec
CONSTANTS
  t = t
  a = a
  n = n
  b1 = b1
  b2 = b2
  NodeIds = {t, a, n}
  Trigger = t
  Approval = a
  BranchIds = {b1, b2}
  NoHandle = NoHandle
  None = None
  Elsewhere <- MCElsewhere
  Menu <- MCMenu
  FreshIds = {n}
  MaxWork = 6
SYMMETRY Symmetry
INVARIANTS EveryVersionRuns SentIsAccepted
PROPERTIES FlowLog EdgesStayFast
