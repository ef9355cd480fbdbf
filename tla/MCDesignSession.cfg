SPECIFICATION Spec
CONSTANTS
  Blank = Blank
  loose = loose
  cramped = cramped
  None = None
  Contents = {Blank, loose, cramped}
  Built <- MCBuilt
  Valid = {Blank, loose, cramped}
  Parsable = {Blank, loose}
  Saves = {s1, s2}
  Typed = {loose}
  Lookups = {l1}
  MaxRestoring = 1
SYMMETRY Symmetry
INVARIANTS LatestOrOrphan PlanFollowsCurrent
PROPERTIES FormLog LeavesNothingUnsaved
