SPECIFICATION Spec
CONSTANTS
  Agents = {a1, a2}
  None = None
  Jobs <- IdJobs
  MaxId = 4
  MaxJobs = 3
  MayCrash = TRUE
  Tasks0 = 1
  Edges0 <- NoEdge
SYMMETRY Alike
INVARIANT IdsUnique
