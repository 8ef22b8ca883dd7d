SPECIFICATION Spec
CONSTANTS
  Agents = {a1, a2}
  None = None
  Jobs <- CallJobs
  MaxId = 3
  MaxJobs = 2
  MayCrash = TRUE
  Tasks0 = 2
  Edges0 <- OneEdge
SYMMETRY Alike
INVARIANT TypeOK
INVARIANT ClaimsUncontested
INVARIANT NoLockLeft
PROPERTY FieldsKept
