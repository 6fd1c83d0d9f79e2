SPECIFICATION Spec
CONSTANTS
  NULL = NULL
  Files = {f1, f2, f3}
  Requests = {r1, r2}
  MaxFaults = 1
  MaxUpload = 2
  MaxCertificates = 1
  Items = {g1}
  Infos = {w1, w2}
SYMMETRY UploadSymmetry
INVARIANT LinksResolve
INVARIANT ListIsExact
INVARIANT ProfileResolves
INVARIANT OneDescription
CHECK_DEADLOCK FALSE
