SPECIFICATION Spec
CONSTANTS
  d1 = d1
  d2 = d2
  c1 = c1
  c2 = c2
  t1 = t1
  t2 = t2
  x1 = x1
  x2 = x2
  Docs = {d1, d2}
  Clients = {c1, c2}
  Titles = {t1, t2}
  Contents = {x1, x2}
  NoDoc = NoDoc
  NoClient = NoClient
  NoTitle = NoTitle
  NoContent = NoContent
  MaxVersions = 3
  MaxUploads = 3
SYMMETRY Symmetry
INVARIANTS
  StoredAsHashed
  JobsFollowVersions
  DuplicatesAgree
PROPERTIES
  ImplementsVersionedDocuments
CHECK_DEADLOCK FALSE
