\* Two products in one variant, one request of each kind at a time.
CONSTANTS
  s1 = s1  s2 = s2  v1 = v1  u1 = u1  q1 = q1  q2 = q2
  Ids = {1, 2, 3}
  Slugs = {s1, s2}
  Variants = {v1}
  Users = {u1}
  Requests = {q1, q2}
  PageLimit = 1
  MaxTime = 1
  SkuCode <- MCSkuCode
SPECIFICATION CatalogueSpec
SYMMETRY Symmetry
INVARIANT PagesGoDown NothingMissed
