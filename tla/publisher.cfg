SPECIFICATION Spec
CONSTANTS
  g1 = g1
  g2 = g2
  s1 = s1
  s2 = s2
  u1 = u1
  u2 = u2
  i1 = i1
  i2 = i2
  h1 = h1
  h2 = h2
  h3 = h3
  NULL = NULL
  Unbound = Unbound
  Gone = Gone
  Managers = {g1, g2}
  Segments = {s1, s2}
  Users = {u1, u2}
  Impls = {i1, i2}
  Handles = {h1, h2, h3}
  Owner <- Owners
INVARIANTS PublisherInv UsesOpenSegment
PROPERTY ImplementsAdvertisement
SYMMETRY Symmetry
