SPECIFICATION FairSpec
CONSTANTS
  u1 = u1
  u2 = u2
  u3 = u3
  o1 = o1
  o2 = o2
  Io = Io
  NULL = NULL
  Users = {u1, u2, u3}
  Objects = {o1, o2}
  MaxAdds = 2
INVARIANT PoolInv
PROPERTIES ReleasedByPool Released
