SPECIFICATION FairSpec
CONSTANTS
  u1 = u1
  u2 = u2
  i1 = i1
  i2 = i2
  h1 = h1
  h2 = h2
  h3 = h3
  NULL = NULL
  Callback = Callback
  Users = {u1, u2}
  Impls = {i1, i2}
  Handles = {h1, h2, h3}
  Owner <- Owners
INVARIANTS SubscriberInv NothingUsesTheDead NeverAlreadyRunning
PROPERTIES Released ShutdownEnds ImplementsSubscription
CHECK_DEADLOCK FALSE
