SPECIFICATION FairSpec
CONSTANTS
  u1 = u1
  u2 = u2
  s1 = s1
  s2 = s2
  s3 = s3
  t1 = t1
  Null = Null
  Users = {u1, u2}
  Sessions = {s1, s2, s3}
  Threads = {t1}
  UserOf <- MCUserOf
PROPERTIES ImplementsSessionLife EventuallyRegistered
INVARIANTS NoGhostSession SoleSessionRegistered SteadyUserReceives
