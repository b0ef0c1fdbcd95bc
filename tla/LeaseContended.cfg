SPECIFICATION LiveSpec
CONSTANTS
  s1 = s1  s2 = s2  u1 = u1  r1 = r1  r2 = r2  t1 = t1  t2 = t2
  NoTurn = NoTurn
  Sessions = {s1}
  Users = {u1}
  Replicas = {r1, r2}
  Turns = {t1, t2}
  Shared = {}
  SessionOf <- TwoSessionOf
  UserOf <- OneUserOf
  ReplicaOf <- TwoReplicaOf
  InitialEditors <- OwnerOnly
  LeaseLen = 1
  PerUser = 1
  PerTenant = 2
  Horizon = 2
  Skew = 0
PROPERTIES ImplementsLock AbandonedLeaseEnds FencedTurnFreesSlot
CHECK_DEADLOCK FALSE
