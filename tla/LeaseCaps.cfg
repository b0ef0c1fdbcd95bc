SPECIFICATION Spec
CONSTRAINT OneWithdrawal
CONSTANTS
  s1 = s1  s2 = s2  u1 = u1  r1 = r1  r2 = r2  t1 = t1  t2 = t2
  NoTurn = NoTurn
  Sessions = {s1, s2}
  Users = {u1}
  Replicas = {r1, r2}
  Turns = {t1, t2}
  Shared = {s1}
  SessionOf <- CapSessionOf
  UserOf <- OneUserOf
  ReplicaOf <- TwoReplicaOf
  InitialEditors <- OwnerOnly
  LeaseLen = 2
  PerUser = 1
  PerTenant = 1
  Horizon = 3
  Skew = 1
INVARIANTS LocalAuthority NoUnpermittedHolder CapsHold
CHECK_DEADLOCK FALSE
