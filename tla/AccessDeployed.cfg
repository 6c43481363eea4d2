SPECIFICATION Spec
CONSTANTS
  Users <- MCUsers
  Tenants = {"t1", "t2"}
  d1 = d1
  d2 = d2
  Docs = {d1, d2}
  Collections = {"c1"}
  TenantOf <- MCTenantOf
  EmailOf <- MCEmailOf
  HashOf <- MCHashOf
  HomeOf <- MCHomeOf
  FirstRole <- MCFirstRole
  Legacy = {d1, d2}
  LegacyTenant = "t1"
  MaxTokens = 2
  MaxEdits = 2
  TTL = 0
  MaxEntries = 1
INVARIANTS AccessInv AnswersWerePermitted OpenMeansRevoked
PROPERTIES SightWidensKnowingly LastAdminLeavesHimself
CHECK_DEADLOCK FALSE
SYMMETRY DocSymmetry
