SPECIFICATION Spec
CONSTANTS
  owner = owner
  member = member
  tenant = tenant
  spelled = spelled
  stranger = stranger
  c1 = c1
  c2 = c2
  Users = {owner, member}
  Owner = owner
  Tenant = tenant
  Respellings = {spelled}
  Strangers = {stranger}
  Clients = {c1}
  NoClient = NoClient
  NoName = NoName
  MaxIds = 3
INVARIANT
  GrantsReachPrincipals
CHECK_DEADLOCK FALSE
