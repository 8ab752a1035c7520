SPECIFICATION Spec
CONSTANTS
  owner = owner
  member = member
  tenant = tenant
  spelled = spelled
  stranger = stranger
  c1 = c1
  c2 = c2
  Users = {owner, member}
  Owner = owner
  Tenant = tenant
  Respellings = {}
  Strangers = {}
  Clients = {c1, c2}
  NoClient = NoClient
  NoName = NoName
  MaxIds = 3
SYMMETRY Symmetry
INVARIANT
  ListedHavePermission
CHECK_DEADLOCK FALSE
