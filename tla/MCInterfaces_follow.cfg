SPECIFICATION Spec
CONSTANTS
  eth0 = eth0
  eth1 = eth1
  Order <- MCOrder
  LinkLocals = {l1}
  Ipv4s = {v1}
  None = None
  Soon = 1
  Late = 2
  MaxIndex = 3
  MaxEvents = 4
INVARIANTS
  UpIsCurrent
  FiltersFollow
PROPERTIES
  Recovers
