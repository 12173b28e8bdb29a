\* Four scenes about the members of one organization, two requests at once.
SPECIFICATION Spec
CONSTANTS
  o = o
  m = m
  v = v
  manage = manage
  other = other
  User = {o, m, v}
  Invite = {i1, i2}
  Right = {manage, other}
  Standard = {}
  Catalogs <- NewCatalog
  MaxLinks = 1
  Gone = Gone
  Absent = Absent
  Task = {r1, r2}
  Manage = manage
  Inviting = manage
  Scenes <- FourScenes
  Invited = {v}
  Offers <- OneOffer
  MaxResets <- OneReset
  MaxSockets = 1
SYMMETRY Symmetry
INVARIANTS TypeOK SocketsFollowRights
PROPERTIES KeepsRoster
