SPECIFICATION Spec
CONSTANTS
  HostPage = {p1, p2}
  Visitor = {v}
  Spelling = {"ann", "Ann", "bob"}
  Normal <- MCNormal
  Password = {x, y}
  HostId = {h1, h2}
  EventId = {e1, e2}
  Code = {c1, c2}
  Request = {r1, r2}
  MaxFaults = 1
  None = None
INVARIANTS TypeOK OneHostPerEmail CredentialsHold CodesLead OwnSession
SYMMETRY Symmetry
