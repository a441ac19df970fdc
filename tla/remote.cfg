SPECIFICATION Spec
CONSTANTS
  Clients = {c1, c2}
  Policies <- AllPolicies
  AcceptSizeMax = 3
  MaxVersions = 3
  MaxRemoves = 1
INVARIANTS  FeedIsInLog PulledWhole PushedIsServed
SYMMETRY SameClients
