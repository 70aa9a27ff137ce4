SPECIFICATION FairSpec
CONSTANTS
  alice = alice
  bob = bob
  carl = carl
  dora = dora
  Global = Global
  Removed = Removed
  Users <- MCUsers
  Groups = {Global}
  Roster <- MCRoster
  Facts <- MCFacts
  Requests = {q1}
  Callers = {c1, c2}
  Sweep = sweep
  Admins = {}
  Hands = {alice}
  Prompt = TRUE
  MaxFaults = 1
INVARIANTS TypeOK NoMajorityNeverForgets AppliedMeansForgotten
PROPERTIES RequestsAreBallots Resolved
