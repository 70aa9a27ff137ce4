SPECIFICATION Spec
CONSTANTS
  alice = alice
  bob = bob
  carl = carl
  fam = fam
  w1 = w1
  w2 = w2
  none = none
  photo = photo
  Global = Global
  Removed = Removed
  Users <- MCUsers
  Groups <- MCGroups
  Roster <- MCRoster
  Homes <- MCHomes
  Words = {w1, w2}
  Media = {none, photo}
  MaxClaims = 1
  MaxPromotions = 2
  MaxFaults = 0
  MaxEdits = 0
  MaxDeletions = 1
  Tellings <- MCOne
  LiveTellings = {}
  Verbs = {}
  Agents = {}
  Deleters = {bob}
  Alone = {}
  Bag = "full"
INVARIANTS NothingLost
CHECK_DEADLOCK FALSE
