SPECIFICATION Spec
CONSTANTS
  alice = alice
  bob = bob
  carl = carl
  fam = fam
  w1 = w1
  w2 = w2
  none = none
  photo = photo
  Global = Global
  Removed = Removed
  Users <- MCUsers
  Groups <- MCGroups
  Roster <- MCRoster
  Homes <- MCHomes
  Words = {w1, w2}
  Media = {none, photo}
  MaxClaims = 3
  MaxPromotions = 2
  MaxFaults = 1
  MaxEdits = 2
  MaxDeletions = 0
  Tellings <- MCMixed
  LiveTellings = {}
  Verbs <- MCAll
  Agents = {}
  Deleters = {}
  Alone = {"edit", "deletion"}
  Bag = "full"
INVARIANTS ClosuresStick WishesStick RetiredOntoSomething
PROPERTY SubjectsMoveOnlyWhenAsked
CHECK_DEADLOCK FALSE
