SPECIFICATION Spec
CONSTANTS
  alice = alice
  bob = bob
  zoe = zoe
  carl = carl
  parents = parents
  Global = Global
  Removed = Removed
  Users <- MCUsers
  Groups <- MCGroups
  FirstRoster <- MCRoster
  Movers = {bob, zoe, carl}
  Subject = alice
  Author = alice
  Round = round
  Turns = {t1}
  Tellings <- MCTellings
  Reshares <- MCReshares
  MaxFacts = 2
  MaxSaid = 3
INVARIANTS TypeOK FencesStand EveryRoomIsHeard QueriesAgreeWithTheRowCheck ElectorsAreTheReaders
PROPERTY JoiningReachesNoFencedFact
CHECK_DEADLOCK FALSE
