SPECIFICATION Spec
CONSTANTS
  ann = ann
  ben = ben
  cam = cam
  own = own
  told = told
  rule = rule
  card = card
  news = news
  People = {ann, ben, cam}
  Members = {ann, cam}
  Admin = cam
  Claims = {told, news, card}
  MaxSaid = 2
  About <- MCAboutIn
  By <- MCByIn
  Rules = {}
  Cards = {card}
  Global = Global
  Removed = Removed
  Nobody = Nobody
  Overlap = {}
  MaxFaults = 2
INVARIANTS NothingNamesTheErased OthersKeepTheirs NoProseWithoutARow
PROPERTY SpentIdsPassNoCheck
CHECK_DEADLOCK FALSE
