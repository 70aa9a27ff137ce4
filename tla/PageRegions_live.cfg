SPECIFICATION FairSpec
CONSTANTS
  Facts = {f1}
  PlanPages = {a, b}
  RulesPages = {r}
  Turns = {t1}
  Dream = dream
  Watcher = watcher
  NoFact = NoFact
  NoPage = NoPage
  Overlap = FALSE
  MidRound = FALSE
  Tears = TRUE
  MaxFaults = 2
INVARIANTS OnlyGesturesForget
PROPERTIES RetiredLeavesThePage
