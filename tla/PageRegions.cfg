SPECIFICATION Spec
CONSTANTS
  Facts = {f1, f2}
  PlanPages = {a, b}
  RulesPages = {r}
  Turns = {t1}
  Dream = dream
  Watcher = watcher
  NoFact = NoFact
  NoPage = NoPage
  Overlap = FALSE
  MidRound = FALSE
  Tears = FALSE
  MaxFaults = 1
INVARIANTS OnlyGesturesForget
SYMMETRY Symmetry
